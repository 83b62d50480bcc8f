------------------------------ MODULE ProxyProofs ------------------------------
(***************************************************************************)
(* Proofs about Proxy and Tunnel, for any sizes of the peek and the probe, *)
(* any number of bytes of either peer and any cut of them into reads, and  *)
(* about the policy that decides what is decrypted, Scope, for any rules.  *)
(***************************************************************************)
EXTENDS Proxy, Scope, SequenceTheorems, WellFoundedInduction, TLAPS

USE TunnelAssumption, ProxyAssumption DEF TunnelAssumption, ProxyAssumption

-----------------------------------------------------------------------------
(* The inductive invariant.                                                *)

\* The clients as they come.
ClientOK ==
    /\ entry \in {"connect", "plain", "transparent"}
    /\ entry = "connect" => hello = 2
    /\ entry = "plain" => hello = 0
    /\ hello \in {0, 2, HelloLimit + 1}
    /\ sni \in BOOLEAN
    /\ scope \subseteq {"target", "sni"}

\* Nothing is passed on before the front is through.
FrontFirst ==
    /\ stage = "over" <=> pc # "front"
    /\ pc = "front" => kind = "none"
    /\ pc \in {"detect", "pump"} => kind # "none"
    /\ kind = "none" =>
          /\ status = "active" /\ withheld = {}
          /\ \A d \in Pumps : pump[d] = "read" /\ read[d] = 0 /\ got[Sink[d]] = <<>>

\* What the front knows, and what it took from the client, at each of its stages.
FrontSound ==
    /\ stage \in {"head", "probe"} => own = 0 /\ pos = 0 /\ host = "target"
    /\ stage = "probe" => entry = "transparent" /\ hello > 0
    /\ stage \in {"policy", "handshake"} => hello > 0 /\ own = HeadSize /\ host = Asked
    /\ stage \in {"head", "probe", "policy", "handshake"} => ~ decrypted
    /\ stage = "handshake" => Asked \in scope
    /\ stage = "dial" /\ ~ decrypted => own = HeadSize /\ (hello > 0 => Asked \notin scope)
    /\ decrypted => Asked \in scope
    /\ kind = "blind" => Asked \notin scope /\ own = HeadSize
    /\ deadline => kind = "none" /\ stage \in {"probe", "over"}

\* A client that waits for the answer to its CONNECT is read no further than that.
HeadAlone ==
    ~ EarlyData =>
        /\ pos = own
        /\ entry = "connect" /\ stage = "head" => sent["client"] <= HeadSize

\* The pumps: only the client's are ever held, the flow says so while one is, and
\* one is done when its peer is.
PumpSound ==
    /\ pump["s2c"] # "held"
    /\ pump["c2s"] = "held" <=> status = "pending"
    /\ status = "complete" => pc = "returned"
    /\ \A d \in Pumps : pump[d] = "done" => Source[d] \in gone
    /\ pc = "returned" /\ kind # "none" => status = "complete" /\ AllDone

\* Where the bytes for a pump begin: after those the front took for good.
Base(d) == IF d = "c2s" THEN pos ELSE 0

Busy(d) == pump[d] \in {"held", "write"}

\* The bytes of a direction of which it is known what became of them.
Settled(d) == IF Busy(d) THEN hand[d].first - 1 ELSE read[d]

\* A chunk in hand is the last that was read.
HandSound(d) ==
    Busy(d) =>
        /\ hand[d] \in Chunk /\ hand[d].first <= hand[d].last
        /\ hand[d].first > Base(d) /\ hand[d].last = read[d]

Delivered(d) == BytesOf(ToSet(got[Sink[d]]))

\* Each settled byte was delivered or withheld, and not both.
Ledger(d) ==
    /\ Delivered(d) \cup Withheld(d) \subseteq Base(d) + 1 .. Settled(d)
    /\ Delivered(d) \cap Withheld(d) = {}
    /\ Sink[d] \notin gone => Base(d) + 1 .. Settled(d) \subseteq Delivered(d) \cup Withheld(d)

InOrder(d) ==
    /\ \A i \in DOMAIN got[Sink[d]] : got[Sink[d]][i].last <= Settled(d)
    /\ \A i, j \in DOMAIN got[Sink[d]] :
          i < j => got[Sink[d]][i].last < got[Sink[d]][j].first

\* What was read, once there is something to pass on.
Carried(d) ==
    kind # "none" => read[d] >= Base(d) /\ HandSound(d) /\ Ledger(d) /\ InOrder(d)

PInv ==
    /\ TunnelTypeOK /\ TypeOK /\ ClientOK
    /\ FrontFirst /\ FrontSound /\ HeadAlone
    /\ PumpSound
    /\ \A d \in Pumps : Carried(d)

-----------------------------------------------------------------------------
(* Facts about the operators of the model.                                 *)

LEMMA Ends ==
    /\ Source["c2s"] = "client" /\ Sink["c2s"] = "server"
    /\ Source["s2c"] = "server" /\ Sink["s2c"] = "client"
    /\ \A d \in Pumps : Source[d] \in Peers /\ Sink[d] \in Peers
    /\ \A d, e \in Pumps : Sink[d] = Sink[e] => d = e
BY DEF Source, Sink, Pumps, Peers

\* The bytes of one chunk more.
LEMMA BytesAdded ==
    ASSUME NEW S, NEW c
    PROVE  BytesOf(S \cup {c}) = BytesOf(S) \cup Bytes(c)
BY DEF BytesOf

LEMMA ElementsAppended ==
    ASSUME NEW S, NEW s \in Seq(S), NEW c \in S
    PROVE  ToSet(Append(s, c)) = ToSet(s) \cup {c}
<1>1. /\ Append(s, c) \in Seq(S) /\ Len(Append(s, c)) = Len(s) + 1
      /\ \A i \in 1 .. Len(s) : Append(s, c)[i] = s[i]
      /\ Append(s, c)[Len(s) + 1] = c
  BY AppendProperties
<1>2. Len(s) \in Nat /\ DOMAIN s = 1 .. Len(s) /\ DOMAIN Append(s, c) = 1 .. Len(s) + 1
  BY <1>1, LenProperties
<1>3. ToSet(s) = {s[i] : i \in 1 .. Len(s)}
  BY <1>2 DEF ToSet
<1>4. ToSet(Append(s, c)) = {Append(s, c)[i] : i \in 1 .. Len(s) + 1}
  BY <1>2 DEF ToSet
<1>5. 1 .. Len(s) + 1 = 1 .. Len(s) \cup {Len(s) + 1}
  BY <1>2
<1> QED
  BY <1>1, <1>3, <1>4, <1>5

LEMMA AppendedKeeps ==
    ASSUME NEW D, NEW S, NEW f \in [D -> Seq(S)], NEW d \in D, NEW c \in S
    PROVE  [f EXCEPT ![d] = Append(f[d], c)] \in [D -> Seq(S)]
<1>1. Append(f[d], c) \in Seq(S)
  BY AppendProperties
<1> QED
  BY <1>1

-----------------------------------------------------------------------------
(* Types.                                                                  *)

LEMMA HeadBounds ==
    ASSUME ClientOK
    PROVE  HeadSize \in 0 .. 1 /\ HeadSize + hello \in 0 .. MaxBytes
BY DEF ClientOK, HeadSize

\* What a pump has in hand was read by it: a chunk with bytes.
LEMMA HeldIsChunk ==
    ASSUME PInv, NEW d \in Pumps, Busy(d)
    PROVE  kind # "none" /\ hand[d] \in Chunk /\ hand[d].first <= hand[d].last
BY DEF PInv, FrontFirst, Carried, HandSound, Busy

LEMMA ProxyTypeStep ==
    ASSUME PInv, [Next]_vars
    PROVE  TunnelTypeOK' /\ TypeOK' /\ ClientOK'
<1>0. PInv /\ TunnelTypeOK /\ TypeOK /\ ClientOK
  BY DEF PInv
<1> USE DEF tunnelVars, clientVars, frontVars, peerVars, flowVars, pumpVars, front
<1>1. ASSUME NEW p \in Peers, Peer(p) PROVE TunnelTypeOK' /\ TypeOK' /\ ClientOK'
  <2>1. CASE SendBytes(p)
    <3>1. sent' \in [Peers -> 0 .. MaxBytes]
      BY <1>0, <2>1 DEF SendBytes, TunnelTypeOK
    <3> QED
      BY <1>0, <1>1, <2>1, <3>1 DEF Peer, SendBytes, TunnelTypeOK, TypeOK, ClientOK
  <2>2. CASE HangUp(p)
    BY <1>0, <1>1, <2>2 DEF Peer, HangUp, TunnelTypeOK, TypeOK, ClientOK
  <2> QED
    BY <1>1, <2>1, <2>2 DEF Peer
<1>2. CASE \/ PeekRequestLine \/ BadHead \/ PeekFirst \/ ProbeDone \/ ProbeFails
           \/ Policy \/ HandshakeFails \/ DialFails
  <2>1. UNCHANGED <<kind, own, peerVars, flowVars, pumpVars, clientVars, pos, probed, decrypted>>
    BY <1>2 DEF PeekRequestLine, BadHead, PeekFirst, ProbeDone, ProbeFails, Policy,
                HandshakeFails, DialFails, GiveUp, Goto
  <2> USE DEF PeekRequestLine, BadHead, PeekFirst, ProbeDone, ProbeFails, Policy,
              HandshakeFails, DialFails, GiveUp, Goto
  <2>2. pc' \in {pc, "returned"}
    BY <1>2
  <2>3. stage' \in {"head", "probe", "policy", "handshake", "dial", "over"}
    BY <1>2
  <2>4. host' \in {"target", "sni"}
    BY <1>0, <1>2 DEF TypeOK
  <2>5. deadline' \in BOOLEAN
    <3>1. CASE PeekFirst
      <4>1. deadline' = (hello > 0)
        BY <3>1
      <4>2. (hello > 0) \in BOOLEAN
        OBVIOUS
      <4> QED
        BY <4>1, <4>2, Zenon
    <3>2. CASE ~ PeekFirst
      <4>1. deadline' = deadline \/ deadline' = FALSE
        BY <1>2, <3>2
      <4> QED
        BY <1>0, <4>1 DEF TypeOK
    <3> QED
      BY <3>1, <3>2
  <2> QED
    BY <1>0, <2>1, <2>2, <2>3, <2>4, <2>5 DEF TunnelTypeOK, TypeOK, ClientOK
<1>3. ASSUME NEW n \in 1 .. MaxBytes, ReadConnect(n) PROVE TunnelTypeOK' /\ TypeOK' /\ ClientOK'
  <2>1. own' \in 0 .. MaxBytes
    BY <1>0, <1>3, HeadBounds DEF ReadConnect, ClientOK
  <2> QED
    BY <1>0, <1>3, <2>1 DEF ReadConnect, TunnelTypeOK, TypeOK, ClientOK
<1>4. ASSUME NEW n \in 1 .. MaxBytes, ProbeReads(n) PROVE TunnelTypeOK' /\ TypeOK' /\ ClientOK'
  <2>1. probed' \in 0 .. HelloLimit
    BY <1>4 DEF ProbeReads
  <2> QED
    BY <1>0, <1>4, <2>1 DEF ProbeReads, Goto, TunnelTypeOK, TypeOK, ClientOK
<1>5. CASE DeadlinePasses
  <2>1. /\ pc' \in {pc, "returned"} /\ stage' \in {stage, "over"}
        /\ pump' = pump \/ pump' = [pump EXCEPT !["c2s"] = "done"]
    BY <1>5 DEF DeadlinePasses, GiveUp
  <2>2. UNCHANGED <<kind, own, peerVars, flowVars, read, hand, got, withheld, clientVars,
                    host, pos, probed, deadline, decrypted>>
    BY <1>5 DEF DeadlinePasses, GiveUp
  <2>3. pump' \in [Pumps -> {"read", "held", "write", "done"}]
    BY <1>0, <2>1 DEF TunnelTypeOK
  <2> QED
    BY <1>0, <2>1, <2>2, <2>3 DEF TunnelTypeOK, TypeOK, ClientOK
<1>6. ASSUME NEW alpn, Handshake(alpn) PROVE TunnelTypeOK' /\ TypeOK' /\ ClientOK'
  <2>1. own' \in 0 .. MaxBytes /\ pos' \in 0 .. MaxBytes
    <3>1. sent["client"] \in 0 .. MaxBytes /\ hello \in Nat
      BY <1>0 DEF TunnelTypeOK, Peers, ClientOK
    <3> QED
      BY <1>0, <1>6, <3>1, HeadBounds DEF Handshake, TypeOK
  <2> QED
    BY <1>0, <1>6, <2>1 DEF Handshake, TunnelTypeOK, TypeOK, ClientOK
<1>7. CASE Dial
  BY <1>0, <1>7 DEF Dial, TunnelTypeOK, TypeOK, ClientOK
<1>8. CASE Later(Detect) \/ Later(Return)
  <2>1. /\ pc' \in {"pump", "handed", "returned"} /\ status' \in {status, "complete"}
        /\ UNCHANGED <<kind, own, peerVars, recorded, pumpVars, clientVars, frontVars>>
    BY <1>8 DEF Later, Detect, Return
  <2> QED
    BY <1>0, <2>1 DEF TunnelTypeOK, TypeOK, ClientOK
<1>9. ASSUME NEW d \in Pumps, NEW last \in 1 .. MaxBytes, NEW held \in BOOLEAN,
             Later(Read(d, last, held))
      PROVE  TunnelTypeOK' /\ TypeOK' /\ ClientOK'
  <2> DEFINE chunk == [first |-> read[d] + 1, last |-> last, text |-> "original"]
  <2>1. chunk \in Chunk
    BY <1>0, <1>9 DEF Later, Read, TunnelTypeOK, Chunk
  <2> HIDE DEF chunk
  <2>2. hand' = [hand EXCEPT ![d] = chunk]
    BY <1>9 DEF Later, Read, chunk
  <2>3. recorded' = recorded \/ recorded' = [recorded EXCEPT ![d] = Append(recorded[d], chunk)]
    BY <1>9 DEF Later, Read, Record, chunk
  <2>4. recorded' \in [Pumps -> Seq(Chunk)]
    <3>1. recorded \in [Pumps -> Seq(Chunk)]
      BY <1>0 DEF TunnelTypeOK
    <3>2. [recorded EXCEPT ![d] = Append(recorded[d], chunk)] \in [Pumps -> Seq(Chunk)]
      BY <2>1, <3>1, AppendedKeeps
    <3> QED
      BY <2>3, <3>1, <3>2
  <2>5. hand' \in [Pumps -> Chunk \cup {NoChunk}] /\ read' \in [Pumps -> 0 .. MaxBytes]
    BY <1>0, <1>9, <2>1, <2>2 DEF Later, Read, TunnelTypeOK
  <2>6. /\ pump' \in [Pumps -> {"read", "held", "write", "done"}]
        /\ status' \in {"active", "pending", "complete"}
    BY <1>0, <1>9 DEF Later, Read, TunnelTypeOK
  <2>7. UNCHANGED <<kind, pc, own, sent, gone, got, withheld, clientVars, frontVars>>
    BY <1>9 DEF Later, Read
  <2> QED
    BY <1>0, <2>4, <2>5, <2>6, <2>7 DEF TunnelTypeOK, TypeOK, ClientOK
<1>10. ASSUME NEW d \in Pumps, NEW text \in {"original", "edited"}, Later(Forward(d, text))
       PROVE  TunnelTypeOK' /\ TypeOK' /\ ClientOK'
  <2>1. [hand[d] EXCEPT !.text = text] \in Chunk
    <3>1. hand[d] \in Chunk
      BY <1>0, <1>10, HeldIsChunk DEF Busy, Later, Forward
    <3> QED
      BY <3>1 DEF Chunk
  <2> QED
    BY <1>0, <1>10, <2>1 DEF Later, Forward, TunnelTypeOK, TypeOK, ClientOK
<1>11. ASSUME NEW d \in Pumps, Later(Drop(d)) PROVE TunnelTypeOK' /\ TypeOK' /\ ClientOK'
  BY <1>0, <1>11, HeldIsChunk DEF Busy, Later, Drop, TunnelTypeOK, TypeOK, ClientOK
<1>12. ASSUME NEW d \in Pumps, Later(Write(d)) PROVE TunnelTypeOK' /\ TypeOK' /\ ClientOK'
  <2>1. hand[d] \in Chunk /\ Sink[d] \in Peers
    BY <1>0, <1>12, HeldIsChunk, Ends DEF Busy, Later, Write
  <2>2. /\ got' = got \/ got' = [got EXCEPT ![Sink[d]] = Append(got[Sink[d]], hand[d])]
        /\ recorded' = recorded \/ recorded' = [recorded EXCEPT ![d] = Append(recorded[d], hand[d])]
    BY <1>12 DEF Later, Write, Record
  <2>3. got' \in [Peers -> Seq(Chunk)] /\ recorded' \in [Pumps -> Seq(Chunk)]
    <3>1. got \in [Peers -> Seq(Chunk)] /\ recorded \in [Pumps -> Seq(Chunk)]
      BY <1>0 DEF TunnelTypeOK
    <3>2. [got EXCEPT ![Sink[d]] = Append(got[Sink[d]], hand[d])] \in [Peers -> Seq(Chunk)]
      BY <2>1, <3>1, AppendedKeeps
    <3>3. [recorded EXCEPT ![d] = Append(recorded[d], hand[d])] \in [Pumps -> Seq(Chunk)]
      BY <2>1, <3>1, AppendedKeeps
    <3> QED
      BY <2>2, <3>1, <3>2, <3>3
  <2>4. /\ pump' \in [Pumps -> {"read", "held", "write", "done"}]
        /\ UNCHANGED <<kind, pc, own, sent, gone, status, read, hand, withheld, clientVars, frontVars>>
    BY <1>0, <1>12 DEF Later, Write, TunnelTypeOK
  <2> QED
    BY <1>0, <2>3, <2>4 DEF TunnelTypeOK, TypeOK, ClientOK
<1>13. ASSUME NEW d \in Pumps, Later(ReadFails(d)) PROVE TunnelTypeOK' /\ TypeOK' /\ ClientOK'
  BY <1>0, <1>13 DEF Later, ReadFails, TunnelTypeOK, TypeOK, ClientOK
<1>14. CASE UNCHANGED vars
  BY <1>0, <1>14 DEF vars, TunnelTypeOK, TypeOK, ClientOK
<1> QED
  BY <1>1, <1>2, <1>3, <1>4, <1>5, <1>6, <1>7, <1>8, <1>9, <1>10, <1>11, <1>12, <1>13, <1>14
     DEF Next, FrontSteps, ReadAny, Answer, Later

-----------------------------------------------------------------------------
(* The front: what it knows, and that nothing is passed on before it is    *)
(* through.                                                                *)

\* A pump that never started has nothing in hand and takes no step.
LEMMA PumpsWait ==
    ASSUME PInv, kind = "none"
    PROVE  \A d \in Pumps :
               /\ pc # "pump" /\ pump[d] = "read" /\ read[d] = 0 /\ got[Sink[d]] = <<>>
               /\ withheld = {} /\ status = "active"
BY DEF PInv, FrontFirst

LEMMA FrontStep ==
    ASSUME PInv, [Next]_vars
    PROVE  FrontFirst' /\ FrontSound'
<1>0. /\ TunnelTypeOK /\ TypeOK /\ ClientOK /\ FrontFirst /\ FrontSound
      /\ hello \in Nat
  BY DEF PInv, ClientOK
<1> USE DEF tunnelVars, clientVars, frontVars, peerVars, flowVars, pumpVars, front,
            FrontFirst, FrontSound, HeadSize, Asked
<1>1. ASSUME UNCHANGED <<kind, pc, own, status, withheld, pump, read, got, clientVars, frontVars>>
      PROVE  FrontFirst' /\ FrontSound'
  BY <1>0, <1>1
<1>2. ASSUME NEW p \in Peers, Peer(p) PROVE FrontFirst' /\ FrontSound'
  BY <1>1, <1>2 DEF Peer, SendBytes, HangUp
<1>3. ASSUME GiveUp, pc = "front", UNCHANGED deadline PROVE FrontFirst' /\ FrontSound'
  BY <1>0, <1>3 DEF GiveUp
<1>4. CASE BadHead \/ ProbeFails \/ HandshakeFails \/ DialFails
  <2>1. GiveUp /\ stage # "over"
    BY <1>4 DEF BadHead, ProbeFails, HandshakeFails, DialFails
  <2> QED
    BY <1>0, <2>1 DEF GiveUp
<1>5. CASE PeekRequestLine \/ PeekFirst
  <2>1. CASE PeekRequestLine
    <3>1. hello = 0
      BY <1>0, <2>1 DEF PeekRequestLine, ClientOK
    <3> QED
      BY <1>0, <2>1, <3>1 DEF PeekRequestLine, Goto
  <2>2. CASE PeekFirst /\ hello > 0
    <3>1. stage = "head" /\ stage' = "probe" /\ entry = "transparent"
      BY <2>2 DEF PeekFirst, Goto
    <3>2. /\ pc = "front" /\ UNCHANGED <<host, pos, decrypted, kind, pc, own, flowVars,
                                        clientVars, pumpVars>>
      BY <2>2 DEF PeekFirst, Goto
    <3> QED
      BY <1>0, <2>2, <3>1, <3>2
  <2>3. CASE PeekFirst /\ ~ (hello > 0)
    <3>1. stage = "head" /\ stage' = "dial" /\ entry = "transparent" /\ ~ deadline'
      BY <2>3 DEF PeekFirst, Goto
    <3>2. /\ pc = "front" /\ UNCHANGED <<host, pos, decrypted, kind, pc, own, flowVars,
                                        clientVars, pumpVars>>
      BY <2>3 DEF PeekFirst, Goto
    <3> QED
      BY <1>0, <2>3, <3>1, <3>2
  <2> QED
    BY <1>5, <2>1, <2>2, <2>3
<1>6. CASE ProbeDone
  BY <1>0, <1>6 DEF ProbeDone, Goto
<1>7. CASE Policy
  BY <1>0, <1>7 DEF Policy, Goto
<1>8. ASSUME NEW n \in 1 .. MaxBytes, ReadConnect(n) PROVE FrontFirst' /\ FrontSound'
  BY <1>0, <1>8 DEF ReadConnect, ClientOK
<1>9. ASSUME NEW n \in 1 .. MaxBytes, ProbeReads(n) PROVE FrontFirst' /\ FrontSound'
  BY <1>0, <1>9 DEF ProbeReads, Goto
<1>10. CASE DeadlinePasses
  <2>1. kind = "none" /\ pc # "pump"
    BY <1>0, <1>10 DEF DeadlinePasses
  <2>2. stage = "probe" /\ GiveUp
    BY <1>10, <2>1 DEF DeadlinePasses
  <2> QED
    BY <1>0, <2>2 DEF GiveUp
<1>11. ASSUME NEW alpn, Handshake(alpn) PROVE FrontFirst' /\ FrontSound'
  BY <1>0, <1>11 DEF Handshake
<1>12. CASE Dial
  BY <1>0, <1>12 DEF Dial
<1>13. CASE Later(Detect) \/ Later(Return)
  BY <1>0, <1>13 DEF Later, Detect, Return
<1>14. ASSUME NEW d \in Pumps, Later(ReadAny(d) \/ Answer(d) \/ Write(d) \/ ReadFails(d))
       PROVE  FrontFirst' /\ FrontSound'
  <2>1. /\ UNCHANGED <<kind, pc, own, clientVars, frontVars>>
        /\ pc = "pump" \/ pump[d] \in {"held", "write"}
    BY <1>14 DEF Later, ReadAny, Read, Answer, Forward, Drop, Write, ReadFails
  <2>2. kind # "none"
    BY <1>0, <2>1
  <2>3. FrontFirst'
    BY <1>0, <2>1, <2>2
  <2>4. FrontSound'
    BY <1>0, <2>1
  <2> QED
    BY <2>3, <2>4
<1>15. CASE UNCHANGED vars
  BY <1>1, <1>15 DEF vars
<1> QED
  BY <1>2, <1>4, <1>5, <1>6, <1>7, <1>8, <1>9, <1>10, <1>11, <1>12, <1>13, <1>14, <1>15
     DEF Next, FrontSteps, Later

LEMMA HeadStep ==
    ASSUME PInv, [Next]_vars
    PROVE  HeadAlone'
<1> SUFFICES ASSUME ~ EarlyData PROVE HeadAlone'
  BY DEF HeadAlone
<1>0. /\ TunnelTypeOK /\ TypeOK /\ ClientOK /\ FrontFirst /\ FrontSound
      /\ pos = own /\ (entry = "connect" /\ stage = "head" => sent["client"] <= HeadSize)
      /\ sent \in [Peers -> 0 .. MaxBytes] /\ HeadSize \in 0 .. 1
  BY HeadBounds DEF PInv, HeadAlone, TunnelTypeOK
<1> USE DEF tunnelVars, clientVars, frontVars, peerVars, flowVars, pumpVars, front, HeadAlone
\* The client's bytes stay as they are, and so does where its stream begins.
<1>1. ASSUME UNCHANGED <<own, pos, sent, entry>>, stage' = "head" => stage = "head"
      PROVE  HeadAlone'
  BY <1>0, <1>1 DEF HeadSize
<1>2. ASSUME NEW p \in Peers, Peer(p) PROVE HeadAlone'
  <2>1. /\ UNCHANGED <<own, pos, entry, stage>>
        /\ \/ sent' = sent
           \/ sent' = [sent EXCEPT ![p] = sent[p] + 1] /\ MaySend(p)
    BY <1>2 DEF Peer, SendBytes, HangUp
  <2>2. entry = "connect" /\ stage = "head" => sent'["client"] <= HeadSize
    <3>1. ASSUME p = "client", MaySend(p), entry = "connect", stage = "head"
          PROVE  sent["client"] + 1 <= HeadSize
      BY <1>0, <3>1 DEF MaySend, Peers
    <3> QED
      BY <1>0, <2>1, <3>1 DEF Peers
  <2> QED
    BY <1>0, <2>1, <2>2 DEF HeadSize
<1>3. ASSUME NEW n \in 1 .. MaxBytes, ReadConnect(n) PROVE HeadAlone'
  <2>1. /\ own' = HeadSize /\ pos' = n /\ stage' = "policy"
        /\ n \in HeadSize .. sent["client"] /\ entry = "connect" /\ stage = "head"
    BY <1>3 DEF ReadConnect
  <2>2. sent["client"] \in Nat /\ sent["client"] <= HeadSize
    BY <1>0, <2>1 DEF Peers
  <2>3. n = HeadSize
    BY <1>0, <2>1, <2>2
  <2> QED
    BY <2>1, <2>3
<1>4. ASSUME NEW alpn, Handshake(alpn) PROVE HeadAlone'
  <2>1. /\ own' = HeadSize + hello /\ pos' = pos + hello /\ stage' \in {"over", "dial"}
        /\ own = HeadSize
    BY <1>0, <1>4 DEF Handshake, FrontSound
  <2> QED
    BY <1>0, <2>1
<1>5. CASE PeekRequestLine \/ BadHead \/ PeekFirst \/ ProbeDone \/ ProbeFails
           \/ DeadlinePasses \/ Policy \/ HandshakeFails \/ Dial \/ DialFails
           \/ (\E n \in 1 .. MaxBytes : ProbeReads(n))
  BY <1>1, <1>5 DEF PeekRequestLine, BadHead, PeekFirst, ProbeDone, ProbeFails, ProbeReads,
        DeadlinePasses, Policy, HandshakeFails, Dial, DialFails, GiveUp, Goto
<1>6. CASE \/ Later(Detect) \/ Later(Return)
           \/ \E d \in Pumps : Later(ReadAny(d) \/ Answer(d) \/ Write(d) \/ ReadFails(d))
  <2>1. UNCHANGED <<own, pos, sent, entry, stage>>
    BY <1>6 DEF Later, Detect, Return, ReadAny, Read, Answer, Forward, Drop, Write, ReadFails
  <2> QED
    BY <1>1, <2>1
<1>7. CASE UNCHANGED vars
  BY <1>1, <1>7 DEF vars
<1> QED
  BY <1>2, <1>3, <1>4, <1>5, <1>6, <1>7 DEF Next, FrontSteps, Later

-----------------------------------------------------------------------------
(* The pumps.                                                              *)

LEMMA PumpStep ==
    ASSUME PInv, [Next]_vars
    PROVE  PumpSound'
<1>0. /\ TunnelTypeOK /\ FrontFirst /\ PumpSound
      /\ pump \in [Pumps -> {"read", "held", "write", "done"}]
      /\ Pumps = {"c2s", "s2c"} /\ Peers = {"client", "server"}
      /\ Source["c2s"] = "client" /\ Source["s2c"] = "server"
  BY Ends DEF PInv, TunnelTypeOK, Pumps, Peers
<1> USE DEF tunnelVars, clientVars, frontVars, peerVars, flowVars, pumpVars, front,
            PumpSound, AllDone
<1>1. ASSUME UNCHANGED <<pump, status>>, gone \subseteq gone', pc = "returned" => pc' = "returned",
             pc' = "returned" /\ kind' # "none" => pc = "returned" /\ kind # "none"
      PROVE  PumpSound'
  BY <1>0, <1>1
<1>2. ASSUME NEW p \in Peers, Peer(p) PROVE PumpSound'
  BY <1>1, <1>2 DEF Peer, SendBytes, HangUp
<1>3. CASE FrontSteps
  <2>1. UNCHANGED <<pump, status, gone>> /\ pc = "front"
        /\ (pc' = "returned" => kind' = kind)
    <3>1. CASE DeadlinePasses
      <4>1. kind = "none"
        BY <3>1 DEF PInv, FrontSound, DeadlinePasses
      <4>2. pc # "pump"
        BY <1>0, <4>1 DEF FrontFirst
      <4> QED
        BY <1>0, <3>1, <4>2 DEF DeadlinePasses, GiveUp, FrontFirst
    <3>2. CASE BadHead \/ ProbeFails \/ HandshakeFails \/ DialFails
      <4>1. GiveUp /\ stage # "over"
        BY <3>2 DEF BadHead, ProbeFails, HandshakeFails, DialFails
      <4> QED
        BY <1>0, <4>1 DEF GiveUp, FrontFirst
    <3>3. CASE PeekRequestLine \/ PeekFirst \/ ProbeDone \/ Policy \/ Dial
               \/ (\E n \in 1 .. MaxBytes : ReadConnect(n) \/ ProbeReads(n))
               \/ (\E alpn \in {"h2", "http/1.1"} : Handshake(alpn))
      BY <3>3 DEF PeekRequestLine, PeekFirst, ProbeDone, Policy, Dial, ReadConnect,
                  ProbeReads, Handshake, Goto
    <3> QED
      BY <1>3, <3>1, <3>2, <3>3 DEF FrontSteps
  <2>2. kind = "none"
    BY <1>0, <2>1 DEF FrontFirst
  <2> QED
    BY <1>1, <2>1, <2>2
<1>4. CASE Later(Detect)
  BY <1>1, <1>4 DEF Later, Detect
<1>5. CASE Later(Return)
  <2>1. /\ pc = "pump" /\ pc' = "returned" /\ UNCHANGED <<pump, gone, kind>> /\ AllDone
        /\ status' = IF kind = "raw" /\ status # "active" THEN status ELSE "complete"
    BY <1>5 DEF Later, Return
  <2>2. status = "active"
    BY <1>0, <2>1 DEF TunnelTypeOK
  <2> QED
    BY <1>0, <2>1, <2>2
<1>6. ASSUME NEW d \in Pumps, NEW held \in BOOLEAN,
             pc = "pump", pump[d] = "read", held => d = "c2s",
             pump' = [pump EXCEPT ![d] = IF held THEN "held" ELSE "write"],
             status' = IF held THEN "pending" ELSE status,
             UNCHANGED <<gone, pc, kind>>
      PROVE  PumpSound'
  BY <1>0, <1>6
<1>7. ASSUME NEW d \in Pumps, pump[d] = "held", NEW next \in {"read", "write"},
             pump' = [pump EXCEPT ![d] = next], status' = "active",
             UNCHANGED <<gone, pc, kind>>
      PROVE  PumpSound'
  BY <1>0, <1>7
<1>8. ASSUME NEW d \in Pumps, pump[d] = "write",
             pump' = [pump EXCEPT ![d] = "read"], UNCHANGED <<status, gone, pc, kind>>
      PROVE  PumpSound'
  BY <1>0, <1>8
<1>9. ASSUME NEW d \in Pumps, pump[d] = "read", pc = "pump", Source[d] \in gone,
             pump' = [pump EXCEPT ![d] = "done"], UNCHANGED <<status, gone, pc, kind>>
      PROVE  PumpSound'
  BY <1>0, <1>9
<1>10. ASSUME NEW d \in Pumps, Later(ReadAny(d) \/ Answer(d) \/ Write(d) \/ ReadFails(d))
       PROVE  PumpSound'
  <2>1. ASSUME NEW last \in 1 .. MaxBytes, NEW held \in BOOLEAN, Later(Read(d, last, held))
        PROVE  PumpSound'
    BY <1>6, <2>1 DEF Later, Read
  <2>2. ASSUME NEW text \in {"original", "edited"}, Later(Forward(d, text)) PROVE PumpSound'
    BY <1>7, <2>2 DEF Later, Forward
  <2>3. CASE Later(Drop(d))
    BY <1>7, <2>3 DEF Later, Drop
  <2>4. CASE Later(Write(d))
    BY <1>8, <2>4 DEF Later, Write
  <2>5. CASE Later(ReadFails(d))
    BY <1>9, <2>5 DEF Later, ReadFails
  <2> QED
    BY <1>10, <2>1, <2>2, <2>3, <2>4, <2>5 DEF Later, ReadAny, Answer
<1>11. CASE UNCHANGED vars
  BY <1>1, <1>11 DEF vars
<1> QED
  BY <1>2, <1>3, <1>4, <1>5, <1>10, <1>11 DEF Next, Later

-----------------------------------------------------------------------------
(* The ledger of each direction.                                           *)

\* A chunk in hand is disposed of: its bytes join the settled ones.
LEMMA Disposed ==
    ASSUME NEW b \in Nat, NEW r \in Nat, NEW c \in Chunk,
           b < c.first, c.first <= c.last, c.last = r,
           NEW D, NEW W, D \cup W \subseteq b + 1 .. c.first - 1, D \cap W = {}
    PROVE  /\ (D \cup Bytes(c)) \cup W \subseteq b + 1 .. r
           /\ D \cup W \subseteq b + 1 .. r
           /\ Bytes(c) \cap W = {} /\ Bytes(c) \cap D = {}
           /\ b + 1 .. c.first - 1 \subseteq D \cup W
              => b + 1 .. r \subseteq (D \cup Bytes(c)) \cup W
<1>1. c.first \in Nat /\ c.last \in Nat
  BY DEF Chunk
<1> QED
  BY <1>1 DEF Bytes

\* Nothing of a direction is disturbed.
LEMMA CarriedKept ==
    ASSUME NEW d \in Pumps, Carried(d), kind' = kind,
           UNCHANGED <<pos, read[d], got[Sink[d]]>>,
           Withheld(d)' = Withheld(d),
           Busy(d)' <=> Busy(d),
           Busy(d) => hand'[d] \in Chunk /\ hand'[d].first = hand[d].first
                      /\ hand'[d].last = hand[d].last,
           gone \subseteq gone'
    PROVE  Carried(d)'
<1>1. UNCHANGED <<Base(d), Settled(d), Delivered(d)>>
  BY DEF Base, Settled, Delivered
<1>2. /\ (read[d])' = read[d] /\ (got[Sink[d]])' = got[Sink[d]] /\ (Sink[d])' = Sink[d]
  BY DEF Sink
<1> SUFFICES ASSUME kind' # "none" PROVE Carried(d)'
  BY DEF Carried
<1>3. HandSound(d)'
  BY <1>1, <1>2 DEF Carried, HandSound
<1>4. Ledger(d)'
  BY <1>1, <1>2 DEF Carried, Ledger
<1>5. InOrder(d)'
  BY <1>1, <1>2 DEF Carried, InOrder
<1> QED
  BY <1>1, <1>2, <1>3, <1>4, <1>5 DEF Carried

LEMMA CarriedRead ==
    ASSUME PInv, NEW d \in Pumps, NEW last \in 1 .. MaxBytes, NEW held \in BOOLEAN,
           Later(Read(d, last, held))
    PROVE  Carried(d)'
<1>0. TunnelTypeOK /\ TypeOK /\ Carried(d) /\ kind # "none" /\ ~ Busy(d)
  BY DEF PInv, FrontFirst, Busy, Later, Read
<1> DEFINE r == read[d]
           chunk == [first |-> r + 1, last |-> last, text |-> "original"]
<1>1. r \in Nat /\ Base(d) \in Nat /\ r >= Base(d) /\ Settled(d) = r /\ last >= r + 1
  BY <1>0 DEF Later, Read, TunnelTypeOK, TypeOK, Carried, Settled, Base, Peers, Pumps
<1>2. /\ UNCHANGED <<kind, got, withheld, gone, pos>>
      /\ read'[d] = last /\ hand'[d] = chunk
      /\ pump'[d] \in {"held", "write"}
  BY <1>0 DEF Later, Read, TunnelTypeOK, frontVars, peerVars
<1>3. chunk \in Chunk /\ chunk.first = r + 1 /\ chunk.last = last
  BY <1>1 DEF Chunk
<1> HIDE DEF chunk
<1>4. Busy(d)' /\ Base(d)' = Base(d) /\ Settled(d)' = (r + 1) - 1
  BY <1>2, <1>3 DEF Busy, Base, Settled
<1>5. Settled(d)' = Settled(d)
  BY <1>1, <1>4
<1> HIDE DEF r
<1>6. HandSound(d)'
  BY <1>1, <1>2, <1>3, <1>4 DEF HandSound
<1>7. Ledger(d)' /\ InOrder(d)'
  BY <1>0, <1>2, <1>4, <1>5
     DEF Carried, Ledger, InOrder, Delivered, Withheld, Sink
<1>8. read'[d] >= Base(d)'
  BY <1>1, <1>2, <1>4
<1> QED
  BY <1>6, <1>7, <1>8 DEF Carried

\* What holds of a chunk in hand before it is disposed of.
LEMMA InHandFacts ==
    ASSUME PInv, NEW d \in Pumps, Busy(d)
    PROVE  /\ Base(d) \in Nat /\ read[d] \in Nat /\ hand[d] \in Chunk
           /\ Base(d) < hand[d].first /\ hand[d].first <= hand[d].last
           /\ hand[d].last = read[d] /\ read[d] >= Base(d)
           /\ hand[d].first \in Nat /\ hand[d].last \in Nat
           /\ Settled(d) = hand[d].first - 1
           /\ Ledger(d) /\ InOrder(d) /\ kind # "none"
<1>1. TunnelTypeOK /\ TypeOK /\ Carried(d) /\ kind # "none"
  BY HeldIsChunk DEF PInv
<1>2. hand[d] \in Chunk /\ hand[d].first \in Nat /\ hand[d].last \in Nat
  BY HeldIsChunk DEF Chunk
<1>3. Base(d) \in Nat /\ read[d] \in Nat
  BY <1>1 DEF TunnelTypeOK, TypeOK, Base
<1> QED
  BY <1>1, <1>2, <1>3 DEF Carried, HandSound, Settled

LEMMA GotChunks ==
    ASSUME TunnelTypeOK, NEW d \in Pumps
    PROVE  /\ got[Sink[d]] \in Seq(Chunk)
           /\ \A i \in DOMAIN got[Sink[d]] : got[Sink[d]][i].last \in Nat
<1>1. got[Sink[d]] \in Seq(Chunk)
  BY Ends DEF TunnelTypeOK
<1>2. \A i \in DOMAIN got[Sink[d]] : got[Sink[d]][i] \in Chunk
  BY <1>1, ElementOfSeq, LenProperties
<1> QED
  BY <1>1, <1>2 DEF Chunk

LEMMA CarriedDrop ==
    ASSUME PInv, NEW d \in Pumps, Later(Drop(d))
    PROVE  Carried(d)'
<1>0. Busy(d) /\ d = "c2s" /\ TunnelTypeOK
  BY DEF PInv, PumpSound, Busy, Later, Drop, Pumps
<1> DEFINE b == Base(d)
           r == read[d]
           c == hand[d]
           D == Delivered(d)
           W == Withheld(d)
<1>1. /\ b \in Nat /\ r \in Nat /\ c \in Chunk
      /\ b < c.first /\ c.first <= c.last /\ c.last = r /\ r >= b
      /\ D \cup W \subseteq b + 1 .. c.first - 1 /\ D \cap W = {}
      /\ Sink[d] \notin gone => b + 1 .. c.first - 1 \subseteq D \cup W
  BY <1>0, InHandFacts DEF Ledger
<1>2. /\ UNCHANGED <<kind, pos, got, read, hand, gone>> /\ withheld' = withheld \cup {c}
      /\ ~ Busy(d)'
  BY <1>0 DEF Later, Drop, Busy, TunnelTypeOK, frontVars, peerVars
<1>3. /\ Base(d)' = b /\ Settled(d)' = r /\ Delivered(d)' = D /\ Withheld(d)' = W \cup Bytes(c)
      /\ (read[d])' = r
  BY <1>0, <1>2, BytesAdded DEF Base, Settled, Delivered, Withheld, Sink
<1>4. /\ D \cup (W \cup Bytes(c)) \subseteq b + 1 .. r
      /\ D \cap (W \cup Bytes(c)) = {}
      /\ Sink[d] \notin gone => b + 1 .. r \subseteq D \cup (W \cup Bytes(c))
  <2> HIDE DEF b, r, c, D, W
  <2>1. /\ (D \cup Bytes(c)) \cup W \subseteq b + 1 .. r
        /\ Bytes(c) \cap D = {}
        /\ b + 1 .. c.first - 1 \subseteq D \cup W
              => b + 1 .. r \subseteq (D \cup Bytes(c)) \cup W
    BY <1>1, Disposed
  <2> QED
    BY <1>1, <2>1
<1>5. Ledger(d)'
  BY <1>2, <1>3, <1>4 DEF Ledger, Sink
<1>6. InOrder(d)'
  <2>1. InOrder(d) /\ Settled(d) = c.first - 1 /\ c.first \in Nat
    BY <1>0, InHandFacts
  <2>2. Settled(d) <= r
    BY <1>1, <2>1
  <2>3. \A i \in DOMAIN got[Sink[d]] : got[Sink[d]][i].last \in Nat
    BY <1>0, GotChunks
  <2>4. \A i \in DOMAIN got[Sink[d]] : got[Sink[d]][i].last <= r
    BY <1>1, <2>1, <2>2, <2>3 DEF InOrder
  <2> QED
    BY <1>2, <1>3, <2>1, <2>4 DEF InOrder, Sink
<1>7. HandSound(d)'
  BY <1>2 DEF HandSound
<1> QED
  BY <1>1, <1>3, <1>5, <1>6, <1>7 DEF Carried

LEMMA LastOrBefore ==
    ASSUME NEW n \in Nat, NEW j \in 1 .. n + 1
    PROVE  j = n + 1 \/ j \in 1 .. n
OBVIOUS

\* The order of what was delivered, with one chunk more at its end.
LEMMA OrderKept ==
    ASSUME NEW s \in Seq(Chunk), NEW c \in Chunk, NEW n \in Int, n < c.first, c.first <= c.last,
           \A i \in DOMAIN s : s[i].last \in Nat /\ s[i].last <= n,
           \A i, j \in DOMAIN s : i < j => s[i].last < s[j].first
    PROVE  /\ \A i \in DOMAIN Append(s, c) : Append(s, c)[i].last <= c.last
           /\ \A i, j \in DOMAIN Append(s, c) :
                 i < j => Append(s, c)[i].last < Append(s, c)[j].first
<1>1. /\ Len(s) \in Nat /\ DOMAIN s = 1 .. Len(s)
      /\ Append(s, c) \in Seq(Chunk) /\ Len(Append(s, c)) = Len(s) + 1
      /\ \A i \in 1 .. Len(s) : Append(s, c)[i] = s[i]
      /\ Append(s, c)[Len(s) + 1] = c
  BY AppendProperties, LenProperties
<1>2. DOMAIN Append(s, c) = 1 .. Len(s) + 1
  BY <1>1, LenProperties
<1>3. c.last \in Nat /\ c.first \in Nat
  BY DEF Chunk
<1>4. \A i \in 1 .. Len(s) : Append(s, c)[i].last < c.first
  BY <1>1, <1>3
<1>5. \A i \in 1 .. Len(s) + 1 : Append(s, c)[i].last <= c.last
  BY <1>1, <1>3
<1>6. \A i, j \in 1 .. Len(s) + 1 : i < j => Append(s, c)[i].last < Append(s, c)[j].first
  <2> SUFFICES ASSUME NEW i \in 1 .. Len(s) + 1, NEW j \in 1 .. Len(s) + 1, i < j
               PROVE  Append(s, c)[i].last < Append(s, c)[j].first
    OBVIOUS
  <2>1. i \in 1 .. Len(s)
    BY <1>1
  <2>2. CASE j = Len(s) + 1
    BY <1>1, <1>4, <2>1, <2>2
  <2>3. CASE j \in 1 .. Len(s)
    <3>1. Append(s, c)[i] = s[i] /\ Append(s, c)[j] = s[j]
      BY <1>1, <2>1, <2>3
    <3>2. s[i].last < s[j].first
      BY <1>1, <2>1, <2>3
    <3> QED
      BY <3>1, <3>2
  <2>4. j = Len(s) + 1 \/ j \in 1 .. Len(s)
    <3>1. Len(s) \in Nat
      BY <1>1
    <3> QED
      BY <3>1, LastOrBefore
  <2> QED
    BY <2>2, <2>3, <2>4
<1> QED
  BY <1>2, <1>5, <1>6

LEMMA CarriedWrite ==
    ASSUME PInv, NEW d \in Pumps, Later(Write(d))
    PROVE  Carried(d)'
<1>0. Busy(d) /\ TunnelTypeOK
  BY DEF PInv, Busy, Later, Write
<1> DEFINE b == Base(d)
           r == read[d]
           c == hand[d]
           D == Delivered(d)
           W == Withheld(d)
<1>1. /\ b \in Nat /\ r \in Nat /\ c \in Chunk
      /\ b < c.first /\ c.first <= c.last /\ c.last = r /\ r >= b
      /\ c.first \in Nat /\ c.last \in Nat
      /\ D \cup W \subseteq b + 1 .. c.first - 1 /\ D \cap W = {}
      /\ Sink[d] \notin gone => b + 1 .. c.first - 1 \subseteq D \cup W
      /\ InOrder(d) /\ Settled(d) = c.first - 1
  BY <1>0, InHandFacts DEF Ledger
<1>2. /\ UNCHANGED <<kind, pos, withheld, read, hand, gone>> /\ ~ Busy(d)'
      /\ IF Sink[d] \in gone THEN got' = got
         ELSE got' = [got EXCEPT ![Sink[d]] = Append(got[Sink[d]], hand[d])]
  BY <1>0 DEF Later, Write, Busy, TunnelTypeOK, frontVars, peerVars
<1>3. Base(d)' = b /\ Settled(d)' = r /\ Withheld(d)' = W /\ (read[d])' = r
  BY <1>2 DEF Base, Settled, Withheld
<1>4. /\ (D \cup Bytes(c)) \cup W \subseteq b + 1 .. r /\ D \cup W \subseteq b + 1 .. r
      /\ Bytes(c) \cap W = {}
      /\ b + 1 .. c.first - 1 \subseteq D \cup W
            => b + 1 .. r \subseteq (D \cup Bytes(c)) \cup W
  <2>1. /\ b \in Nat /\ r \in Nat /\ c \in Chunk
        /\ b < c.first /\ c.first <= c.last /\ c.last = r
        /\ D \cup W \subseteq b + 1 .. c.first - 1 /\ D \cap W = {}
    BY <1>1
  <2> HIDE DEF b, r, c, D, W
  <2> QED
    BY <2>1, Disposed
<1>5. got[Sink[d]] \in Seq(Chunk) /\ \A i \in DOMAIN got[Sink[d]] : got[Sink[d]][i].last \in Nat
  BY <1>0, GotChunks
<1>6. CASE Sink[d] \in gone
  <2>1. Delivered(d)' = D /\ (got[Sink[d]])' = got[Sink[d]]
    BY <1>2, <1>6 DEF Delivered, Sink
  <2>2. Ledger(d)'
    BY <1>1, <1>2, <1>3, <1>4, <1>6, <2>1 DEF Ledger, Sink
  <2>3. InOrder(d)'
    <3>1. Settled(d) <= r
      BY <1>1
    <3>2. \A i \in DOMAIN got[Sink[d]] : got[Sink[d]][i].last <= r
      BY <1>1, <1>5, <3>1 DEF InOrder
    <3> QED
      BY <1>1, <1>3, <2>1, <3>2 DEF InOrder
  <2>4. HandSound(d)'
    BY <1>2 DEF HandSound
  <2> QED
    BY <1>1, <1>3, <2>2, <2>3, <2>4 DEF Carried
<1>7. CASE Sink[d] \notin gone
  <2>1. (got[Sink[d]])' = Append(got[Sink[d]], c)
    BY <1>0, <1>2, <1>7, Ends DEF Sink, TunnelTypeOK
  <2>2. Delivered(d)' = D \cup Bytes(c)
    <3>1. ToSet(Append(got[Sink[d]], c)) = ToSet(got[Sink[d]]) \cup {c}
      BY <1>1, <1>5, ElementsAppended
    <3> QED
      BY <2>1, <3>1, BytesAdded DEF Delivered
  <2>3. Ledger(d)'
    BY <1>1, <1>2, <1>3, <1>4, <1>7, <2>2 DEF Ledger, Sink
  <2>4. InOrder(d)'
    <3>1. \A i \in DOMAIN got[Sink[d]] :
             got[Sink[d]][i].last \in Nat /\ got[Sink[d]][i].last <= c.first - 1
      BY <1>1, <1>5 DEF InOrder
    <3>2. c.first - 1 \in Int /\ c.first - 1 < c.first /\ c.first <= c.last
      BY <1>1
    <3>3. \A i, j \in DOMAIN got[Sink[d]] :
             i < j => got[Sink[d]][i].last < got[Sink[d]][j].first
      BY <1>1 DEF InOrder
    <3>4. /\ \A i \in DOMAIN Append(got[Sink[d]], c) : Append(got[Sink[d]], c)[i].last <= c.last
          /\ \A i, j \in DOMAIN Append(got[Sink[d]], c) :
                i < j => Append(got[Sink[d]], c)[i].last < Append(got[Sink[d]], c)[j].first
      BY <1>1, <1>5, <3>1, <3>2, <3>3, OrderKept
    <3> QED
      BY <1>1, <1>3, <2>1, <3>4 DEF InOrder
  <2>5. HandSound(d)'
    BY <1>2 DEF HandSound
  <2> QED
    BY <1>1, <1>3, <2>3, <2>4, <2>5 DEF Carried
<1> QED
  BY <1>6, <1>7

LEMMA CarriedStep ==
    ASSUME PInv, [Next]_vars, NEW e \in Pumps
    PROVE  Carried(e)'
<1>0. /\ TunnelTypeOK /\ TypeOK /\ FrontFirst /\ PumpSound /\ Carried(e)
      /\ Pumps = {"c2s", "s2c"}
  BY DEF PInv, Pumps
<1> USE DEF tunnelVars, clientVars, frontVars, peerVars, flowVars, pumpVars, front
\* Until the server is dialed there is nothing to carry.
<1>1. ASSUME kind' = "none" PROVE Carried(e)'
  BY <1>1 DEF Carried
<1>2. CASE FrontSteps /\ ~ Dial
  <2>1. kind = "none" /\ kind' = kind
    <3>1. CASE DeadlinePasses
      BY <3>1 DEF PInv, FrontSound, DeadlinePasses, GiveUp
    <3>2. CASE BadHead \/ ProbeFails \/ HandshakeFails \/ DialFails
      <4>1. GiveUp /\ stage # "over"
        BY <3>2 DEF BadHead, ProbeFails, HandshakeFails, DialFails
      <4> QED
        BY <1>0, <4>1 DEF GiveUp, FrontFirst
    <3>3. CASE PeekRequestLine \/ PeekFirst \/ ProbeDone \/ Policy
               \/ (\E n \in 1 .. MaxBytes : ReadConnect(n) \/ ProbeReads(n))
               \/ (\E alpn \in {"h2", "http/1.1"} : Handshake(alpn))
      <4>1. pc = "front" /\ kind' = kind
        BY <3>3 DEF PeekRequestLine, PeekFirst, ProbeDone, Policy, ReadConnect,
                    ProbeReads, Handshake, Goto
      <4> QED
        BY <1>0, <4>1 DEF FrontFirst
    <3> QED
      BY <1>2, <3>1, <3>2, <3>3 DEF FrontSteps
  <2> QED
    BY <1>1, <2>1
\* From then on a pump reads where the front left its peer.
<1>3. CASE Dial
  <2>1. pc = "front" /\ kind = "none"
    BY <1>0, <1>3 DEF Dial, FrontFirst
  <2>2. pump[e] = "read" /\ read[e] = 0 /\ got[Sink[e]] = <<>> /\ withheld = {}
    BY <2>1, PumpsWait
  <2>3. /\ UNCHANGED <<pump, hand, got, withheld, pos, gone>>
        /\ read' = [read EXCEPT !["c2s"] = pos]
    BY <1>3 DEF Dial
  <2>4. read'[e] = Base(e) /\ Base(e)' = Base(e) /\ Base(e) \in Nat
    BY <1>0, <2>2, <2>3 DEF Base, TunnelTypeOK, TypeOK
  <2>5. ~ Busy(e)' /\ Settled(e)' = Base(e)
    BY <2>2, <2>3, <2>4 DEF Busy, Settled
  <2>6. (got[Sink[e]])' = <<>> /\ Withheld(e)' = {} /\ ToSet(<<>>) = {}
    BY <2>2, <2>3 DEF Sink, Withheld, BytesOf, ToSet
  <2>7. Delivered(e)' = {}
    BY <2>6 DEF Delivered, BytesOf
  <2>8. Ledger(e)'
    BY <2>4, <2>5, <2>6, <2>7 DEF Ledger
  <2>9. InOrder(e)'
    BY <2>6 DEF InOrder
  <2>10. read'[e] >= Base(e)'
    BY <2>4
  <2> QED
    BY <2>5, <2>8, <2>9, <2>10 DEF Carried, HandSound
<1>4. ASSUME UNCHANGED <<kind, pos, read, got, withheld, hand>>,
             \A d \in Pumps : Busy(d)' <=> Busy(d), gone \subseteq gone'
      PROVE  Carried(e)'
  <2>1. UNCHANGED <<read[e], got[Sink[e]]>> /\ Withheld(e)' = Withheld(e)
    BY <1>4 DEF Sink, Withheld
  <2>2. Busy(e) => hand'[e] \in Chunk /\ hand'[e].first = hand[e].first
                   /\ hand'[e].last = hand[e].last
    BY <1>4, HeldIsChunk
  <2> QED
    BY <1>0, <1>4, <2>1, <2>2, CarriedKept
<1>5. ASSUME NEW p \in Peers, Peer(p) PROVE Carried(e)'
  <2>1. UNCHANGED <<kind, pos, read, got, withheld, hand, pump>> /\ gone \subseteq gone'
    BY <1>5 DEF Peer, SendBytes, HangUp
  <2> QED
    BY <1>4, <2>1 DEF Busy
<1>6. CASE Later(Detect) \/ Later(Return) \/ UNCHANGED vars
  <2>1. UNCHANGED <<kind, pos, read, got, withheld, hand, pump, gone>>
    BY <1>6 DEF Later, Detect, Return, vars
  <2> QED
    BY <1>4, <2>1 DEF Busy
<1>7. ASSUME NEW d \in Pumps, Later(ReadFails(d)) PROVE Carried(e)'
  <2>1. /\ UNCHANGED <<kind, pos, read, got, withheld, hand, gone>>
        /\ pump[d] = "read" /\ pump' = [pump EXCEPT ![d] = "done"]
    BY <1>7 DEF Later, ReadFails
  <2>2. \A x \in Pumps : Busy(x)' <=> Busy(x)
    BY <1>0, <2>1 DEF Busy, TunnelTypeOK
  <2> QED
    BY <1>4, <2>1, <2>2
\* A pump's own step, seen from the other one.
<1>8. ASSUME NEW d \in Pumps, d # e, Later(ReadAny(d) \/ Answer(d) \/ Write(d))
      PROVE  Carried(e)'
  <2>1. UNCHANGED <<kind, pos, gone>> /\ pump'[e] = pump[e] /\ hand'[e] = hand[e] /\ read'[e] = read[e]
    BY <1>0, <1>8 DEF Later, ReadAny, Read, Answer, Forward, Drop, Write, TunnelTypeOK
  <2>2. got'[Sink[e]] = got[Sink[e]]
    <3>1. Sink[d] \in Peers /\ Sink[e] \in Peers /\ Sink[d] # Sink[e]
      BY <1>8, Ends
    <3> QED
      BY <1>0, <1>8, <3>1
         DEF Later, ReadAny, Read, Answer, Forward, Drop, Write, TunnelTypeOK
  <2>3. Withheld(e)' = Withheld(e)
    <3>1. CASE e = "c2s"
      <4>1. pump[d] # "held"
        BY <1>0, <1>8, <3>1 DEF PumpSound
      <4> QED
        BY <1>8, <4>1 DEF Later, ReadAny, Read, Answer, Forward, Drop, Write, Withheld
    <3>2. CASE e = "s2c"
      BY <3>2 DEF Withheld
    <3> QED
      BY <1>0, <3>1, <3>2
  <2>4. Busy(e)' <=> Busy(e)
    BY <2>1 DEF Busy
  <2>5. Busy(e) => hand'[e] \in Chunk /\ hand'[e].first = hand[e].first
                   /\ hand'[e].last = hand[e].last
    BY <2>1, HeldIsChunk
  <2>6. UNCHANGED <<pos, read[e], got[Sink[e]]>>
    BY <2>1, <2>2 DEF Sink
  <2> QED
    BY <1>0, <2>1, <2>3, <2>4, <2>5, <2>6, CarriedKept
<1>9. CASE Later(ReadAny(e))
  BY <1>9, CarriedRead DEF Later, ReadAny
<1>10. CASE Later(Drop(e))
  BY <1>10, CarriedDrop
<1>11. CASE Later(Write(e))
  BY <1>11, CarriedWrite
<1>12. ASSUME NEW text \in {"original", "edited"}, Later(Forward(e, text)) PROVE Carried(e)'
  <2>1. Busy(e) /\ hand[e] \in Chunk
    BY <1>12, HeldIsChunk DEF Later, Forward, Busy
  <2>2. /\ UNCHANGED <<kind, pos, gone, read, got, withheld>>
        /\ hand'[e] = [hand[e] EXCEPT !.text = text] /\ pump'[e] = "write"
    BY <1>0, <1>12 DEF Later, Forward, TunnelTypeOK
  <2>3. hand'[e] \in Chunk /\ hand'[e].first = hand[e].first /\ hand'[e].last = hand[e].last
    BY <2>1, <2>2 DEF Chunk
  <2>4. Busy(e)' /\ Withheld(e)' = Withheld(e)
    BY <2>2 DEF Busy, Withheld
  <2>5. UNCHANGED <<pos, read[e], got[Sink[e]]>>
    BY <2>2 DEF Sink
  <2> QED
    BY <1>0, <2>1, <2>2, <2>3, <2>4, <2>5, CarriedKept
<1>13. ASSUME NEW d \in Pumps, Later(ReadAny(d)) \/ Later(Answer(d)) \/ Later(Write(d))
       PROVE  Carried(e)'
  <2>1. CASE d # e
    BY <1>8, <1>13, <2>1 DEF Later
  <2>2. CASE d = e
    BY <1>9, <1>10, <1>11, <1>12, <1>13, <2>2 DEF Later, Answer
  <2> QED
    BY <2>1, <2>2
<1> QED
  BY <1>2, <1>3, <1>5, <1>6, <1>7, <1>13 DEF Next

LEMMA ProxyInit == Init => PInv
<1> SUFFICES ASSUME Init PROVE PInv
  OBVIOUS
<1> USE DEF Init, TunnelInit
<1>1. ClientOK
  <2>1. entry \in {"connect", "plain", "transparent"}
    OBVIOUS
  <2>2. /\ entry = "connect" => hello = 2
        /\ entry = "plain" => hello = 0
        /\ hello \in {0, 2, HelloLimit + 1}
    OBVIOUS
  <2>3. sni \in BOOLEAN
    OBVIOUS
  <2>4. scope \subseteq {"target", "sni"}
    OBVIOUS
  <2> QED
    BY <2>1, <2>2, <2>3, <2>4 DEF ClientOK
<1>2. TunnelTypeOK /\ TypeOK
  <2>1. <<>> \in Seq(Chunk)
    BY EmptySeq
  <2> QED
    <3>1. got \in [Peers -> Seq(Chunk)] /\ recorded \in [Pumps -> Seq(Chunk)]
      BY <2>1
    <3>2. /\ pump \in [Pumps -> {"read", "held", "write", "done"}]
          /\ sent \in [Peers -> 0 .. MaxBytes] /\ read \in [Pumps -> 0 .. MaxBytes]
          /\ hand \in [Pumps -> Chunk \cup {NoChunk}]
      OBVIOUS
    <3>3. /\ kind = "none" /\ pc = "front" /\ own = 0 /\ withheld = {}
          /\ status = "active" /\ gone = {}
          /\ stage = "head" /\ host = "target" /\ pos = 0 /\ probed = 0
          /\ deadline = FALSE /\ decrypted = FALSE
      OBVIOUS
    <3> HIDE DEF Init, TunnelInit
    <3>4. TunnelTypeOK
      BY <3>1, <3>2, <3>3 DEF TunnelTypeOK
    <3>5. TypeOK
      <4>1. 0 \in 0 .. MaxBytes /\ 0 \in 0 .. HelloLimit
        OBVIOUS
      <4>2. deadline \in BOOLEAN /\ decrypted \in BOOLEAN
        BY <3>3
      <4> QED
        BY <3>3, <4>1, <4>2 DEF TypeOK
    <3> QED
      BY <3>4, <3>5
<1>3. FrontFirst /\ FrontSound /\ PumpSound
  <2>1. \A d \in Pumps : pump[d] = "read" /\ read[d] = 0 /\ got[Sink[d]] = <<>>
    BY Ends
  <2>2. FrontFirst
    BY <2>1 DEF FrontFirst
  <2>3. FrontSound
    BY DEF FrontSound
  <2>4. PumpSound
    BY <2>1 DEF PumpSound, Pumps
  <2> QED
    BY <2>2, <2>3, <2>4
<1>4. HeadAlone
  BY <1>1, HeadBounds DEF HeadAlone, Peers
<1>5. \A d \in Pumps : Carried(d)
  BY DEF Carried
<1> QED
  BY <1>1, <1>2, <1>3, <1>4, <1>5 DEF PInv

-----------------------------------------------------------------------------
(* The theorems.                                                           *)

\* The inductive invariant: what the front knows and took at each of its stages,
\* and for each direction a ledger of the bytes that were delivered or withheld, up
\* to the chunk in the pump's hand.
THEOREM PInvariance == Spec => []PInv
<1>1. PInv /\ [Next]_vars => PInv'
  BY ProxyTypeStep, FrontStep, HeadStep, PumpStep, CarriedStep DEF PInv
<1> QED
  BY ProxyInit, <1>1, PTL DEF Spec

\* TLS is terminated only for a name in scope, and one in scope is never tunneled
\* blind, however the connection came in and whatever the ClientHello's length.
THEOREM ScopeDecides == Spec => []DecryptedInScope
<1>1. PInv => DecryptedInScope
  BY DEF PInv, FrontSound, DecryptedInScope
<1> QED
  BY PInvariance, <1>1, PTL

\* The ledger and the property, with nothing in it that the front ate.
LEMMA AccountMeans == PInv /\ PeekedIsKept => TransferIsWhole
<1> SUFFICES ASSUME PInv, PeekedIsKept PROVE TransferIsWhole
  OBVIOUS
<1>0. TunnelTypeOK /\ TypeOK /\ pos = own
  BY DEF PInv, PeekedIsKept
<1>1. ReturnsWhenOver
  BY Ends DEF PInv, PumpSound, AllDone, ReturnsWhenOver, Peers, Pumps, TunnelTypeOK
<1>2. kind # "none" => read["c2s"] >= own
  BY <1>0 DEF PInv, Carried, Base, Pumps
<1>3. ASSUME NEW d \in Pumps, kind = "none"
      PROVE  got[Sink[d]] = <<>> /\ Withheld(d) = {} /\ InHand(d) = {} /\ read[d] = 0
  BY <1>3, PumpsWait DEF Withheld, InHand, BytesOf
<1>4. ASSUME NEW d \in Pumps, kind # "none", Sink[d] \notin gone
      PROVE  Delivered(d) = (Base(d) + 1 .. read[d]) \ (Withheld(d) \cup InHand(d))
  <2>1. Ledger(d) /\ Base(d) \in Nat /\ read[d] \in Nat /\ Base(d) <= read[d]
    BY <1>0, <1>4 DEF PInv, Carried, Base, TunnelTypeOK, TypeOK
  <2>2. Delivered(d) \cup Withheld(d) = Base(d) + 1 .. Settled(d) /\ Delivered(d) \cap Withheld(d) = {}
    BY <1>4, <2>1 DEF Ledger
  <2>3. CASE Busy(d)
    <3>1. InHand(d) = hand[d].first .. read[d] /\ Settled(d) = hand[d].first - 1
          /\ hand[d].first \in Nat /\ Base(d) < hand[d].first
      BY <2>3, InHandFacts DEF InHand, Busy, Bytes
    <3>2. /\ InHand(d) \cap (Base(d) + 1 .. Settled(d)) = {}
          /\ Base(d) + 1 .. read[d] = (Base(d) + 1 .. Settled(d)) \cup InHand(d)
      <4>1. hand[d].first <= read[d]
        BY <2>3, InHandFacts
      <4> QED
        BY <2>1, <3>1, <4>1
    <3> QED
      BY <2>2, <3>2
  <2>4. CASE ~ Busy(d)
    <3>1. InHand(d) = {} /\ Settled(d) = read[d]
      BY <2>4 DEF InHand, Busy, Settled
    <3> QED
      BY <2>2, <3>1
  <2> QED
    BY <2>3, <2>4
<1>5. ASSUME NEW d \in Pumps
      PROVE  /\ Sink[d] \notin gone =>
                   Delivered(d) = ((IF d = "c2s" THEN own + 1 ELSE 1) .. read[d])
                                     \ (Withheld(d) \cup InHand(d))
             /\ Delivered(d) \cap Withheld(d) = {}
             /\ \A i, j \in DOMAIN got[Sink[d]] :
                   i < j => got[Sink[d]][i].last < got[Sink[d]][j].first
  <2>1. CASE kind # "none"
    <3>1. Base(d) + 1 = IF d = "c2s" THEN own + 1 ELSE 1
      BY <1>0 DEF Base
    <3> QED
      BY <1>4, <2>1, <3>1 DEF PInv, Carried, Ledger, InOrder
  <2>2. CASE kind = "none"
    <3>1. Delivered(d) = {} /\ DOMAIN got[Sink[d]] = {}
      BY <1>3, <2>2 DEF Delivered, BytesOf, ToSet
    <3>2. ((IF d = "c2s" THEN own + 1 ELSE 1) .. read[d]) = {}
      BY <1>0, <1>3, <2>2 DEF TunnelTypeOK
    <3> QED
      BY <1>3, <2>2, <3>1, <3>2
  <2> QED
    BY <2>1, <2>2
<1>6. BytesAccounted
  <2>1. TunnelTypeOK
    BY <1>0
  <2>2. ASSUME NEW d \in Pumps
        PROVE  LET there == got[Sink[d]]
                   first == IF d = "c2s" THEN own + 1 ELSE 1
               IN  /\ Sink[d] \notin gone =>
                         BytesOf(ToSet(there)) = (first .. read[d]) \ (Withheld(d) \cup InHand(d))
                   /\ BytesOf(ToSet(there)) \cap Withheld(d) = {}
                   /\ \A i, j \in DOMAIN there : i < j => there[i].last < there[j].first
    BY <1>5 DEF Delivered
  <2>3. kind # "none" => read["c2s"] >= own
    BY <1>2
  <2> QED
    BY <2>1, <2>2, <2>3 DEF BytesAccounted
<1> QED
  BY <1>1, <1>6 DEF TransferIsWhole

\* Bytes are lost nowhere but in the buffer of the reader that parsed a CONNECT: of
\* every connection for which that took no more than the head, each byte that was
\* read is delivered once and in order, or was withheld by the operator.
THEOREM LostOnlyAtConnect == Spec => [](PeekedIsKept => TransferIsWhole)
<1>1. PInv => (PeekedIsKept => TransferIsWhole)
  BY AccountMeans
<1> QED
  BY PInvariance, <1>1, PTL

\* So a connection is carried whole whenever the client waits for the answer to its
\* CONNECT, as HTTP says it should.
THEOREM CarriedWhole ==
    ASSUME ~ EarlyData
    PROVE  Spec => []TransferIsWhole
<1>1. PInv => PeekedIsKept
  BY DEF PInv, HeadAlone, PeekedIsKept
<1>2. PInv => TransferIsWhole
  BY <1>1, AccountMeans
<1> QED
  BY PInvariance, <1>2, PTL

-----------------------------------------------------------------------------
(* The policy (Scope): what the flags mean, for every list of rules and    *)
(* every target.                                                           *)

\* Some rule decides whenever one matches.
LEMMA OneDecides ==
    ASSUME NEW set, NEW n \in Nat, DOMAIN set.rules = 1 .. n,
           NEW t, Matching(set, t) # {}
    PROVE  \E i \in Matching(set, t) : Decides(set, t, i)
<1> DEFINE M == Matching(set, t)
           Below == {n - i : i \in M}
<1>1. M # {} /\ M \subseteq Nat /\ \A i \in M : i <= n
  BY DEF Matching
<1>2. CASE set.lastWins
  <2>1. Below \subseteq Nat /\ Below # {}
    BY <1>1
  <2>2. PICK d \in Below : \A e \in Below : ~ (<<e, d>> \in OpToRel(<, Nat))
    BY <2>1, NatLessThanWellFounded, WFMin
  <2>3. PICK i \in M : d = n - i
    OBVIOUS
  <2>4. \A j \in M : ~ (n - j < d)
    BY <2>1, <2>2 DEF OpToRel
  <2>5. \A j \in M : j <= i
    BY <1>1, <2>3, <2>4
  <2> QED
    BY <1>2, <2>5 DEF Decides
<1>3. CASE ~ set.lastWins
  <2>1. PICK i \in M : \A j \in M : ~ (<<j, i>> \in OpToRel(<, Nat))
    BY <1>1, NatLessThanWellFounded, WFMin
  <2>2. \A j \in M : ~ (j < i)
    BY <1>1, <2>1 DEF OpToRel
  <2>3. \A j \in M : i <= j
    BY <1>1, <2>2
  <2> QED
    BY <1>3, <2>3 DEF Decides
<1> QED
  BY <1>2, <1>3

\* The set built from the flags has the excludes first, each list in order.
LEMMA Built ==
    ASSUME NEW includes \in Seq(Conditions), NEW excludes \in Seq(Conditions),
           NEW lastWins \in BOOLEAN, NEW t, NEW set,
           set = BuildScope(includes, excludes, lastWins)
    PROVE  /\ Len(excludes) \in Nat /\ Len(includes) \in Nat
           /\ DOMAIN excludes = 1 .. Len(excludes) /\ DOMAIN includes = 1 .. Len(includes)
           /\ DOMAIN set.rules = 1 .. Len(excludes) + Len(includes)
           /\ set.lastWins = lastWins
           /\ set.default = IF includes = <<>> THEN "include" ELSE "exclude"
           /\ \A i \in DOMAIN set.rules :
                 set.rules[i].action = IF i <= Len(excludes) THEN "exclude" ELSE "include"
           /\ \A i \in 1 .. Len(excludes) :
                 i \in Matching(set, t) <=> Satisfies(t, excludes[i])
           /\ \A i \in 1 .. Len(includes) :
                 Len(excludes) + i \in Matching(set, t) <=> Satisfies(t, includes[i])
<1>1. /\ Len(excludes) \in Nat /\ Len(includes) \in Nat
      /\ DOMAIN excludes = 1 .. Len(excludes) /\ DOMAIN includes = 1 .. Len(includes)
  OBVIOUS
<1>2. set = [rules |-> [i \in 1 .. Len(excludes) + Len(includes) |->
                          IF i <= Len(excludes) THEN Rule1("exclude", excludes[i])
                          ELSE Rule1("include", includes[i - Len(excludes)])],
             default |-> IF includes = <<>> THEN "include" ELSE "exclude",
             lastWins |-> lastWins]
  BY DEF BuildScope, Build
<1>3. \A a, c : Match(Rule1(a, c), t) <=> Satisfies(t, c)
  BY DEF Match, Rule1
<1>4. \A i \in 1 .. Len(excludes) :
        /\ i \in DOMAIN set.rules
        /\ set.rules[i] = Rule1("exclude", excludes[i])
  BY <1>1, <1>2
<1>5. \A i \in 1 .. Len(includes) :
        /\ Len(excludes) + i \in DOMAIN set.rules
        /\ set.rules[Len(excludes) + i] = Rule1("include", includes[i])
  BY <1>1, <1>2
<1>6. \A i \in 1 .. Len(excludes) : i \in Matching(set, t) <=> Satisfies(t, excludes[i])
  BY <1>3, <1>4 DEF Matching
<1>7. \A i \in 1 .. Len(includes) :
        Len(excludes) + i \in Matching(set, t) <=> Satisfies(t, includes[i])
  BY <1>3, <1>5 DEF Matching
<1>8. \A i \in DOMAIN set.rules :
        set.rules[i].action = IF i <= Len(excludes) THEN "exclude" ELSE "include"
  BY <1>1, <1>2 DEF Rule1
<1> QED
  BY <1>1, <1>2, <1>6, <1>7, <1>8

\* Which lists a target in scope matches, under either order of evaluation.
LEMMA InScopeMeans ==
    ASSUME NEW includes \in Seq(Conditions), NEW excludes \in Seq(Conditions),
           NEW lastWins \in BOOLEAN, NEW t
    PROVE  InScope(BuildScope(includes, excludes, lastWins), t)
             <=> IF lastWins
                 THEN \/ Some(includes, t)
                      \/ includes = <<>> /\ ~ Some(excludes, t)
                 ELSE /\ ~ Some(excludes, t)
                      /\ includes = <<>> \/ Some(includes, t)
<1> DEFINE set == BuildScope(includes, excludes, lastWins)
           n == Len(excludes)
           M == Matching(set, t)
<1> HIDE DEF set
<1>1. /\ n \in Nat /\ Len(includes) \in Nat
      /\ DOMAIN excludes = 1 .. n /\ DOMAIN includes = 1 .. Len(includes)
      /\ DOMAIN set.rules = 1 .. n + Len(includes)
      /\ set.lastWins = lastWins
      /\ set.default = IF includes = <<>> THEN "include" ELSE "exclude"
      /\ \A i \in DOMAIN set.rules :
            set.rules[i].action = IF i <= n THEN "exclude" ELSE "include"
      /\ \A i \in 1 .. n : i \in M <=> Satisfies(t, excludes[i])
      /\ \A i \in 1 .. Len(includes) : n + i \in M <=> Satisfies(t, includes[i])
  BY Built DEF set
<1>2. M \subseteq 1 .. n + Len(includes)
  BY <1>1 DEF Matching
<1>3. Some(excludes, t) <=> \E i \in M : i <= n
  BY <1>1, <1>2 DEF Some
<1>4. Some(includes, t) <=> \E i \in M : i > n
  <2>1. \A i \in M : i > n => i - n \in 1 .. Len(includes) /\ n + (i - n) = i
    BY <1>1, <1>2
  <2> QED
    BY <1>1, <2>1 DEF Some
<1>5. CASE M = {}
  <2>1. InScope(set, t) <=> includes = <<>>
    BY <1>1, <1>5 DEF InScope, Eval
  <2>2. Some(includes, t) => includes # <<>>
    BY DEF Some
  <2> QED
    BY <1>3, <1>4, <1>5, <2>1, <2>2 DEF set
<1>6. CASE M # {}
  <2> DEFINE d == CHOOSE i \in M : Decides(set, t, i)
  <2>1. d \in M /\ Decides(set, t, d)
    <3>1. n + Len(includes) \in Nat
      BY <1>1
    <3>2. \E i \in M : Decides(set, t, i)
      BY <1>1, <1>6, <3>1, OneDecides
    <3> QED
      BY <3>2
  <2>2. InScope(set, t) <=> d > n
    <3>1. Eval(set, t) = set.rules[d].action
      BY <1>6 DEF Eval
    <3> HIDE DEF d
    <3> QED
      BY <1>1, <1>2, <2>1, <3>1 DEF InScope
  <2> HIDE DEF d
  <2>3. \A j \in M : IF lastWins THEN j <= d ELSE d <= j
    BY <1>1, <2>1 DEF Decides
  <2>4. CASE lastWins
    <3>1. d > n <=> Some(includes, t)
      BY <1>1, <1>2, <1>4, <2>1, <2>3, <2>4
    <3>2. ~ Some(includes, t) => Some(excludes, t)
      BY <1>1, <1>2, <1>3, <1>4, <1>6
    <3> QED
      BY <2>2, <2>4, <3>1, <3>2 DEF set
  <2>5. CASE ~ lastWins
    <3>1. d > n <=> ~ Some(excludes, t)
      BY <1>1, <1>2, <1>3, <2>1, <2>3, <2>5
    <3>2. ~ Some(excludes, t) => Some(includes, t)
      BY <1>1, <1>2, <1>3, <1>4, <1>6
    <3> QED
      BY <2>2, <2>5, <3>1, <3>2 DEF set
  <2> QED
    BY <2>4, <2>5
<1> QED
  BY <1>5, <1>6

\* What the flags mean by default: in scope is what no -exclude matches and,
\* if there is any -scope, one of them does (buildScope: "they win over
\* overlapping includes").
THEOREM ExcludesWin ==
    ASSUME NEW includes \in Seq(Conditions), NEW excludes \in Seq(Conditions), NEW t
    PROVE  InScope(BuildScope(includes, excludes, FALSE), t)
             <=> /\ ~ Some(excludes, t)
                 /\ includes = <<>> \/ Some(includes, t)
BY InScopeMeans

\* What they mean with -last-match: the includes, which come last, win.  The
\* comment of run, "Excludes always win over includes", and the help of
\* -exclude, "wins over -scope", do not hold then.
THEOREM LastMatchIncludesWin ==
    ASSUME NEW includes \in Seq(Conditions), NEW excludes \in Seq(Conditions), NEW t
    PROVE  InScope(BuildScope(includes, excludes, TRUE), t)
             <=> \/ Some(includes, t)
                 \/ includes = <<>> /\ ~ Some(excludes, t)
BY InScopeMeans

==============================================================================
