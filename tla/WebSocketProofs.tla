---------------------------- MODULE WebSocketProofs ----------------------------
(***************************************************************************)
(* Proofs about WebSocket, for any number of frames of either peer and of  *)
(* injected ones, and any kinds of frames.                                 *)
(***************************************************************************)
EXTENDS WebSocket, SequenceTheorems, TLAPS

USE WebSocketAssumption DEF WebSocketAssumption, flowVars, connVars, writerVars, historyVars

-----------------------------------------------------------------------------
(* The inductive invariant.                                                *)

\* A peer's mutex is held by the one writer that is at work on its connection.
LockHeld ==
    \A p \in Peers, w \in Writers :
        lock[p] = w <=> pc[w] \in {"first", "second"} /\ to[w] = p

\* A writer at work has a frame of its own in hand; a pump's is the last it read.
FrameInHand ==
    /\ \A w \in Writers : pc[w] \in Writing \cup {"held"} => frame[w] \in Frame /\ frame[w].by = w
    /\ \A d \in Pumps :
          /\ to[d] = Sink[d]
          /\ InHand(d) => frame[d].n = read[d] /\ read[d] > 0

FirstHalf(w) == [frame |-> frame[w], half |-> 1]

\* The two halves of a frame follow each other.
WholeAt(s, i) ==
    /\ s[i].half = 1 /\ i < Len(s) => s[i + 1] = [s[i] EXCEPT !.half = 2]
    /\ s[i].half = 2 => i > 1 /\ s[i - 1] = [s[i] EXCEPT !.half = 1]

Whole(s) == \A i \in 1 .. Len(s) : WholeAt(s, i)

\* A half frame at the end of a wire is being completed, or nothing follows it.
WiresWhole ==
    /\ \A p \in Peers : Whole(wire[p])
    /\ \A w \in Writers : pc[w] = "second" =>
          Len(wire[to[w]]) > 0 /\ wire[to[w]][Len(wire[to[w]])] = FirstHalf(w)
    /\ \A p \in Peers :
          Len(wire[p]) > 0 /\ wire[p][Len(wire[p])].half = 1 =>
              p \in broken \/ \E w \in Writers : pc[w] = "second" /\ to[w] = p

\* The frames of pump d of which it is known what became of them.
Settled(d) == IF InHand(d) THEN read[d] - 1 ELSE read[d]

\* Of the first k frames of pump d, the ones on the wire s are there in the order
\* it read them, the ones in out are not, and there are no others but perhaps, if
\* not all are accounted for, the last.
Ledger(s, d, out, k, all) ==
    /\ \A i \in 1 .. Len(s) : Completes(s[i], d) => s[i].frame.n \in (1 .. k) \ out
    /\ \A i, j \in 1 .. Len(s) : i < j /\ Completes(s[i], d) /\ Completes(s[j], d) =>
          s[i].frame.n < s[j].frame.n
    /\ out \subseteq 1 .. k
    /\ \A n \in (1 .. k) \ out : all \/ n < k =>
          \E i \in 1 .. Len(s) : Completes(s[i], d) /\ s[i].frame.n = n

\* The frames of a pump are on the wire in the order it read them, but those the
\* operator dropped, all of them while the pump runs, and all but perhaps the last
\* it read when it stopped.
SentInOrder(d) == Ledger(wire[Sink[d]], d, Out(d), Settled(d), pc[d] # "done")

WSInv ==
    /\ TypeOK /\ LockHeld /\ FrameInHand /\ WiresWhole /\ ReturnsFinished
    /\ \A d \in Pumps : SentInOrder(d)

-----------------------------------------------------------------------------
(* Facts about the operators of the model.                                 *)

LEMMA Sets ==
    /\ Pumps \subseteq Writers /\ "inject" \in Writers /\ "inject" \notin Pumps
    /\ \A w \in Writers : w = "inject" \/ w \in Pumps
    /\ \A d \in Pumps : Sink[d] \in Peers
    /\ \A d, e \in Pumps : Sink[d] = Sink[e] => d = e
    /\ "none" \notin Writers /\ "none" \notin Peers
BY DEF Pumps, Writers, Peers, Sink

LEMMA Appended ==
    ASSUME NEW S, NEW s \in Seq(S), NEW e \in S
    PROVE  /\ Append(s, e) \in Seq(S) /\ Len(s) \in Nat /\ Len(Append(s, e)) = Len(s) + 1
           /\ \A i \in 1 .. Len(s) : Append(s, e)[i] = s[i] /\ s[i] \in S
           /\ Append(s, e)[Len(s) + 1] = e
<1>1. \A i \in 1 .. Len(s) : s[i] \in S
  BY ElementOfSeq
<1> QED
  BY <1>1, AppendProperties, LenProperties

LEMMA OneMore ==
    ASSUME NEW n \in Nat, NEW i \in 1 .. n + 1
    PROVE  i \in 1 .. n \/ i = n + 1
OBVIOUS

\* A half more on the wire to p, and on no other.
LEMMA PutMeans ==
    ASSUME TypeOK, NEW w \in Writers, frame[w] \in Frame, NEW half \in {1, 2}, Put(w, half)
    PROVE  LET h == [frame |-> frame[w], half |-> half]
           IN  /\ h \in Half
               /\ wire' \in [Peers -> Seq(Half)]
               /\ wire'[to[w]] = Append(wire[to[w]], h)
               /\ \A p \in Peers : p # to[w] => wire'[p] = wire[p]
               /\ ~ closed /\ to[w] \notin broken
<1> DEFINE h == [frame |-> frame[w], half |-> half]
<1>1. h \in Half
  BY DEF Half
<1> HIDE DEF h
<1>2. to[w] \in Peers /\ wire \in [Peers -> Seq(Half)]
  BY DEF TypeOK
<1>3. Append(wire[to[w]], h) \in Seq(Half)
  BY <1>1, <1>2, Appended
<1>4. wire' = [wire EXCEPT ![to[w]] = Append(wire[to[w]], h)] /\ ~ closed /\ to[w] \notin broken
  BY DEF Put, h
<1>5. wire' \in [Peers -> Seq(Half)]
  BY <1>2, <1>3, <1>4
<1> QED
  BY <1>1, <1>2, <1>4, <1>5 DEF h

-----------------------------------------------------------------------------
(* Types.                                                                  *)

LEMMA WSTypeStep ==
    ASSUME WSInv, [Next]_vars
    PROVE  TypeOK'
<1>0. TypeOK /\ FrameInHand
  BY DEF WSInv
<1> USE Sets DEF TypeOK
<1>1. ASSUME NEW d \in Pumps, NEW kind \in Kinds, NEW held \in BOOLEAN, Read(d, kind, held)
      PROVE  TypeOK'
  <2> DEFINE fr == [by |-> d, n |-> read[d] + 1, kind |-> kind, text |-> "original"]
  <2>1. fr \in Frame
    BY <1>0 DEF Frame
  <2> HIDE DEF fr
  <2>2. frame' = [frame EXCEPT ![d] = fr] /\ messages' \in {messages, Append(messages, fr)}
    BY <1>1 DEF Read, fr
  <2>3. Append(messages, fr) \in Seq(Frame)
    <3>1. messages \in Seq(Frame)
      BY <1>0
    <3> QED
      BY <2>1, <3>1, Appended
  <2>4. messages' \in Seq(Frame)
    BY <1>0, <2>2, <2>3
  <2>5. frame' \in [Writers -> Frame \cup {NoFrame}] /\ read' \in [Writers -> Nat]
    BY <1>0, <1>1, <2>1, <2>2 DEF Read
  <2>6. fragmented' \in [Pumps -> BOOLEAN]
    <3>1. PICK b : fragmented' = [fragmented EXCEPT ![d] = b] /\ b \in BOOLEAN
      <4>1. CASE kind \in DataKinds
        BY <1>1, <4>1 DEF Read
      <4>2. CASE kind \notin DataKinds
        BY <1>0, <1>1, <4>2 DEF Read
      <4> QED
        BY <4>1, <4>2
    <3> QED
      BY <1>0, <3>1
  <2>7. DOMAIN pc' = Writers /\ pc'["inject"] = pc["inject"]
        /\ \A e \in Pumps : pc'[e] \in Writing \cup {"read", "held", "done"}
    BY <1>0, <1>1 DEF Read, Writing
  <2>8. status' \in {"active", "pending", "complete"}
    BY <1>0, <1>1 DEF Read
  <2>9. UNCHANGED <<phase, registered, connVars, to, lock, wire, broken, dropped>>
    BY <1>1 DEF Read
  <2> QED
    BY <1>0, <2>4, <2>5, <2>6, <2>7, <2>8, <2>9
<1>2. ASSUME NEW d \in Pumps, NEW text \in {"original", "edited"}, Forward(d, text) PROVE TypeOK'
  <2>1. frame[d] \in Frame
    BY <1>0, <1>2 DEF Forward, FrameInHand
  <2>2. [frame[d] EXCEPT !.text = text] \in Frame
    BY <2>1 DEF Frame
  <2>3. frame' \in [Writers -> Frame \cup {NoFrame}]
    BY <1>0, <1>2, <2>2 DEF Forward
  <2>4. DOMAIN pc' = Writers /\ pc'["inject"] = pc["inject"]
        /\ \A e \in Pumps : pc'[e] \in Writing \cup {"read", "held", "done"}
    BY <1>0, <1>2 DEF Forward, Writing
  <2> QED
    BY <1>0, <1>2, <2>3, <2>4 DEF Forward
<1>3. ASSUME NEW d \in Pumps, Drop(d) PROVE TypeOK'
  <2>1. frame[d] \in Frame
    BY <1>0, <1>3 DEF Drop, FrameInHand
  <2>2. DOMAIN pc' = Writers /\ pc'["inject"] = pc["inject"]
        /\ \A e \in Pumps : pc'[e] \in Writing \cup {"read", "held", "done"}
    BY <1>0, <1>3 DEF Drop, Writing
  <2> QED
    BY <1>0, <1>3, <2>1, <2>2 DEF Drop
<1>4. ASSUME NEW d \in Pumps, ReadFails(d) PROVE TypeOK'
  BY <1>0, <1>4 DEF ReadFails
<1>5. ASSUME NEW w \in Writers, Lock(w) PROVE TypeOK'
  <2>1. lock' \in [Peers -> Writers \cup {"none"}]
    BY <1>0, <1>5 DEF Lock
  <2>2. DOMAIN pc' = Writers /\ pc'["inject"] \in Writing \cup {"idle"}
        /\ \A e \in Pumps : pc'[e] \in Writing \cup {"read", "held", "done"}
    BY <1>0, <1>5 DEF Lock, Writing
  <2> QED
    BY <1>0, <1>5, <2>1, <2>2 DEF Lock
<1>6. ASSUME NEW w \in Writers, WriteFirst(w) PROVE TypeOK'
  <2>1. frame[w] \in Frame
    BY <1>0, <1>6 DEF WriteFirst, FrameInHand, Writing
  <2>2. wire' \in [Peers -> Seq(Half)]
    BY <1>0, <1>6, <2>1, PutMeans DEF WriteFirst
  <2>3. DOMAIN pc' = Writers /\ pc'["inject"] \in Writing \cup {"idle"}
        /\ \A e \in Pumps : pc'[e] \in Writing \cup {"read", "held", "done"}
    BY <1>0, <1>6 DEF WriteFirst, Writing
  <2> QED
    BY <1>0, <1>6, <2>2, <2>3 DEF WriteFirst
<1>7. ASSUME NEW w \in Writers, NEW failed \in BOOLEAN, EndWrite(w, failed)
      PROVE  /\ lock' \in [Peers -> Writers \cup {"none"}]
             /\ DOMAIN pc' = Writers /\ pc'["inject"] \in Writing \cup {"idle"}
             /\ \A e \in Pumps : pc'[e] \in Writing \cup {"read", "held", "done"}
  <2>1. lock' \in [Peers -> Writers \cup {"none"}]
    BY <1>0, <1>7 DEF EndWrite, Unlock
  <2>2. pc' = [pc EXCEPT ![w] = After(w, failed)]
    BY <1>7 DEF EndWrite
  <2>3. IF w = "inject" THEN After(w, failed) = "idle" ELSE After(w, failed) \in {"done", "read"}
    BY DEF After
  <2> QED
    BY <1>0, <2>1, <2>2, <2>3
<1>8. ASSUME NEW w \in Writers, WriteSecond(w) PROVE TypeOK'
  <2>1. frame[w] \in Frame
    BY <1>0, <1>8 DEF WriteSecond, FrameInHand, Writing
  <2>2. wire' \in [Peers -> Seq(Half)]
    BY <1>0, <1>8, <2>1, PutMeans DEF WriteSecond
  <2>3. UNCHANGED <<phase, flowVars, connVars, frame, to, broken, historyVars>> /\ EndWrite(w, FALSE)
    BY <1>8 DEF WriteSecond
  <2> QED
    BY <1>0, <1>7, <2>2, <2>3
<1>9. ASSUME NEW w \in Writers, WriteFails(w) PROVE TypeOK'
  <2>1. /\ UNCHANGED <<phase, flowVars, connVars, frame, to, wire, historyVars>> /\ EndWrite(w, TRUE)
        /\ broken' = broken \cup {to[w]}
    BY <1>9 DEF WriteFails
  <2>2. broken' \subseteq Peers
    BY <1>0, <2>1
  <2> QED
    BY <1>0, <1>7, <2>1, <2>2
<1>10. ASSUME NEW p \in Peers, Inject(p) PROVE TypeOK'
  <2>1. [by |-> "inject", n |-> read["inject"] + 1, kind |-> "whole", text |-> "original"] \in Frame
    BY <1>0 DEF Frame, AllKinds, DataKinds
  <2>2. /\ frame' \in [Writers -> Frame \cup {NoFrame}] /\ read' \in [Writers -> Nat]
        /\ to' \in [Writers -> Peers]
    BY <1>0, <1>10, <2>1 DEF Inject
  <2>3. DOMAIN pc' = Writers /\ pc'["inject"] \in Writing \cup {"idle"}
        /\ \A e \in Pumps : pc'[e] \in Writing \cup {"read", "held", "done"}
    BY <1>0, <1>10 DEF Inject, Writing
  <2> QED
    BY <1>0, <1>10, <2>2, <2>3 DEF Inject
<1>11. ASSUME NEW p \in Peers, HangUp(p) PROVE TypeOK'
  BY <1>0, <1>11 DEF HangUp
<1>12. CASE Close
  BY <1>0, <1>12 DEF Close
<1>13. CASE Return
  BY <1>0, <1>13 DEF Return
<1>14. CASE UNCHANGED vars
  BY <1>0, <1>14 DEF vars
<1> QED
  BY <1>1, <1>2, <1>3, <1>4, <1>5, <1>6, <1>8, <1>9, <1>10, <1>11, <1>12, <1>13, <1>14
     DEF Next, Answer, Write

-----------------------------------------------------------------------------
(* The mutexes and the frames in hand.                                     *)

\* What the end of a write does to its writer and to the mutex.
LEMMA EndMeans ==
    ASSUME TypeOK, NEW w \in Writers, NEW failed \in BOOLEAN, EndWrite(w, failed)
    PROVE  /\ lock'[to[w]] = "none"
           /\ \A p \in Peers : p # to[w] => lock'[p] = lock[p]
           /\ pc'[w] \in {"idle", "read", "done"}
           /\ w # "inject" => pc'[w] = IF failed \/ frame[w].kind = "close" THEN "done" ELSE "read"
           /\ \A v \in Writers : v # w => pc'[v] = pc[v]
<1>1. lock \in [Peers -> Writers \cup {"none"}] /\ to[w] \in Peers /\ DOMAIN pc = Writers
  BY DEF TypeOK
<1>2. lock' = [lock EXCEPT ![to[w]] = "none"] /\ pc' = [pc EXCEPT ![w] = After(w, failed)]
  BY DEF EndWrite, Unlock
<1>3. /\ After(w, failed) \in {"idle", "read", "done"}
      /\ w # "inject" =>
            After(w, failed) = IF failed \/ frame[w].kind = "close" THEN "done" ELSE "read"
  BY DEF After
<1> QED
  BY <1>1, <1>2, <1>3

LEMMA LockStep ==
    ASSUME WSInv, [Next]_vars
    PROVE  LockHeld'
<1>0. TypeOK /\ LockHeld
  BY DEF WSInv
<1>1. DOMAIN pc = Writers /\ to \in [Writers -> Peers] /\ lock \in [Peers -> Writers \cup {"none"}]
  BY <1>0 DEF TypeOK
\* A step that leaves the mutexes and the writers at work alone.
<1>2. ASSUME UNCHANGED lock,
             \A w \in Writers :
                \/ pc'[w] = pc[w] /\ to'[w] = to[w]
                \/ ~ pc[w] \in {"first", "second"} /\ ~ pc'[w] \in {"first", "second"}
                \/ pc[w] = "first" /\ pc'[w] = "second" /\ to'[w] = to[w]
      PROVE  LockHeld'
  <2> SUFFICES ASSUME NEW p \in Peers, NEW w \in Writers
               PROVE  lock'[p] = w <=> pc'[w] \in {"first", "second"} /\ to'[w] = p
    BY DEF LockHeld
  <2>1. lock[p] = w <=> pc[w] \in {"first", "second"} /\ to[w] = p
    BY <1>0 DEF LockHeld
  <2> QED
    BY <1>2, <2>1
<1>3. ASSUME NEW w \in Writers, NEW failed \in BOOLEAN, EndWrite(w, failed), UNCHANGED to,
             pc[w] \in {"first", "second"}
      PROVE  LockHeld'
  <2> SUFFICES ASSUME NEW p \in Peers, NEW v \in Writers
               PROVE  lock'[p] = v <=> pc'[v] \in {"first", "second"} /\ to'[v] = p
    BY DEF LockHeld
  <2>1. lock[p] = v <=> pc[v] \in {"first", "second"} /\ to[v] = p
    BY <1>0 DEF LockHeld
  <2>2. lock[to[w]] = w
    BY <1>0, <1>1, <1>3 DEF LockHeld
  <2>3. /\ lock'[to[w]] = "none" /\ (p # to[w] => lock'[p] = lock[p])
        /\ pc'[w] \in {"idle", "read", "done"} /\ (v # w => pc'[v] = pc[v])
    BY <1>0, <1>3, EndMeans
  <2> QED
    BY <1>3, <2>1, <2>2, <2>3, Sets
<1>4. ASSUME NEW d \in Pumps,
             \/ \E kind \in Kinds, held \in BOOLEAN : Read(d, kind, held)
             \/ \E text \in {"original", "edited"} : Forward(d, text)
             \/ Drop(d) \/ ReadFails(d)
      PROVE  LockHeld'
  <2>1. PICK at : pc' = [pc EXCEPT ![d] = at] /\ at \in {"held", "lock", "read", "done"}
    BY <1>4 DEF Read, Forward, Drop, ReadFails
  <2>2. pc[d] \in {"held", "read"} /\ UNCHANGED <<lock, to>>
    BY <1>4 DEF Read, Forward, Drop, ReadFails
  <2> QED
    BY <1>1, <1>2, <2>1, <2>2
<1>5. ASSUME NEW w \in Writers, Lock(w) PROVE LockHeld'
  <2> SUFFICES ASSUME NEW p \in Peers, NEW v \in Writers
               PROVE  lock'[p] = v <=> pc'[v] \in {"first", "second"} /\ to'[v] = p
    BY DEF LockHeld
  <2>1. lock[p] = v <=> pc[v] \in {"first", "second"} /\ to[v] = p
    BY <1>0 DEF LockHeld
  <2>2. /\ pc[w] = "lock" /\ lock[to[w]] = "none" /\ to' = to
        /\ lock' = [lock EXCEPT ![to[w]] = w] /\ pc' = [pc EXCEPT ![w] = "first"]
    BY <1>5 DEF Lock
  <2> QED
    BY <1>1, <2>1, <2>2, Sets
<1>6. ASSUME NEW w \in Writers, WriteFirst(w) PROVE LockHeld'
  BY <1>1, <1>2, <1>6 DEF WriteFirst
<1>7. ASSUME NEW w \in Writers, WriteSecond(w) PROVE LockHeld'
  BY <1>3, <1>7 DEF WriteSecond
<1>8. ASSUME NEW w \in Writers, WriteFails(w) PROVE LockHeld'
  BY <1>3, <1>8 DEF WriteFails
<1>9. ASSUME NEW p \in Peers, Inject(p) PROVE LockHeld'
  BY <1>1, <1>2, <1>9, Sets DEF Inject
<1>10. ASSUME NEW p \in Peers, HangUp(p) PROVE LockHeld'
  BY <1>2, <1>10 DEF HangUp
<1>11. CASE Close \/ Return \/ UNCHANGED vars
  BY <1>2, <1>11 DEF Close, Return, vars
<1> QED
  BY <1>4, <1>5, <1>6, <1>7, <1>8, <1>9, <1>10, <1>11 DEF Next, Answer, Write

LEMMA HandStep ==
    ASSUME WSInv, [Next]_vars
    PROVE  FrameInHand'
<1>0. TypeOK /\ FrameInHand
  BY DEF WSInv
<1>1. /\ DOMAIN pc = Writers /\ to \in [Writers -> Peers] /\ frame \in [Writers -> Frame \cup {NoFrame}]
      /\ read \in [Writers -> Nat]
  BY <1>0 DEF TypeOK
\* A step that gives no writer a frame.
<1>2. ASSUME UNCHANGED <<frame, to, read>>,
             \A w \in Writers : pc'[w] \in Writing \cup {"held"} => pc[w] \in Writing \cup {"held"}
      PROVE  FrameInHand'
  BY <1>0, <1>2, Sets DEF FrameInHand, InHand
<1>3. ASSUME NEW d \in Pumps, NEW kind \in Kinds, NEW held \in BOOLEAN, Read(d, kind, held)
      PROVE  FrameInHand'
  <2> DEFINE fr == [by |-> d, n |-> read[d] + 1, kind |-> kind, text |-> "original"]
  <2>1. fr \in Frame /\ fr.by = d /\ fr.n = read[d] + 1
    BY <1>1, Sets DEF Frame
  <2>2. frame' = [frame EXCEPT ![d] = fr]
    BY <1>3 DEF Read
  <2> HIDE DEF fr
  <2>3. /\ pc' = [pc EXCEPT ![d] = IF held THEN "held" ELSE "lock"]
        /\ read' = [read EXCEPT ![d] = read[d] + 1] /\ to' = to
    BY <1>3 DEF Read
  <2>4. read[d] \in Nat /\ read'[d] = read[d] + 1 /\ frame'[d] = fr
        /\ \A w \in Writers : w # d => frame'[w] = frame[w] /\ read'[w] = read[w] /\ pc'[w] = pc[w]
    BY <1>1, <2>2, <2>3, Sets
  <2> QED
    BY <1>0, <2>1, <2>3, <2>4, Sets DEF FrameInHand, InHand
<1>4. ASSUME NEW d \in Pumps, NEW text \in {"original", "edited"}, Forward(d, text)
      PROVE  FrameInHand'
  <2>1. /\ pc[d] = "held" /\ pc' = [pc EXCEPT ![d] = "lock"]
        /\ frame' = [frame EXCEPT ![d] = [frame[d] EXCEPT !.text = text]] /\ UNCHANGED <<to, read>>
    BY <1>4 DEF Forward
  <2>2. frame[d] \in Frame /\ frame[d].by = d /\ frame[d].n = read[d] /\ read[d] > 0
    BY <1>0, <2>1, Sets DEF FrameInHand, InHand
  <2>3. [frame[d] EXCEPT !.text = text] \in Frame
        /\ [frame[d] EXCEPT !.text = text].by = d /\ [frame[d] EXCEPT !.text = text].n = read[d]
    BY <2>2 DEF Frame
  <2>4. frame'[d] = [frame[d] EXCEPT !.text = text]
        /\ \A w \in Writers : w # d => frame'[w] = frame[w] /\ pc'[w] = pc[w]
    BY <1>1, <2>1, Sets
  <2> QED
    BY <1>0, <2>1, <2>2, <2>3, <2>4, Sets DEF FrameInHand, InHand
<1>5. ASSUME NEW d \in Pumps, Drop(d) \/ ReadFails(d) PROVE FrameInHand'
  BY <1>1, <1>2, <1>5 DEF Drop, ReadFails, Writing
<1>6. ASSUME NEW w \in Writers, Lock(w) \/ WriteFirst(w) PROVE FrameInHand'
  <2>1. pc[w] \in Writing /\ UNCHANGED <<frame, to, read>> /\ \E at : pc' = [pc EXCEPT ![w] = at]
    BY <1>6 DEF Lock, WriteFirst, Writing, historyVars
  <2> QED
    BY <1>1, <1>2, <2>1
<1>7. ASSUME NEW w \in Writers, WriteSecond(w) \/ WriteFails(w) PROVE FrameInHand'
  <2>1. pc[w] \in Writing /\ UNCHANGED <<frame, to, read>> /\ \E at : pc' = [pc EXCEPT ![w] = at]
    BY <1>7 DEF WriteSecond, WriteFails, EndWrite, Writing, historyVars
  <2> QED
    BY <1>1, <1>2, <2>1
<1>8. ASSUME NEW p \in Peers, Inject(p) PROVE FrameInHand'
  <2> DEFINE fr == [by |-> "inject", n |-> read["inject"] + 1, kind |-> "whole", text |-> "original"]
  <2>1. fr \in Frame /\ fr.by = "inject"
    BY <1>1, Sets DEF Frame, AllKinds, DataKinds
  <2> HIDE DEF fr
  <2>2. /\ frame' = [frame EXCEPT !["inject"] = fr] /\ pc' = [pc EXCEPT !["inject"] = "lock"]
        /\ read' = [read EXCEPT !["inject"] = @ + 1] /\ to' = [to EXCEPT !["inject"] = p]
    BY <1>8 DEF Inject, fr
  <2>3. frame'["inject"] = fr
        /\ \A w \in Writers : w # "inject" =>
              frame'[w] = frame[w] /\ pc'[w] = pc[w] /\ read'[w] = read[w] /\ to'[w] = to[w]
    BY <1>1, <2>2, Sets
  <2> QED
    BY <1>0, <2>1, <2>3, Sets DEF FrameInHand, InHand
<1>9. ASSUME NEW p \in Peers, HangUp(p) PROVE FrameInHand'
  BY <1>2, <1>9 DEF HangUp
<1>10. CASE Close \/ Return \/ UNCHANGED vars
  BY <1>2, <1>10 DEF Close, Return, vars
<1> QED
  BY <1>3, <1>4, <1>5, <1>6, <1>7, <1>8, <1>9, <1>10 DEF Next, Answer, Write

-----------------------------------------------------------------------------
(* The wires.                                                              *)

\* The first half of a frame may follow a whole frame, its second half must
\* follow its first.
LEMMA WholeFirst ==
    ASSUME NEW s \in Seq(Half), Whole(s), NEW h \in Half, h.half = 1,
           Len(s) > 0 => s[Len(s)].half # 1
    PROVE  Whole(Append(s, h))
<1> DEFINE t == Append(s, h)
<1>1. /\ Len(s) \in Nat /\ Len(t) = Len(s) + 1 /\ t[Len(s) + 1] = h
      /\ \A i \in 1 .. Len(s) : t[i] = s[i]
  BY Appended
<1> HIDE DEF t
<1>2. ASSUME NEW i \in 1 .. Len(t) PROVE WholeAt(t, i)
  <2>1. CASE i \in 1 .. Len(s)
    <3>1. /\ s[i].half = 1 /\ i < Len(s) => s[i + 1] = [s[i] EXCEPT !.half = 2]
          /\ s[i].half = 2 => i > 1 /\ s[i - 1] = [s[i] EXCEPT !.half = 1]
      BY <2>1 DEF Whole, WholeAt
    <3>2. t[i] = s[i] /\ (i < Len(s) => t[i + 1] = s[i + 1]) /\ (i > 1 => t[i - 1] = s[i - 1])
      BY <1>1, <2>1
    <3>3. t[i].half = 1 => i # Len(s)
      BY <2>1, <3>2
    <3> QED
      BY <1>1, <2>1, <3>1, <3>2, <3>3 DEF WholeAt
  <2>2. CASE i = Len(s) + 1
    BY <1>1, <2>2 DEF WholeAt
  <2>3. i \in 1 .. Len(s) \/ i = Len(s) + 1
    BY <1>1, OneMore
  <2> QED
    BY <2>1, <2>2, <2>3
<1> QED
  BY <1>2 DEF Whole, t

LEMMA WholeSecond ==
    ASSUME NEW s \in Seq(Half), Whole(s), NEW f \in Frame,
           Len(s) > 0, s[Len(s)] = [frame |-> f, half |-> 1]
    PROVE  Whole(Append(s, [frame |-> f, half |-> 2]))
<1> DEFINE h == [frame |-> f, half |-> 2]
           t == Append(s, h)
<1>1. h \in Half /\ h.half = 2 /\ h = [s[Len(s)] EXCEPT !.half = 2]
      /\ s[Len(s)] = [h EXCEPT !.half = 1] /\ s[Len(s)].half = 1
  BY DEF Half
<1> HIDE DEF h
<1>2. /\ Len(s) \in Nat /\ Len(t) = Len(s) + 1 /\ t[Len(s) + 1] = h
      /\ \A i \in 1 .. Len(s) : t[i] = s[i]
  BY <1>1, Appended
<1> HIDE DEF t
<1>3. ASSUME NEW i \in 1 .. Len(t) PROVE WholeAt(t, i)
  <2>1. CASE i \in 1 .. Len(s) /\ i # Len(s)
    <3>1. /\ s[i].half = 1 /\ i < Len(s) => s[i + 1] = [s[i] EXCEPT !.half = 2]
          /\ s[i].half = 2 => i > 1 /\ s[i - 1] = [s[i] EXCEPT !.half = 1]
      BY <2>1 DEF Whole, WholeAt
    <3>2. t[i] = s[i] /\ i < Len(s) /\ t[i + 1] = s[i + 1] /\ (i > 1 => t[i - 1] = s[i - 1])
      BY <1>2, <2>1
    <3> QED
      BY <3>1, <3>2 DEF WholeAt
  <2>2. CASE i = Len(s)
    <3>1. t[i] = [frame |-> f, half |-> 1] /\ t[i + 1] = h
      BY <1>2, <2>2
    <3>2. t[i + 1] = [t[i] EXCEPT !.half = 2] /\ t[i].half # 2
      BY <3>1 DEF h
    <3> QED
      BY <3>2 DEF WholeAt
  <2>3. CASE i = Len(s) + 1
    <3>1. t[i] = h /\ i > 1 /\ t[i - 1] = s[Len(s)]
      BY <1>2, <2>3
    <3>2. ~ (t[i].half = 1 /\ i < Len(t))
      BY <1>1, <3>1
    <3>3. t[i - 1] = [t[i] EXCEPT !.half = 1]
      BY <1>1, <3>1
    <3> QED
      BY <3>1, <3>2, <3>3 DEF WholeAt
  <2>4. i \in 1 .. Len(s) \/ i = Len(s) + 1
    BY <1>2, OneMore
  <2> QED
    BY <2>1, <2>2, <2>3, <2>4
<1> QED
  BY <1>3 DEF Whole, t, h

\* At most one writer is at work on a connection.
LEMMA OneWriter ==
    ASSUME TypeOK, LockHeld, NEW w \in Writers, NEW v \in Writers, to[w] = to[v],
           pc[w] \in {"first", "second"}, pc[v] \in {"first", "second"}
    PROVE  v = w
<1>1. to[w] \in Peers
  BY DEF TypeOK
<1> QED
  BY <1>1 DEF LockHeld

LEMMA WireStep ==
    ASSUME WSInv, [Next]_vars
    PROVE  WiresWhole'
<1>0. TypeOK /\ LockHeld /\ FrameInHand /\ WiresWhole
  BY DEF WSInv
<1>1. /\ DOMAIN pc = Writers /\ to \in [Writers -> Peers] /\ wire \in [Peers -> Seq(Half)]
      /\ frame \in [Writers -> Frame \cup {NoFrame}]
  BY <1>0 DEF TypeOK
\* A step that writes nothing.
<1>2. ASSUME UNCHANGED wire, broken \subseteq broken',
             \A w \in Writers :
                /\ pc'[w] = "second" => pc[w] = "second" /\ frame'[w] = frame[w] /\ to'[w] = to[w]
                /\ pc[w] = "second" => (pc'[w] = "second" /\ to'[w] = to[w]) \/ to[w] \in broken'
      PROVE  WiresWhole'
  <2>1. \A p \in Peers : Whole(wire'[p])
    BY <1>0, <1>2 DEF WiresWhole
  <2>2. \A w \in Writers : pc'[w] = "second" =>
           Len(wire'[to'[w]]) > 0 /\ wire'[to'[w]][Len(wire'[to'[w]])] = FirstHalf(w)'
    BY <1>0, <1>2 DEF WiresWhole, FirstHalf
  <2>3. ASSUME NEW p \in Peers, Len(wire'[p]) > 0, wire'[p][Len(wire'[p])].half = 1
        PROVE  p \in broken' \/ \E w \in Writers : pc'[w] = "second" /\ to'[w] = p
    <3>1. p \in broken \/ \E w \in Writers : pc[w] = "second" /\ to[w] = p
      BY <1>0, <1>2, <2>3 DEF WiresWhole
    <3> QED
      BY <1>2, <3>1
  <2> QED
    BY <2>1, <2>2, <2>3 DEF WiresWhole
<1>3. ASSUME NEW d \in Pumps,
             \/ \E kind \in Kinds, held \in BOOLEAN : Read(d, kind, held)
             \/ \E text \in {"original", "edited"} : Forward(d, text)
             \/ Drop(d) \/ ReadFails(d)
      PROVE  WiresWhole'
  <2>1. PICK at : pc' = [pc EXCEPT ![d] = at] /\ at \in {"held", "lock", "read", "done"}
    BY <1>3 DEF Read, Forward, Drop, ReadFails
  <2>2. PICK fr : frame' = [frame EXCEPT ![d] = fr]
    <3>1. CASE \E kind \in Kinds, held \in BOOLEAN : Read(d, kind, held)
      BY <3>1 DEF Read
    <3>2. CASE \E text \in {"original", "edited"} : Forward(d, text)
      BY <3>2 DEF Forward
    <3>3. CASE Drop(d) \/ ReadFails(d)
      <4>1. frame' = frame
        BY <3>3 DEF Drop, ReadFails
      <4>2. frame = [frame EXCEPT ![d] = frame[d]]
        BY <1>1, Sets
      <4> QED
        BY <4>1, <4>2
    <3> QED
      BY <1>3, <3>1, <3>2, <3>3
  <2>3. pc[d] \in {"held", "read"} /\ UNCHANGED <<wire, to, broken>>
    BY <1>3 DEF Read, Forward, Drop, ReadFails
  <2>4. \A w \in Writers : IF w = d THEN pc[w] # "second" /\ pc'[w] # "second"
                           ELSE pc'[w] = pc[w] /\ frame'[w] = frame[w]
    BY <1>1, <2>1, <2>2, <2>3
  <2> QED
    BY <1>2, <2>3, <2>4
<1>4. ASSUME NEW w \in Writers, Lock(w) PROVE WiresWhole'
  BY <1>1, <1>2, <1>4 DEF Lock
<1>5. ASSUME NEW w \in Writers, WriteFirst(w) PROVE WiresWhole'
  <2> DEFINE p == to[w]
             h == FirstHalf(w)
  <2>1. p \in Peers /\ pc[w] = "first" /\ frame[w] \in Frame
    BY <1>0, <1>1, <1>5 DEF WriteFirst, FrameInHand, Writing
  <2>2. /\ h \in Half /\ wire'[p] = Append(wire[p], h) /\ p \notin broken
        /\ \A q \in Peers : q # p => wire'[q] = wire[q]
    BY <1>0, <1>5, <2>1, PutMeans DEF WriteFirst, FirstHalf
  <2>3. \A v \in Writers : pc[v] = "second" => to[v] # p
    BY <1>0, <2>1, OneWriter
  <2>4. UNCHANGED <<to, frame, broken>> /\ pc' = [pc EXCEPT ![w] = "second"]
    BY <1>5 DEF WriteFirst
  <2>5. Len(wire[p]) > 0 => wire[p][Len(wire[p])].half # 1
    BY <1>0, <2>1, <2>2, <2>3 DEF WiresWhole
  <2>6. Whole(wire[p]) /\ wire[p] \in Seq(Half) /\ h.half = 1
    BY <1>0, <1>1, <2>1 DEF WiresWhole, FirstHalf
  <2>7. h' = h
    BY <2>4 DEF FirstHalf
  <2> HIDE DEF p, h
  <2>8. /\ Whole(wire'[p]) /\ Len(wire'[p]) > 0 /\ wire'[p][Len(wire'[p])] = h
    BY <2>2, <2>5, <2>6, WholeFirst, Appended
  <2>9. \A q \in Peers : Whole(wire'[q])
    BY <1>0, <2>2, <2>8 DEF WiresWhole
  <2>10. ASSUME NEW v \in Writers, pc'[v] = "second"
         PROVE  Len(wire'[to'[v]]) > 0 /\ wire'[to'[v]][Len(wire'[to'[v]])] = FirstHalf(v)'
    <3>1. CASE v = w
      BY <2>4, <2>7, <2>8, <3>1 DEF h, p
    <3>2. CASE v # w
      <4>1. pc[v] = "second" /\ to[v] \in Peers /\ to[v] # p /\ FirstHalf(v)' = FirstHalf(v)
        BY <1>1, <2>3, <2>4, <2>10, <3>2 DEF FirstHalf
      <4> QED
        BY <1>0, <2>2, <2>4, <4>1 DEF WiresWhole
    <3> QED
      BY <3>1, <3>2
  <2>11. ASSUME NEW q \in Peers, Len(wire'[q]) > 0, wire'[q][Len(wire'[q])].half = 1
         PROVE  q \in broken' \/ \E v \in Writers : pc'[v] = "second" /\ to'[v] = q
    <3>1. CASE q = p
      BY <1>1, <2>4, <3>1 DEF p
    <3>2. CASE q # p
      <4>1. q \in broken \/ \E v \in Writers : pc[v] = "second" /\ to[v] = q
        BY <1>0, <2>2, <2>11, <3>2 DEF WiresWhole
      <4> QED
        BY <1>1, <2>4, <4>1
    <3> QED
      BY <3>1, <3>2
  <2> QED
    BY <2>9, <2>10, <2>11 DEF WiresWhole
<1>6. ASSUME NEW w \in Writers, WriteSecond(w) PROVE WiresWhole'
  <2> DEFINE p == to[w]
             h == [frame |-> frame[w], half |-> 2]
  <2>1. p \in Peers /\ pc[w] = "second" /\ frame[w] \in Frame
    BY <1>0, <1>1, <1>6 DEF WriteSecond, FrameInHand, Writing
  <2>2. /\ h \in Half /\ wire'[p] = Append(wire[p], h)
        /\ \A q \in Peers : q # p => wire'[q] = wire[q]
    BY <1>0, <1>6, <2>1, PutMeans DEF WriteSecond
  <2>3. \A v \in Writers : v # w /\ pc[v] = "second" => to[v] # p
    BY <1>0, <2>1, OneWriter
  <2>4. /\ UNCHANGED <<to, frame, broken>>
        /\ pc'[w] # "second" /\ \A v \in Writers : v # w => pc'[v] = pc[v]
    <3>1. UNCHANGED <<to, frame, broken>> /\ EndWrite(w, FALSE)
      BY <1>6 DEF WriteSecond
    <3>2. pc'[w] \in {"idle", "read", "done"} /\ \A v \in Writers : v # w => pc'[v] = pc[v]
      BY <1>0, <3>1, EndMeans
    <3> QED
      BY <3>1, <3>2
  <2>5. /\ Whole(wire[p]) /\ wire[p] \in Seq(Half)
        /\ Len(wire[p]) > 0 /\ wire[p][Len(wire[p])] = [frame |-> frame[w], half |-> 1]
    BY <1>0, <1>1, <2>1 DEF WiresWhole, FirstHalf
  <2>6. Whole(wire'[p]) /\ h.half = 2
    BY <2>1, <2>2, <2>5, WholeSecond
  <2> HIDE DEF p, h
  <2>7. wire'[p][Len(wire'[p])].half = 2
    BY <2>2, <2>5, <2>6, Appended
  <2>8. \A q \in Peers : Whole(wire'[q])
    BY <1>0, <2>2, <2>6 DEF WiresWhole
  <2>9. ASSUME NEW v \in Writers, pc'[v] = "second"
        PROVE  Len(wire'[to'[v]]) > 0 /\ wire'[to'[v]][Len(wire'[to'[v]])] = FirstHalf(v)'
    <3>1. pc[v] = "second" /\ to[v] \in Peers /\ to[v] # p /\ FirstHalf(v)' = FirstHalf(v)
      BY <1>1, <2>3, <2>4, <2>9 DEF FirstHalf
    <3> QED
      BY <1>0, <2>2, <2>4, <3>1 DEF WiresWhole
  <2>10. ASSUME NEW q \in Peers, Len(wire'[q]) > 0, wire'[q][Len(wire'[q])].half = 1
         PROVE  q \in broken' \/ \E v \in Writers : pc'[v] = "second" /\ to'[v] = q
    <3>1. q # p
      BY <2>7, <2>10
    <3>2. q \in broken \/ \E v \in Writers : pc[v] = "second" /\ to[v] = q
      BY <1>0, <2>2, <2>10, <3>1 DEF WiresWhole
    <3> QED
      BY <2>4, <3>1, <3>2 DEF p
  <2> QED
    BY <2>8, <2>9, <2>10 DEF WiresWhole
<1>7. ASSUME NEW w \in Writers, WriteFails(w) PROVE WiresWhole'
  <2>1. UNCHANGED <<to, frame, wire>> /\ broken' = broken \cup {to[w]} /\ EndWrite(w, TRUE)
    BY <1>7 DEF WriteFails
  <2>2. pc'[w] # "second" /\ \A v \in Writers : v # w => pc'[v] = pc[v]
    <3>1. pc'[w] \in {"idle", "read", "done"} /\ \A v \in Writers : v # w => pc'[v] = pc[v]
      BY <1>0, <2>1, EndMeans
    <3> QED
      BY <3>1
  <2> QED
    BY <1>2, <2>1, <2>2
<1>8. ASSUME NEW p \in Peers, Inject(p) PROVE WiresWhole'
  <2>1. PICK fr : frame' = [frame EXCEPT !["inject"] = fr]
    BY <1>8 DEF Inject
  <2>2. /\ pc["inject"] = "idle" /\ pc' = [pc EXCEPT !["inject"] = "lock"]
        /\ to' = [to EXCEPT !["inject"] = p] /\ UNCHANGED <<wire, broken>>
    BY <1>8 DEF Inject
  <2>3. \A w \in Writers : IF w = "inject" THEN pc[w] # "second" /\ pc'[w] # "second"
                           ELSE pc'[w] = pc[w] /\ frame'[w] = frame[w] /\ to'[w] = to[w]
    BY <1>1, <2>1, <2>2
  <2> QED
    BY <1>2, <2>2, <2>3
<1>9. ASSUME NEW p \in Peers, HangUp(p) PROVE WiresWhole'
  BY <1>2, <1>9 DEF HangUp
<1>10. CASE Close \/ Return \/ UNCHANGED vars
  BY <1>2, <1>10 DEF Close, Return, vars
<1> QED
  BY <1>3, <1>4, <1>5, <1>6, <1>7, <1>8, <1>9, <1>10 DEF Next, Answer, Write

-----------------------------------------------------------------------------
(* The order of delivery.                                                  *)

\* A half that completes no frame of the pump changes nothing.
LEMMA LedgerOther ==
    ASSUME NEW s \in Seq(Half), NEW h \in Half, NEW d, NEW out, NEW k, NEW all,
           Ledger(s, d, out, k, all), ~ Completes(h, d)
    PROVE  Ledger(Append(s, h), d, out, k, all)
<1> DEFINE t == Append(s, h)
<1>1. /\ Len(s) \in Nat /\ Len(t) = Len(s) + 1 /\ t[Len(s) + 1] = h
      /\ \A i \in 1 .. Len(s) : t[i] = s[i]
  BY Appended
<1> HIDE DEF t
<1>2. \A i \in 1 .. Len(t) : Completes(t[i], d) => i \in 1 .. Len(s)
  BY <1>1, OneMore
<1>3. \A i \in 1 .. Len(s) : i \in 1 .. Len(t)
  BY <1>1
<1>4. \A i \in 1 .. Len(t) : Completes(t[i], d) => t[i].frame.n \in (1 .. k) \ out
  BY <1>1, <1>2 DEF Ledger
<1>5. ASSUME NEW i \in 1 .. Len(t), NEW j \in 1 .. Len(t), i < j, Completes(t[i], d), Completes(t[j], d)
      PROVE  t[i].frame.n < t[j].frame.n
  <2>1. i \in 1 .. Len(s) /\ j \in 1 .. Len(s) /\ t[i] = s[i] /\ t[j] = s[j]
    BY <1>1, <1>2, <1>5
  <2> QED
    BY <1>5, <2>1 DEF Ledger
<1>6. ASSUME NEW n \in (1 .. k) \ out, all \/ n < k
      PROVE  \E i \in 1 .. Len(t) : Completes(t[i], d) /\ t[i].frame.n = n
  <2>1. PICK i \in 1 .. Len(s) : Completes(s[i], d) /\ s[i].frame.n = n
    BY <1>6 DEF Ledger
  <2> QED
    BY <1>1, <1>3, <2>1
<1>7. out \subseteq 1 .. k
  BY DEF Ledger
<1> QED
  BY <1>4, <1>5, <1>6, <1>7 DEF Ledger, t

\* The next frame is sent.
LEMMA LedgerSent ==
    ASSUME NEW s \in Seq(Half), NEW h \in Half, NEW d, NEW out, NEW k \in Nat,
           Ledger(s, d, out, k, TRUE), Completes(h, d), h.frame.n = k + 1
    PROVE  Ledger(Append(s, h), d, out, k + 1, TRUE)
<1> DEFINE t == Append(s, h)
<1>1. /\ Len(s) \in Nat /\ Len(t) = Len(s) + 1 /\ t[Len(s) + 1] = h
      /\ \A i \in 1 .. Len(s) : t[i] = s[i]
  BY Appended
<1> HIDE DEF t
<1>2. out \subseteq 1 .. k + 1 /\ k + 1 \notin out /\ \A n \in 1 .. k : n \in 1 .. k + 1
  BY DEF Ledger
<1>3. \A i \in 1 .. Len(s) : Completes(t[i], d) => t[i].frame.n \in (1 .. k) \ out
  BY <1>1 DEF Ledger
<1>4. \A i \in 1 .. Len(t) : i \in 1 .. Len(s) \/ i = Len(s) + 1
  BY <1>1, OneMore
<1>5. t[Len(s) + 1].frame.n = k + 1 /\ k + 1 \in 1 .. k + 1
  BY <1>1
<1>6. \A i \in 1 .. Len(t) : Completes(t[i], d) => t[i].frame.n \in (1 .. k + 1) \ out
  BY <1>2, <1>3, <1>4, <1>5
<1>7. ASSUME NEW i \in 1 .. Len(t), NEW j \in 1 .. Len(t), i < j, Completes(t[i], d), Completes(t[j], d)
      PROVE  t[i].frame.n < t[j].frame.n
  <2>1. i \in 1 .. Len(s) /\ t[i] = s[i]
    BY <1>1, <1>7
  <2>2. CASE j \in 1 .. Len(s)
    <3>1. t[j] = s[j]
      BY <1>1, <2>2
    <3> QED
      BY <1>7, <2>1, <2>2, <3>1 DEF Ledger
  <2>3. CASE j = Len(s) + 1
    <3>1. t[i].frame.n \in 1 .. k
      BY <1>3, <1>7, <2>1
    <3> QED
      BY <1>5, <2>3, <3>1
  <2> QED
    BY <1>4, <2>2, <2>3
<1>8. ASSUME NEW n \in (1 .. k + 1) \ out
      PROVE  \E i \in 1 .. Len(t) : Completes(t[i], d) /\ t[i].frame.n = n
  <2>1. CASE n = k + 1
    BY <1>1, <1>5, <2>1
  <2>2. CASE n \in 1 .. k
    <3>1. PICK i \in 1 .. Len(s) : Completes(s[i], d) /\ s[i].frame.n = n
      BY <1>8, <2>2 DEF Ledger
    <3> QED
      BY <1>1, <3>1
  <2> QED
    BY <2>1, <2>2, OneMore
<1> QED
  BY <1>2, <1>6, <1>7, <1>8 DEF Ledger, t

\* The next frame is dropped.
LEMMA LedgerDropped ==
    ASSUME NEW s, NEW d, NEW out, NEW k \in Nat, Ledger(s, d, out, k, TRUE)
    PROVE  Ledger(s, d, out \cup {k + 1}, k + 1, TRUE)
<1>1. \A n \in 1 .. k : n \in 1 .. k + 1 /\ n # k + 1
  OBVIOUS
<1>2. k + 1 \in 1 .. k + 1 /\ \A n \in 1 .. k + 1 : n \in 1 .. k \/ n = k + 1
  BY OneMore
<1>3. out \cup {k + 1} \subseteq 1 .. k + 1
  BY <1>1, <1>2 DEF Ledger
<1>4. (1 .. k + 1) \ (out \cup {k + 1}) = (1 .. k) \ out
  BY <1>1, <1>2
<1> QED
  BY <1>3, <1>4 DEF Ledger

\* The next frame is lost, or none is, and no other follows.
LEMMA LedgerLost ==
    ASSUME NEW s, NEW d, NEW out, NEW k \in Nat, NEW l \in {k, k + 1},
           Ledger(s, d, out, k, TRUE)
    PROVE  Ledger(s, d, out, l, FALSE)
<1>1. \A n \in 1 .. k : n \in 1 .. l
  OBVIOUS
<1>2. \A n \in 1 .. l : n < l => n \in 1 .. k
  OBVIOUS
<1> QED
  BY <1>1, <1>2 DEF Ledger

LEMMA SentStep ==
    ASSUME WSInv, [Next]_vars, NEW d \in Pumps
    PROVE  SentInOrder(d)'
<1>0. TypeOK /\ LockHeld /\ FrameInHand /\ SentInOrder(d)
  BY DEF WSInv
<1>1. /\ DOMAIN pc = Writers /\ to \in [Writers -> Peers] /\ wire \in [Peers -> Seq(Half)]
      /\ frame \in [Writers -> Frame \cup {NoFrame}] /\ read \in [Writers -> Nat]
      /\ dropped \subseteq Frame
  BY <1>0 DEF TypeOK
<1>2. d \in Writers /\ Sink[d] \in Peers /\ Sink[d]' = Sink[d] /\ to[d] = Sink[d]
      /\ wire[Sink[d]] \in Seq(Half) /\ read[d] \in Nat
  BY <1>0, <1>1, Sets DEF FrameInHand, Sink
<1>3. Settled(d) \in Nat
  BY <1>0, <1>2 DEF Settled, FrameInHand
<1>4. Ledger(wire[Sink[d]], d, Out(d), Settled(d), pc[d] # "done")
  BY <1>0 DEF SentInOrder
<1>4a. pc[d] # "done" => Ledger(wire[Sink[d]], d, Out(d), Settled(d), TRUE)
  <2>1. pc[d] # "done" => (pc[d] # "done") = TRUE
    OBVIOUS
  <2> QED
    BY <1>4, <2>1
\* A step that does not concern the pump.
<1>5. ASSUME UNCHANGED <<wire, dropped>>,
             \/ pc'[d] = pc[d] /\ read'[d] = read[d]
             \/ pc[d] # "done" /\ pc'[d] # "done" /\ Settled(d)' = Settled(d)
      PROVE  SentInOrder(d)'
  <2>1. Out(d)' = Out(d) /\ Settled(d)' = Settled(d) /\ (pc'[d] # "done") = (pc[d] # "done")
    BY <1>5 DEF Out, Settled, InHand
  <2> QED
    BY <1>2, <1>4, <1>5, <2>1 DEF SentInOrder
<1>6. ASSUME NEW e \in Pumps, NEW kind \in Kinds, NEW held \in BOOLEAN, Read(e, kind, held)
      PROVE  SentInOrder(d)'
  <2>1. /\ pc[e] = "read" /\ pc' = [pc EXCEPT ![e] = IF held THEN "held" ELSE "lock"]
        /\ read' = [read EXCEPT ![e] = read[e] + 1] /\ UNCHANGED <<wire, dropped>>
    BY <1>6 DEF Read
  <2>2. CASE e = d
    <3>1. pc'[d] \in {"held", "lock"} /\ pc[d] = "read" /\ read'[d] = read[d] + 1
      BY <1>1, <1>2, <2>1, <2>2
    <3>2. Settled(d)' = Settled(d)
      BY <1>2, <3>1 DEF Settled, InHand, Writing
    <3> QED
      BY <1>5, <2>1, <3>1, <3>2
  <2>3. CASE e # d
    BY <1>1, <1>2, <1>5, <2>1, <2>3
  <2> QED
    BY <2>2, <2>3
<1>7. ASSUME NEW e \in Pumps, NEW text \in {"original", "edited"}, Forward(e, text)
      PROVE  SentInOrder(d)'
  <2>1. pc[e] = "held" /\ pc' = [pc EXCEPT ![e] = "lock"] /\ UNCHANGED <<wire, dropped, read>>
    BY <1>7 DEF Forward, historyVars
  <2>2. CASE e = d
    <3>1. pc'[d] = "lock" /\ pc[d] = "held"
      BY <1>1, <1>2, <2>1, <2>2
    <3>2. Settled(d)' = Settled(d)
      BY <2>1, <3>1 DEF Settled, InHand, Writing
    <3> QED
      BY <1>5, <2>1, <3>1, <3>2
  <2>3. CASE e # d
    BY <1>1, <1>2, <1>5, <2>1, <2>3
  <2> QED
    BY <2>2, <2>3
<1>8. ASSUME NEW e \in Pumps, Drop(e) PROVE SentInOrder(d)'
  <2>1. /\ pc[e] = "held" /\ pc' = [pc EXCEPT ![e] = "read"] /\ UNCHANGED <<wire, read>>
        /\ dropped' = dropped \cup {frame[e]}
    BY <1>8 DEF Drop
  <2>2. frame[e].by = e
    BY <1>0, <2>1, Sets DEF FrameInHand
  <2>3. CASE e = d
    <3>1. pc'[d] = "read" /\ pc[d] = "held" /\ frame[d].n = read[d] /\ read[d] > 0
      BY <1>0, <1>1, <1>2, <2>1, <2>3 DEF FrameInHand, InHand
    <3>2. Settled(d)' = Settled(d) + 1 /\ frame[d].n = Settled(d) + 1
      BY <1>2, <2>1, <3>1 DEF Settled, InHand, Writing
    <3>3. Out(d)' = Out(d) \cup {Settled(d) + 1}
      BY <2>1, <2>2, <2>3, <3>2 DEF Out
    <3>4. Ledger(wire[Sink[d]], d, Out(d) \cup {Settled(d) + 1}, Settled(d) + 1, TRUE)
      BY <1>3, <1>4a, <3>1, LedgerDropped
    <3>5. (pc'[d] # "done") = TRUE
      BY <3>1
    <3> QED
      BY <1>2, <2>1, <3>2, <3>3, <3>4, <3>5 DEF SentInOrder
  <2>4. CASE e # d
    <3>1. Out(d)' = Out(d)
      BY <2>1, <2>2, <2>4 DEF Out
    <3>2. pc'[d] = pc[d] /\ Settled(d)' = Settled(d)
      BY <1>1, <1>2, <2>1, <2>4 DEF Settled, InHand
    <3> QED
      BY <1>2, <1>4, <2>1, <3>1, <3>2 DEF SentInOrder
  <2> QED
    BY <2>3, <2>4
\* The pump stops, or goes on without what it had in hand.
<1>9. ASSUME UNCHANGED <<wire, dropped, read>>, pc[d] # "done", pc'[d] = "done"
      PROVE  SentInOrder(d)'
  <2>1. Out(d)' = Out(d) /\ Settled(d)' = read[d] /\ read[d] \in {Settled(d), Settled(d) + 1}
    BY <1>2, <1>9 DEF Out, Settled, InHand, Writing
  <2>2. Ledger(wire[Sink[d]], d, Out(d), read[d], FALSE)
    BY <1>3, <1>9, <1>4a, <2>1, LedgerLost
  <2>3. (pc'[d] # "done") = FALSE
    BY <1>9
  <2> QED
    BY <1>2, <1>9, <2>1, <2>2, <2>3 DEF SentInOrder
<1>10. ASSUME NEW e \in Pumps, ReadFails(e) PROVE SentInOrder(d)'
  <2>1. pc' = [pc EXCEPT ![e] = "done"] /\ UNCHANGED <<wire, dropped, read>>
    BY <1>10 DEF ReadFails, historyVars
  <2> QED
    <3>1. CASE e = d
      <4>1. pc[d] = "read" /\ pc'[d] = "done"
        BY <1>1, <1>2, <1>10, <2>1, <3>1 DEF ReadFails
      <4> QED
        BY <1>9, <2>1, <4>1
    <3>2. CASE e # d
      BY <1>1, <1>2, <1>5, <2>1, <3>2
    <3> QED
      BY <3>1, <3>2
<1>11. ASSUME NEW w \in Writers, Lock(w) PROVE SentInOrder(d)'
  <2>1. pc[w] = "lock" /\ pc' = [pc EXCEPT ![w] = "first"] /\ UNCHANGED <<wire, dropped, read>>
    BY <1>11 DEF Lock, historyVars
  <2>2. CASE w = d
    <3>1. pc'[d] = "first" /\ pc[d] = "lock"
      BY <1>1, <2>1, <2>2
    <3>2. Settled(d)' = Settled(d)
      BY <2>1, <3>1 DEF Settled, InHand, Writing
    <3> QED
      BY <1>5, <2>1, <3>1, <3>2
  <2>3. CASE w # d
    BY <1>1, <1>2, <1>5, <2>1, <2>3
  <2> QED
    BY <2>2, <2>3
\* A half reaches a wire that completes none of the pump's frames.
<1>12. ASSUME NEW w \in Writers, NEW half \in {1, 2}, pc[w] \in Writing, Put(w, half),
              w # d \/ half = 1,
              UNCHANGED <<dropped, read>>, (pc'[d] # "done") = (pc[d] # "done"),
              Settled(d)' = Settled(d)
       PROVE  SentInOrder(d)'
  <2> DEFINE h == [frame |-> frame[w], half |-> half]
  <2>1. frame[w] \in Frame /\ frame[w].by = w
    BY <1>0, <1>12 DEF FrameInHand
  <2>2. /\ h \in Half /\ wire'[to[w]] = Append(wire[to[w]], h)
        /\ Sink[d] # to[w] => wire'[Sink[d]] = wire[Sink[d]]
    BY <1>0, <1>2, <1>12, <2>1, PutMeans
  <2>3. ~ Completes(h, d)
    BY <1>12, <2>1 DEF Completes
  <2> HIDE DEF h
  <2>4. Ledger(wire'[Sink[d]], d, Out(d), Settled(d), pc[d] # "done")
    <3>1. CASE to[w] = Sink[d]
      BY <1>2, <1>4, <2>2, <2>3, <3>1, LedgerOther
    <3>2. CASE to[w] # Sink[d]
      BY <1>4, <2>2, <3>2
    <3> QED
      BY <3>1, <3>2
  <2>5. Out(d)' = Out(d)
    BY <1>12 DEF Out
  <2> QED
    BY <1>2, <1>12, <2>4, <2>5 DEF SentInOrder
<1>13. ASSUME NEW w \in Writers, WriteFirst(w) PROVE SentInOrder(d)'
  <2>1. /\ pc[w] = "first" /\ pc' = [pc EXCEPT ![w] = "second"] /\ Put(w, 1)
        /\ UNCHANGED <<dropped, read>>
    BY <1>13 DEF WriteFirst, historyVars
  <2>2. pc[d] = pc'[d] \/ (pc[d] = "first" /\ pc'[d] = "second")
    BY <1>1, <1>2, <2>1
  <2>3. Settled(d)' = Settled(d) /\ (pc'[d] # "done") = (pc[d] # "done")
    BY <2>1, <2>2 DEF Settled, InHand, Writing
  <2> QED
    BY <1>12, <2>1, <2>3 DEF Writing
<1>14. ASSUME NEW w \in Writers, WriteSecond(w) PROVE SentInOrder(d)'
  <2>1. /\ pc[w] = "second" /\ Put(w, 2) /\ EndWrite(w, FALSE)
        /\ UNCHANGED <<dropped, read>>
    BY <1>14 DEF WriteSecond, historyVars
  <2>2. CASE w # d
    <3>1. pc'[d] = pc[d]
      BY <1>0, <1>2, <2>1, <2>2, EndMeans
    <3>2. Settled(d)' = Settled(d) /\ (pc'[d] # "done") = (pc[d] # "done")
      BY <2>1, <3>1 DEF Settled, InHand
    <3> QED
      BY <1>12, <2>1, <2>2, <3>2 DEF Writing
  <2>3. CASE w = d
    <3> DEFINE h == [frame |-> frame[d], half |-> 2]
    <3>1. /\ frame[d] \in Frame /\ frame[d].by = d
          /\ frame[d].n = read[d] /\ read[d] > 0 /\ InHand(d)
      BY <1>0, <1>2, <2>1, <2>3 DEF FrameInHand, InHand, Writing
    <3>2. h \in Half /\ wire'[Sink[d]] = Append(wire[Sink[d]], h)
      BY <1>0, <1>2, <2>1, <2>3, <3>1, PutMeans
    <3>3. h.frame.n = Settled(d) + 1 /\ Completes(h, d)
      BY <1>2, <3>1 DEF Settled, Completes
    <3> HIDE DEF h
    <3>4. Ledger(wire'[Sink[d]], d, Out(d), Settled(d) + 1, TRUE)
      <4>1. Ledger(wire[Sink[d]], d, Out(d), Settled(d), TRUE)
        BY <1>4a, <2>1, <2>3
      <4> QED
        BY <1>2, <1>3, <3>2, <3>3, <4>1, LedgerSent
    <3>5. pc'[d] \in {"read", "done"}
      <4>1. pc' = [pc EXCEPT ![d] = After(d, FALSE)]
        BY <2>1, <2>3 DEF EndWrite
      <4> QED
        BY <1>1, <1>2, <4>1, Sets DEF After
    <3>6. Settled(d)' = Settled(d) + 1 /\ Out(d)' = Out(d)
      BY <1>2, <2>1, <3>1, <3>5 DEF Settled, InHand, Writing, Out
    <3>7. CASE pc'[d] = "done"
      <4>1. Settled(d) + 1 \in Nat
        BY <1>3
      <4>2. Ledger(wire'[Sink[d]], d, Out(d), Settled(d) + 1, FALSE)
        BY <3>4, <4>1, LedgerLost
      <4>3. (pc'[d] # "done") = FALSE
        BY <3>7
      <4> QED
        BY <1>2, <3>6, <4>2, <4>3 DEF SentInOrder
    <3>8. CASE pc'[d] = "read"
      <4>1. (pc'[d] # "done") = TRUE
        BY <3>8
      <4> QED
        BY <1>2, <3>4, <3>6, <4>1 DEF SentInOrder
    <3> QED
      BY <3>5, <3>7, <3>8
  <2> QED
    BY <2>2, <2>3
<1>15. ASSUME NEW w \in Writers, WriteFails(w) PROVE SentInOrder(d)'
  <2>1. EndWrite(w, TRUE) /\ UNCHANGED <<wire, dropped, read>>
    BY <1>15 DEF WriteFails, historyVars
  <2>2. CASE w = d
    <3>1. pc' = [pc EXCEPT ![d] = After(d, TRUE)]
      BY <2>1, <2>2 DEF EndWrite
    <3>2. pc'[d] = "done"
      BY <1>1, <1>2, <3>1, Sets DEF After
    <3>3. pc[d] # "done"
      BY <1>15, <2>2 DEF WriteFails
    <3> QED
      BY <1>9, <2>1, <3>2, <3>3
  <2>3. CASE w # d
    <3>1. pc'[d] = pc[d]
      BY <1>0, <1>2, <2>1, <2>3, EndMeans
    <3> QED
      BY <1>5, <2>1, <3>1
  <2> QED
    BY <2>2, <2>3
<1>16. ASSUME NEW p \in Peers, Inject(p) PROVE SentInOrder(d)'
  <2>1. /\ read' = [read EXCEPT !["inject"] = @ + 1] /\ pc' = [pc EXCEPT !["inject"] = "lock"]
        /\ UNCHANGED <<wire, dropped>>
    BY <1>16 DEF Inject
  <2>2. pc'[d] = pc[d] /\ read'[d] = read[d]
    BY <1>1, <1>2, <2>1, Sets
  <2> QED
    BY <1>5, <2>1, <2>2
<1>17. ASSUME NEW p \in Peers, HangUp(p) PROVE SentInOrder(d)'
  BY <1>5, <1>17 DEF HangUp
<1>18. CASE Close \/ Return \/ UNCHANGED vars
  BY <1>5, <1>18 DEF Close, Return, vars
<1> QED
  BY <1>6, <1>7, <1>8, <1>10, <1>11, <1>13, <1>14, <1>15, <1>16, <1>17, <1>18
     DEF Next, Answer, Write

-----------------------------------------------------------------------------
(* The handler's return, and the theorems.                                 *)

LEMMA ReturnStep ==
    ASSUME WSInv, [Next]_vars
    PROVE  ReturnsFinished'
<1>0. TypeOK /\ LockHeld /\ ReturnsFinished
  BY DEF WSInv
<1>1. DOMAIN pc = Writers
  BY <1>0 DEF TypeOK
\* After the return no pump takes a step.
<1>2. ASSUME UNCHANGED <<phase, registered>>,
             phase = "returned" =>
                UNCHANGED status /\ \A d \in Pumps : pc[d] = "done" => pc'[d] = "done"
      PROVE  ReturnsFinished'
  BY <1>0, <1>2 DEF ReturnsFinished
<1>3. ASSUME NEW d \in Pumps,
             \/ \E kind \in Kinds, held \in BOOLEAN : Read(d, kind, held)
             \/ \E text \in {"original", "edited"} : Forward(d, text)
             \/ Drop(d) \/ ReadFails(d)
      PROVE  ReturnsFinished'
  <2>1. pc[d] \in {"read", "held"} /\ UNCHANGED <<phase, registered>>
    BY <1>3 DEF Read, Forward, Drop, ReadFails
  <2>2. phase # "returned"
    BY <1>0, <2>1 DEF ReturnsFinished
  <2> QED
    BY <1>2, <2>1, <2>2
<1>4. ASSUME NEW w \in Writers, Lock(w) \/ WriteFirst(w) \/ WriteSecond(w) \/ WriteFails(w)
      PROVE  ReturnsFinished'
  <2>1. UNCHANGED <<phase, registered, status>> /\ pc[w] \in Writing
    BY <1>4 DEF Lock, WriteFirst, WriteSecond, WriteFails, Writing
  <2>2. PICK at : pc' = [pc EXCEPT ![w] = at]
    BY <1>4 DEF Lock, WriteFirst, WriteSecond, WriteFails, EndWrite
  <2>3. \A d \in Pumps : pc[d] = "done" => pc'[d] = "done"
    BY <1>1, <2>1, <2>2, Sets DEF Writing
  <2> QED
    BY <1>2, <2>1, <2>3
<1>5. ASSUME NEW p \in Peers, Inject(p) PROVE ReturnsFinished'
  <2>1. UNCHANGED <<phase, registered, status>> /\ pc' = [pc EXCEPT !["inject"] = "lock"]
    BY <1>5 DEF Inject
  <2>2. \A d \in Pumps : pc'[d] = pc[d]
    BY <1>1, <2>1, Sets
  <2> QED
    BY <1>2, <2>1, <2>2
<1>6. ASSUME NEW p \in Peers, HangUp(p) PROVE ReturnsFinished'
  BY <1>2, <1>6 DEF HangUp
<1>7. CASE Close
  <2>1. phase # "returned" /\ phase' # "returned"
    BY <1>7 DEF Close
  <2> QED
    BY <2>1 DEF ReturnsFinished
<1>8. CASE Return
  <2>1. status' = "complete" /\ registered' = FALSE /\ UNCHANGED pc /\ \A d \in Pumps : pc[d] = "done"
    BY <1>0, <1>8 DEF Return, TypeOK
  <2> QED
    BY <2>1 DEF ReturnsFinished
<1>9. CASE UNCHANGED vars
  BY <1>2, <1>9 DEF vars
<1> QED
  BY <1>3, <1>4, <1>5, <1>6, <1>7, <1>8, <1>9 DEF Next, Answer, Write

LEMMA WSStart ==
    ASSUME Init
    PROVE  WSInv
<1>1. TypeOK
  <2>1. \A p \in Peers : wire[p] = <<>>
    BY DEF Init
  <2>2. messages \in Seq(Frame) /\ wire \in [Peers -> Seq(Half)]
    BY DEF Init
  <2>3. lock \in [Peers -> Writers \cup {"none"}] /\ frame \in [Writers -> Frame \cup {NoFrame}]
        /\ read \in [Writers -> Nat]
    BY DEF Init
  <2>4. to \in [Writers -> Peers] /\ fragmented \in [Pumps -> BOOLEAN]
    BY DEF Init, Peers
  <2>5. /\ DOMAIN pc = Writers /\ pc["inject"] \in Writing \cup {"idle"}
        /\ \A d \in Pumps : pc[d] \in Writing \cup {"read", "held", "done"}
    BY Sets DEF Init
  <2> QED
    BY <2>2, <2>3, <2>4, <2>5 DEF Init, TypeOK
<1>2. \A w \in Writers : pc[w] \in {"idle", "read"}
  BY DEF Init
<1>3. LockHeld
  BY <1>2, Sets DEF Init, LockHeld
<1>4. FrameInHand
  <2>1. \A d \in Pumps : to[d] = Sink[d]
    BY DEF Init, Writers, Pumps, Sink
  <2> QED
    BY <1>2, <2>1, Sets DEF FrameInHand, InHand, Writing
<1>5. \A p \in Peers : wire[p] = <<>> /\ Len(wire[p]) = 0
  BY DEF Init
<1>6. WiresWhole
  <2>1. \A p \in Peers : Whole(wire[p])
    BY <1>5 DEF Whole
  <2> QED
    BY <1>2, <1>5, <2>1 DEF WiresWhole
<1>7. ASSUME NEW d \in Pumps PROVE SentInOrder(d)
  <2>1. Settled(d) = 0 /\ Out(d) = {} /\ Len(wire[Sink[d]]) = 0
    BY <1>2, <1>5, Sets DEF Settled, InHand, Writing, Out, Init
  <2> QED
    BY <2>1 DEF SentInOrder, Ledger
<1>8. ReturnsFinished
  BY DEF Init, ReturnsFinished
<1> QED
  BY <1>1, <1>3, <1>4, <1>6, <1>7, <1>8 DEF WSInv

\* The invariant of the session is inductive: the writers exclude each other on
\* every connection, and a half written frame is either being completed or the
\* last (wsSession, pumpWS).
THEOREM WSInvariance == Spec => []WSInv
<1>1. WSInv /\ [Next]_vars => WSInv'
  <2> SUFFICES ASSUME WSInv, [Next]_vars PROVE WSInv'
    OBVIOUS
  <2>1. \A d \in Pumps : SentInOrder(d)'
    BY SentStep
  <2> QED
    BY <2>1, WSTypeStep, LockStep, HandStep, WireStep, ReturnStep DEF WSInv
<1> QED
  BY <1>1, WSStart, PTL DEF Spec

\* Whatever is injected and however the pumps interleave, each frame is on the
\* wire in one piece, but perhaps the one whose write failed (wsSession: "never
\* interleave and corrupt the stream").
THEOREM NeverInterleaved == Spec => []FramesWhole
<1>1. WSInv => FramesWhole
  <2> SUFFICES ASSUME WSInv PROVE FramesWhole
    OBVIOUS
  <2>1. TypeOK /\ WiresWhole /\ wire \in [Peers -> Seq(Half)]
    BY DEF WSInv, TypeOK
  <2>2. \A p \in Peers : DOMAIN wire[p] = 1 .. Len(wire[p])
    BY <2>1
  <2>3. \A p \in Peers : \A i \in DOMAIN wire[p] : WholeAt(wire[p], i)
    BY <2>1, <2>2 DEF WiresWhole, Whole
  <2> QED
    BY <2>1, <2>3 DEF FramesWhole, WholeAt
<1> QED
  BY <1>1, WSInvariance, PTL

\* The handler leaves a complete flow and no session behind, and both pumps have
\* stopped (handleWebSocket).
THEOREM ReturnedIsOver == Spec => []ReturnsFinished
<1>1. WSInv => ReturnsFinished
  BY DEF WSInv
<1> QED
  BY <1>1, WSInvariance, PTL

\* A running pump has delivered every frame that it read and that is neither in
\* its hand nor dropped by the operator, in the order it read them and each once;
\* one that stopped lost at most the last it read (pumpWS).
THEOREM DeliveredAsRead == Spec => []DeliveredInOrder
<1>1. WSInv => DeliveredInOrder
  <2> SUFFICES ASSUME WSInv, NEW d \in Pumps
               PROVE  LET s == wire[Sink[d]]
                      IN  /\ \A i, j \in DOMAIN s :
                                i < j /\ Completes(s[i], d) /\ Completes(s[j], d) =>
                                   s[i].frame.n < s[j].frame.n
                          /\ Delivered(d) \subseteq Due(d)
                          /\ Due(d) \ Delivered(d) \subseteq
                                IF pc[d] = "done" THEN {read[d]} ELSE {}
    BY DEF DeliveredInOrder
  <2> DEFINE s == wire[Sink[d]]
  <2>1. Ledger(s, d, Out(d), Settled(d), pc[d] # "done")
    BY DEF WSInv, SentInOrder
  <2>2. s \in Seq(Half) /\ DOMAIN s = 1 .. Len(s) /\ read[d] \in Nat
    BY Sets DEF WSInv, TypeOK
  <2>3. Due(d) = (1 .. Settled(d)) \ Out(d)
    <3>1. InHand(d) => read[d] > 0
      BY DEF WSInv, FrameInHand
    <3>2. InHand(d) => (1 .. read[d]) \ {read[d]} = 1 .. read[d] - 1
      BY <2>2, <3>1
    <3> QED
      BY <3>2 DEF Due, Settled
  <2>4. Delivered(d) = {s[i].frame.n : i \in {j \in 1 .. Len(s) : Completes(s[j], d)}}
    BY <2>2 DEF Delivered
  <2> HIDE DEF s
  <2>5. Delivered(d) \subseteq Due(d)
    BY <2>1, <2>3, <2>4 DEF Ledger
  <2>6. ASSUME NEW n \in Due(d), n \notin Delivered(d) PROVE pc[d] = "done" /\ n = read[d]
    <3>1. n \in (1 .. Settled(d)) \ Out(d)
      BY <2>3, <2>6
    <3>2. ~ \E i \in 1 .. Len(s) : Completes(s[i], d) /\ s[i].frame.n = n
      BY <2>4, <2>6
    <3>3. pc[d] = "done" /\ ~ n < Settled(d)
      BY <2>1, <3>1, <3>2 DEF Ledger
    <3>4. Settled(d) = read[d]
      BY <3>3 DEF Settled, InHand, Writing
    <3> QED
      BY <2>2, <3>1, <3>3, <3>4
  <2>7. \A i, j \in 1 .. Len(s) : i < j /\ Completes(s[i], d) /\ Completes(s[j], d) =>
           s[i].frame.n < s[j].frame.n
    BY <2>1 DEF Ledger
  <2> QED
    BY <2>2, <2>5, <2>6, <2>7 DEF s
<1> QED
  BY <1>1, WSInvariance, PTL

==============================================================================
