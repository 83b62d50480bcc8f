----------------------------- MODULE TerminalProofs -----------------------------
(***************************************************************************)
(* Proofs about Terminal, for any size of the reply queue and of the       *)
(* kernel's buffer, any number of chunks, queries, keys and mouse events.  *)
(***************************************************************************)
EXTENDS Terminal, SequenceTheorems, TLAPS

USE BoundsAssumption DEF BoundsAssumption, ptyVars, replyVars, uiVars, uiRest, closerRest

-----------------------------------------------------------------------------
(* The inductive invariant.                                                *)

Elements(s) == {s[i] : i \in 1 .. Len(s)}

Sorted(s) == \A i, j \in 1 .. Len(s) : i < j => s[i] < s[j]

Below(S, T) == \A a \in S, b \in T : a < b

\* The reply forwardReplies is writing.
InWrite == IF writer = "write" THEN {reply} ELSE {}

\* The replies of which pumpReplies decided whether they are queued: all but the
\* one it has just read.
Decided == IF drain = "push" THEN emitted - 1 ELSE emitted

\* A reply keeps its place between those that were emitted before and after it.
RepliesInOrder ==
    /\ drain = "push" => hand = emitted /\ emitted > 0
    /\ Elements(written) \cup InWrite \cup Elements(fifo) \subseteq 1 .. Decided
    /\ Sorted(written) /\ Sorted(fifo)
    /\ Below(Elements(written), InWrite) /\ Below(Elements(written), Elements(fifo))
    /\ Below(InWrite, Elements(fifo))

\* As long as replies are forwarded each has a place, or was dropped.
RepliesFound ==
    writer # "done" =>
        1 .. Decided = lost \cup Elements(written) \cup InWrite \cup Elements(fifo)

TermInv == TypeOK /\ RepliesInOrder /\ RepliesFound /\ NoLostOutput

-----------------------------------------------------------------------------
(* Facts about sequences.                                                  *)

LEMMA ElementsAppended ==
    ASSUME NEW s \in Seq(Nat), NEW n \in Nat
    PROVE  /\ Append(s, n) \in Seq(Nat) /\ Len(Append(s, n)) = Len(s) + 1
           /\ Elements(Append(s, n)) = Elements(s) \cup {n}
           /\ Sorted(s) /\ Below(Elements(s), {n}) => Sorted(Append(s, n))
<1>1. /\ Len(s) \in Nat /\ Append(s, n) \in Seq(Nat) /\ Len(Append(s, n)) = Len(s) + 1
      /\ \A i \in 1 .. Len(s) : Append(s, n)[i] = s[i]
      /\ Append(s, n)[Len(s) + 1] = n
  BY AppendProperties, LenProperties
<1>2. 1 .. Len(s) + 1 = 1 .. Len(s) \cup {Len(s) + 1}
  BY <1>1
<1>3. Elements(Append(s, n)) = Elements(s) \cup {n}
  BY <1>1, <1>2 DEF Elements
<1>4. ASSUME Sorted(s), Below(Elements(s), {n}) PROVE Sorted(Append(s, n))
  <2> SUFFICES ASSUME NEW i \in 1 .. Len(s) + 1, NEW j \in 1 .. Len(s) + 1, i < j
               PROVE  Append(s, n)[i] < Append(s, n)[j]
    BY <1>1 DEF Sorted
  <2>1. i \in 1 .. Len(s)
    BY <1>1
  <2>2. CASE j = Len(s) + 1
    BY <1>1, <1>4, <2>1, <2>2 DEF Below, Elements
  <2>3. CASE j \in 1 .. Len(s)
    BY <1>1, <1>4, <2>1, <2>3 DEF Sorted
  <2> QED
    BY <1>2, <2>2, <2>3
<1> QED
  BY <1>1, <1>3, <1>4

LEMMA ElementsTaken ==
    ASSUME NEW s \in Seq(Nat), s # <<>>, Sorted(s)
    PROVE  /\ Head(s) \in Nat /\ Tail(s) \in Seq(Nat) /\ Len(Tail(s)) = Len(s) - 1
           /\ Elements(s) = {Head(s)} \cup Elements(Tail(s))
           /\ Sorted(Tail(s)) /\ Below({Head(s)}, Elements(Tail(s)))
<1>1. /\ Len(s) \in Nat \ {0} /\ Head(s) = s[1] /\ Tail(s) \in Seq(Nat)
      /\ Len(Tail(s)) = Len(s) - 1
      /\ \A i \in 1 .. Len(s) - 1 : Tail(s)[i] = s[i + 1]
  BY HeadTailProperties, LenProperties, EmptySeq
<1>2. s[1] \in Nat
  BY <1>1, ElementOfSeq
<1>3. Elements(s) = {s[1]} \cup Elements(Tail(s))
  <2>1. ASSUME NEW i \in 1 .. Len(s), i # 1 PROVE s[i] \in Elements(Tail(s))
    <3>1. i - 1 \in 1 .. Len(s) - 1 /\ (i - 1) + 1 = i
      BY <1>1, <2>1
    <3> QED
      BY <1>1, <3>1 DEF Elements
  <2>2. ASSUME NEW i \in 1 .. Len(s) - 1 PROVE Tail(s)[i] \in Elements(s)
    <3>1. i + 1 \in 1 .. Len(s)
      BY <1>1, <2>2
    <3> QED
      BY <1>1, <2>2, <3>1 DEF Elements
  <2>3. 1 \in 1 .. Len(s)
    BY <1>1
  <2> QED
    BY <1>1, <2>1, <2>2, <2>3 DEF Elements
<1>4. ASSUME NEW i \in 1 .. Len(s) - 1, NEW j \in 1 .. Len(s) - 1, i < j
      PROVE  Tail(s)[i] < Tail(s)[j]
  <2>1. i + 1 \in 1 .. Len(s) /\ j + 1 \in 1 .. Len(s) /\ i + 1 < j + 1
    BY <1>1, <1>4
  <2> QED
    BY <1>1, <2>1 DEF Sorted
<1>5. ASSUME NEW i \in 1 .. Len(s) - 1 PROVE s[1] < Tail(s)[i]
  <2>1. i + 1 \in 1 .. Len(s) /\ 1 < i + 1 /\ 1 \in 1 .. Len(s)
    BY <1>1
  <2> QED
    BY <1>1, <2>1 DEF Sorted
<1> QED
  BY <1>1, <1>2, <1>3, <1>4, <1>5 DEF Sorted, Below, Elements

\* One sequence behind another, whose elements are all greater.
LEMMA ElementsJoined ==
    ASSUME NEW s \in Seq(Nat), NEW t \in Seq(Nat), Sorted(s), Sorted(t),
           Below(Elements(s), Elements(t))
    PROVE  /\ s \o t \in Seq(Nat) /\ Sorted(s \o t)
           /\ Elements(s \o t) = Elements(s) \cup Elements(t)
<1>1. /\ Len(s) \in Nat /\ Len(t) \in Nat
      /\ s \o t \in Seq(Nat) /\ Len(s \o t) = Len(s) + Len(t)
      /\ \A i \in 1 .. Len(s) + Len(t) :
            (s \o t)[i] = IF i <= Len(s) THEN s[i] ELSE t[i - Len(s)]
  BY ConcatProperties, LenProperties
<1>2. \A i \in 1 .. Len(s) : i \in 1 .. Len(s) + Len(t) /\ (s \o t)[i] = s[i]
  BY <1>1
<1>3. \A i \in 1 .. Len(t) :
         Len(s) + i \in 1 .. Len(s) + Len(t) /\ (s \o t)[Len(s) + i] = t[i]
  <2> SUFFICES ASSUME NEW i \in 1 .. Len(t)
               PROVE  Len(s) + i \in 1 .. Len(s) + Len(t) /\ (s \o t)[Len(s) + i] = t[i]
    OBVIOUS
  <2>1. /\ Len(s) + i \in 1 .. Len(s) + Len(t) /\ ~ (Len(s) + i <= Len(s))
        /\ (Len(s) + i) - Len(s) = i
    BY <1>1
  <2> QED
    BY <1>1, <2>1
<1>4. \A i \in 1 .. Len(s) + Len(t) :
         i \in 1 .. Len(s) \/ \E k \in 1 .. Len(t) : i = Len(s) + k
  <2> SUFFICES ASSUME NEW i \in 1 .. Len(s) + Len(t), i \notin 1 .. Len(s)
               PROVE  \E k \in 1 .. Len(t) : i = Len(s) + k
    OBVIOUS
  <2>1. i - Len(s) \in 1 .. Len(t) /\ i = Len(s) + (i - Len(s))
    BY <1>1
  <2> QED
    BY <2>1
<1>5. Elements(s \o t) = Elements(s) \cup Elements(t)
  <2>1. ASSUME NEW i \in 1 .. Len(s) + Len(t)
        PROVE  (s \o t)[i] \in Elements(s) \cup Elements(t)
    <3>1. CASE i \in 1 .. Len(s)
      BY <1>2, <3>1 DEF Elements
    <3>2. ASSUME NEW k \in 1 .. Len(t), i = Len(s) + k
          PROVE  (s \o t)[i] \in Elements(s) \cup Elements(t)
      BY <1>3, <3>2 DEF Elements
    <3> QED
      BY <1>4, <3>1, <3>2
  <2>2. \A i \in 1 .. Len(s) : s[i] \in Elements(s \o t)
    BY <1>1, <1>2 DEF Elements
  <2>3. \A i \in 1 .. Len(t) : t[i] \in Elements(s \o t)
    BY <1>1, <1>3 DEF Elements
  <2> QED
    BY <1>1, <2>1, <2>2, <2>3 DEF Elements
<1>6. Sorted(s \o t)
  <2> SUFFICES ASSUME NEW i \in 1 .. Len(s) + Len(t), NEW j \in 1 .. Len(s) + Len(t), i < j
               PROVE  (s \o t)[i] < (s \o t)[j]
    BY <1>1 DEF Sorted
  <2>1. CASE i \in 1 .. Len(s) /\ j \in 1 .. Len(s)
    BY <1>2, <2>1 DEF Sorted
  <2>2. ASSUME i \in 1 .. Len(s), NEW k \in 1 .. Len(t), j = Len(s) + k
        PROVE  (s \o t)[i] < (s \o t)[j]
    <3>1. s[i] \in Elements(s) /\ t[k] \in Elements(t)
      BY <2>2 DEF Elements
    <3> QED
      BY <1>2, <1>3, <2>2, <3>1 DEF Below
  <2>3. ASSUME NEW m \in 1 .. Len(t), i = Len(s) + m, NEW k \in 1 .. Len(t), j = Len(s) + k
        PROVE  (s \o t)[i] < (s \o t)[j]
    <3>1. m < k
      BY <1>1, <2>3
    <3> QED
      BY <1>3, <2>3, <3>1 DEF Sorted
  <2>4. ~ (j \in 1 .. Len(s) /\ \E m \in 1 .. Len(t) : i = Len(s) + m)
    BY <1>1
  <2> QED
    BY <1>4, <2>1, <2>2, <2>3, <2>4
<1> QED
  BY <1>1, <1>5, <1>6

LEMMA ElementsAlone ==
    ASSUME NEW n \in Nat
    PROVE  /\ <<n>> \in Seq(Nat) /\ Sorted(<<n>>) /\ Elements(<<n>>) = {n}
           /\ <<>> \in Seq(Nat) /\ Sorted(<<>>) /\ Elements(<<>>) = {}
<1>1. <<n>> \in Seq(Nat) /\ Len(<<n>>) = 1 /\ <<n>>[1] = n
  OBVIOUS
<1>2. <<>> \in Seq(Nat) /\ Len(<<>>) = 0
  BY EmptySeq
<1>3. Elements(<<n>>) = {n}
  BY <1>1 DEF Elements
<1> QED
  BY <1>1, <1>2, <1>3 DEF Sorted, Elements

-----------------------------------------------------------------------------
(* Types.                                                                  *)

\* The steps that touch no reply: of the child, the pump, the interface, the end.
Quiet ==
    \/ ChildReads \/ ChildExits \/ AskQuit
    \/ (\E n \in 0 .. MaxAsks : PumpRead(n))
    \/ PressKey \/ MoveMouse
    \/ PumpReadFails \/ PumpLock \/ PumpUnlock \/ PumpNudge
    \/ WaiterStarts \/ Waiter \/ UpdatePty \/ EncodeKey \/ WriteKey
    \/ SendMouse \/ MouseSent \/ Draw
    \/ ChildGoneQuits \/ UpdateQuit
    \/ CloseLock \/ CloseWaited \/ CloseGraceOver \/ CloseTarget

LEMMA QuietSteps ==
    ASSUME Quiet
    PROVE  UNCHANGED <<replyVars, emitted>>
BY DEF Quiet, ChildReads, ChildExits, AskQuit, PumpRead, PressKey, MoveMouse, PumpReadFails,
       PumpLock, PumpUnlock, PumpNudge, WaiterStarts, Waiter, UpdatePty, EncodeKey,
       WriteKey, SendMouse, MouseSent, Draw, ChildGoneQuits, UpdateQuit, CloseLock,
       CloseWaited, CloseGraceOver, CloseTarget

LEMMA TermTypeStep ==
    ASSUME TermInv, [Next]_vars
    PROVE  TypeOK'
<1>0. TypeOK /\ Sorted(fifo)
  BY DEF TermInv, RepliesInOrder
<1> USE DEF TypeOK
<1>1. CASE ChildReads \/ ChildExits \/ AskQuit
  <2>1. CASE ChildReads
    BY <1>0, <2>1 DEF ChildReads
  <2>2. CASE ChildExits
    BY <1>0, <2>2 DEF ChildExits
  <2>3. CASE AskQuit
    BY <1>0, <2>3 DEF AskQuit
  <2> QED
    BY <1>1, <2>1, <2>2, <2>3
<1>2. ASSUME NEW n \in 0 .. MaxAsks, PumpRead(n) PROVE TypeOK'
  <2>1. /\ UNCHANGED <<ptyVars, mu, asks, replyVars, closed, uiVars, closer, emitted>>
        /\ pump' = "lock" /\ chunk' = n
        /\ count' = [count EXCEPT !.chunks = count.chunks + 1] /\ count.chunks < MaxChunks
    BY <1>2 DEF PumpRead
  <2>2. count \in [chunks : 0 .. MaxChunks, inputs : 0 .. MaxInputs]
    BY <1>0
  <2>3. count.chunks + 1 \in 0 .. MaxChunks
    BY <2>1, <2>2
  <2>4. count' \in [chunks : 0 .. MaxChunks, inputs : 0 .. MaxInputs]
    BY <2>1, <2>2, <2>3
  <2> QED
    BY <1>0, <2>1, <2>4
<1>3. CASE PressKey \/ MoveMouse
  <2>1. count' \in [chunks : 0 .. MaxChunks, inputs : 0 .. MaxInputs]
    <3>1. /\ count' = [count EXCEPT !.inputs = count.inputs + 1]
          /\ count.inputs < MaxInputs
      BY <1>3 DEF PressKey, MoveMouse
    <3>2. count \in [chunks : 0 .. MaxChunks, inputs : 0 .. MaxInputs]
      BY <1>0
    <3>3. count.inputs + 1 \in 0 .. MaxInputs
      BY <3>1, <3>2
    <3> QED
      BY <3>1, <3>2, <3>3
  <2>2. UNCHANGED <<uiRest, mu, notify, wait, quit, stale>> /\ ui' \in {"encode", "keys", "mouse"}
    BY <1>3 DEF PressKey, MoveMouse
  <2> QED
    BY <1>0, <2>1, <2>2
<1>4. CASE PumpReadFails \/ PumpNudge \/ PumpUnlock
  <2>1. CASE PumpReadFails
    BY <1>0, <2>1 DEF PumpReadFails
  <2>2. CASE PumpNudge
    BY <1>0, <2>2 DEF PumpNudge
  <2>3. CASE PumpUnlock
    BY <1>0, <2>3 DEF PumpUnlock
  <2> QED
    BY <1>4, <2>1, <2>2, <2>3
<1>5. CASE PumpLock
  BY <1>0, <1>5 DEF PumpLock
<1>6. CASE WaiterStarts \/ Waiter \/ UpdatePty \/ EncodeKey
  <2>1. CASE WaiterStarts
    BY <1>0, <2>1 DEF WaiterStarts
  <2>2. CASE Waiter
    <3>1. wait' = "ready" /\ notify' \in BOOLEAN
      BY <2>2 DEF Waiter
    <3>2. UNCHANGED <<uiRest, mu, ui, quit, stale, count>>
      BY <2>2 DEF Waiter
    <3> QED
      BY <1>0, <3>1, <3>2
  <2>3. CASE UpdatePty
    BY <1>0, <2>3 DEF UpdatePty
  <2>4. CASE EncodeKey
    BY <1>0, <2>4 DEF EncodeKey
  <2> QED
    BY <1>6, <2>1, <2>2, <2>3, <2>4
<1>7. CASE WriteKey
  BY <1>0, <1>7 DEF WriteKey
<1>8. CASE SendMouse \/ MouseSent \/ Draw
  <2>1. CASE SendMouse
    BY <1>0, <2>1 DEF SendMouse
  <2>2. CASE MouseSent
    BY <1>0, <2>2 DEF MouseSent
  <2>3. CASE Draw
    <3>1. ui' = "idle" /\ stale' \in BOOLEAN
      BY <2>3 DEF Draw
    <3>2. UNCHANGED <<uiRest, mu, notify, wait, quit, count>>
      BY <2>3 DEF Draw
    <3> QED
      BY <1>0, <3>1, <3>2
  <2> QED
    BY <1>8, <2>1, <2>2, <2>3
<1>9. CASE ChildGoneQuits \/ UpdateQuit
  <2>1. CASE ChildGoneQuits
    BY <1>0, <2>1 DEF ChildGoneQuits
  <2>2. CASE UpdateQuit
    BY <1>0, <2>2 DEF UpdateQuit
  <2> QED
    BY <1>9, <2>1, <2>2
<1>10. CASE CloseLock \/ CloseWaited \/ CloseGraceOver \/ CloseTarget
  <2>1. CASE CloseLock
    BY <1>0, <2>1 DEF CloseLock
  <2>2. CASE CloseWaited
    BY <1>0, <2>2 DEF CloseWaited
  <2>3. CASE CloseGraceOver
    BY <1>0, <2>3 DEF CloseGraceOver
  <2>4. CASE CloseTarget
    BY <1>0, <2>4 DEF CloseTarget
  <2> QED
    BY <1>10, <2>1, <2>2, <2>3, <2>4
<1>11. CASE Emit
  BY <1>0, <1>11 DEF Emit
<1>12. CASE Push
  <2>1. /\ Append(fifo, hand) \in Seq(Nat) /\ Len(Append(fifo, hand)) = Len(fifo) + 1
        /\ Len(fifo) \in Nat
    BY <1>0, ElementsAppended, LenProperties
  <2>2. fifo' \in Seq(Nat) /\ Len(fifo') <= ReplySlots /\ lost' \subseteq Nat
    <3>1. CASE Len(fifo) < ReplySlots
      <4>1. fifo' = Append(fifo, hand) /\ lost' = lost
        BY <1>12, <3>1 DEF Push
      <4> QED
        BY <1>0, <2>1, <3>1, <4>1
    <3>2. CASE ~ (Len(fifo) < ReplySlots)
      <4>1. fifo' = fifo /\ lost' = lost \cup {hand}
        BY <1>12, <3>2 DEF Push
      <4> QED
        BY <1>0, <4>1
    <3> QED
      BY <3>1, <3>2
  <2>3. drain' = "read" /\ hand' = 0
    BY <1>12 DEF Push
  <2>4. UNCHANGED <<ptyVars, mu, asks, pump, chunk, writer, reply, written, closed,
                    uiVars, closer, count, emitted>>
    BY <1>12 DEF Push
  <2> QED
    BY <1>0, <2>2, <2>3, <2>4
<1>13. CASE DrainEnds \/ WriterStops
  <2>1. CASE DrainEnds
    BY <1>0, <2>1 DEF DrainEnds
  <2>2. CASE WriterStops
    BY <1>0, <2>2 DEF WriterStops
  <2> QED
    BY <1>13, <2>1, <2>2
<1>14. CASE WriterTakes
  <2>1. /\ Head(fifo) \in Nat /\ Tail(fifo) \in Seq(Nat) /\ Len(Tail(fifo)) = Len(fifo) - 1
        /\ Len(fifo) \in Nat
    BY <1>0, <1>14, ElementsTaken, LenProperties DEF WriterTakes
  <2>2. fifo' \in Seq(Nat) /\ Len(fifo') <= ReplySlots /\ reply' \in Nat
    BY <1>0, <1>14, <2>1 DEF WriterTakes
  <2> QED
    BY <1>0, <1>14, <2>2 DEF WriterTakes
<1>15. CASE WriterWrites
  <2>1. Append(written, reply) \in Seq(Nat)
    BY <1>0, ElementsAppended
  <2>2. written' \in Seq(Nat) /\ inq' \in 0 .. InCap
    <3>1. \/ inq < InCap /\ inq' = inq + 1 /\ written' = Append(written, reply)
          \/ inq' = inq /\ written' = written
      BY <1>15 DEF WriterWrites
    <3>2. inq \in 0 .. InCap /\ written \in Seq(Nat)
      BY <1>0
    <3>3. inq < InCap => inq + 1 \in 0 .. InCap
      BY <3>2
    <3> QED
      BY <2>1, <3>1, <3>2, <3>3
  <2> QED
    BY <1>0, <1>15, <2>2 DEF WriterWrites
<1>16. CASE UNCHANGED vars
  BY <1>0, <1>16 DEF vars
<1> QED
  BY <1>1, <1>2, <1>3, <1>4, <1>5, <1>6, <1>7, <1>8, <1>9, <1>10, <1>11, <1>12, <1>13,
     <1>14, <1>15, <1>16 DEF Next, Goroutines

-----------------------------------------------------------------------------
(* The replies.                                                            *)

LEMMA RepliesStep ==
    ASSUME TermInv, [Next]_vars
    PROVE  RepliesInOrder' /\ RepliesFound'
<1>0. /\ TypeOK /\ RepliesInOrder /\ RepliesFound
      /\ fifo \in Seq(Nat) /\ written \in Seq(Nat) /\ emitted \in Nat /\ hand \in Nat
      /\ reply \in Nat
  BY DEF TermInv, TypeOK
<1> USE DEF RepliesInOrder, RepliesFound
\* No reply moves, though forwarding may have ended.
<1>1. ASSUME UNCHANGED <<fifo, written, lost, emitted, hand>>, InWrite' = InWrite,
             drain' = "push" <=> drain = "push", writer' # "done" => writer # "done"
      PROVE  RepliesInOrder' /\ RepliesFound'
  <2>1. Decided' = Decided
    BY <1>1 DEF Decided
  <2> QED
    BY <1>0, <1>1, <2>1
<1>2. CASE Quiet \/ UNCHANGED vars
  <2>1. UNCHANGED <<replyVars, emitted>>
    BY <1>2, QuietSteps DEF vars
  <2> QED
    BY <1>1, <2>1 DEF InWrite
<1>3. CASE DrainEnds \/ WriterStops
  BY <1>1, <1>3 DEF DrainEnds, WriterStops, InWrite
<1>4. CASE Emit
  <2>1. /\ drain = "read" /\ drain' = "push" /\ hand' = emitted' /\ emitted' = emitted + 1
        /\ UNCHANGED <<fifo, written, lost, writer, reply>>
    BY <1>4 DEF Emit
  <2>2. Decided' = Decided /\ InWrite' = InWrite /\ emitted' > 0
    BY <1>0, <2>1 DEF Decided, InWrite
  <2> QED
    BY <1>0, <2>1, <2>2
<1>5. CASE Push
  <2>1. /\ drain = "push" /\ drain' = "read"
        /\ UNCHANGED <<written, writer, reply, emitted>>
    BY <1>5 DEF Push
  <2>2. /\ Decided' = hand /\ Decided = hand - 1 /\ InWrite' = InWrite /\ hand > 0
    BY <1>0, <2>1 DEF Decided, InWrite
  <2>3. /\ 1 .. hand = 1 .. (hand - 1) \cup {hand}
        /\ \A S : S \subseteq 1 .. (hand - 1) => Below(S, {hand})
    BY <1>0, <2>2 DEF Below
  <2>4. CASE Len(fifo) < ReplySlots
    <3>1. fifo' = Append(fifo, hand) /\ lost' = lost
      BY <1>5, <2>4 DEF Push
    <3>2. Elements(fifo') = Elements(fifo) \cup {hand}
      BY <1>0, <3>1, ElementsAppended
    <3>3. /\ Below(Elements(fifo), {hand}) /\ Below(Elements(written), {hand})
          /\ Below(InWrite, {hand})
      BY <1>0, <2>2, <2>3
    <3>4. Sorted(fifo')
      BY <1>0, <3>1, <3>3, ElementsAppended
    <3>5. Below(Elements(written), Elements(fifo')) /\ Below(InWrite, Elements(fifo'))
      BY <1>0, <3>2, <3>3 DEF Below
    <3>6. RepliesInOrder'
      BY <1>0, <2>1, <2>2, <2>3, <3>2, <3>4, <3>5
    <3>7. RepliesFound'
      BY <1>0, <2>1, <2>2, <2>3, <3>1, <3>2
    <3> QED
      BY <3>6, <3>7
  <2>5. CASE ~ (Len(fifo) < ReplySlots)
    <3>1. fifo' = fifo /\ lost' = lost \cup {hand}
      BY <1>5, <2>5 DEF Push
    <3> QED
      BY <1>0, <2>1, <2>2, <2>3, <3>1
  <2> QED
    BY <2>4, <2>5
<1>6. CASE WriterTakes
  <2>1. /\ writer = "idle" /\ writer' = "write" /\ reply' = Head(fifo) /\ fifo' = Tail(fifo)
        /\ fifo # <<>> /\ UNCHANGED <<drain, hand, written, lost, emitted>>
    BY <1>6 DEF WriterTakes
  <2>2. /\ Elements(fifo) = {Head(fifo)} \cup Elements(fifo')
        /\ Sorted(fifo') /\ Below({Head(fifo)}, Elements(fifo'))
    BY <1>0, <2>1, ElementsTaken
  <2>3. InWrite = {} /\ InWrite' = {Head(fifo)} /\ Decided' = Decided
    BY <2>1 DEF InWrite, Decided
  <2>4. Below(Elements(written), InWrite') /\ Below(Elements(written), Elements(fifo'))
    BY <1>0, <2>2, <2>3 DEF Below
  <2> QED
    BY <1>0, <2>1, <2>2, <2>3, <2>4
<1>7. CASE WriterWrites
  <2>1. /\ writer = "write" /\ writer' \in {"idle", "done"}
        /\ UNCHANGED <<fifo, drain, hand, lost, emitted>>
    BY <1>7 DEF WriterWrites
  <2>2. InWrite = {reply} /\ InWrite' = {} /\ Decided' = Decided
    BY <2>1 DEF InWrite, Decided
  <2>3. /\ Below(Elements(written), InWrite') /\ Below(InWrite', Elements(fifo'))
    BY <2>2 DEF Below
  <2>4. CASE writer' = "done"
    <3>1. written' = written
      BY <1>7, <2>4 DEF WriterWrites
    <3> QED
      BY <1>0, <2>1, <2>2, <2>3, <2>4, <3>1
  <2>5. CASE writer' = "idle"
    <3>1. written' = Append(written, reply)
      BY <1>7, <2>5 DEF WriterWrites
    <3>2. Elements(written') = Elements(written) \cup {reply} /\ Sorted(written')
      BY <1>0, <2>2, <3>1, ElementsAppended
    <3>3. Below(Elements(written'), Elements(fifo'))
      BY <1>0, <2>1, <2>2, <3>2 DEF Below
    <3>4. Below(Elements(written'), InWrite')
      BY <2>2 DEF Below
    <3> QED
      BY <1>0, <2>1, <2>2, <2>3, <3>2, <3>3, <3>4
  <2> QED
    BY <2>1, <2>4, <2>5
<1> QED
  BY <1>2, <1>3, <1>4, <1>5, <1>6, <1>7 DEF Next, Goroutines, Quiet

-----------------------------------------------------------------------------
(* The screen.                                                             *)

LEMMA OutputStep ==
    ASSUME TermInv, [Next]_vars
    PROVE  NoLostOutput'
<1>0. NoLostOutput
  BY DEF TermInv
<1> USE DEF NoLostOutput
\* A nudge on its way stays there, and the interface that rests rested before.
<1>1. ASSUME UNCHANGED stale, ui' = "idle" => ui = "idle",
             pump = "nudge" => pump' = "nudge", notify => notify', wait = "ready" => wait' = "ready"
      PROVE  NoLostOutput'
  BY <1>0, <1>1
<1>2. CASE \/ ChildReads \/ ChildExits \/ AskQuit \/ PressKey \/ MoveMouse
           \/ PumpReadFails \/ PumpLock \/ (\E n \in 0 .. MaxAsks : PumpRead(n))
  BY <1>1, <1>2 DEF ChildReads, ChildExits, AskQuit, PressKey, MoveMouse, PumpReadFails,
                    PumpLock, PumpRead
<1>3. CASE PumpUnlock
  BY <1>3 DEF PumpUnlock
<1>4. CASE PumpNudge
  BY <1>4 DEF PumpNudge
<1>5. CASE WaiterStarts \/ UpdatePty \/ Draw
  BY <1>0, <1>5 DEF WaiterStarts, UpdatePty, Draw
<1>6. CASE Waiter
  BY <1>6 DEF Waiter
<1>7. CASE EncodeKey \/ WriteKey \/ SendMouse \/ MouseSent \/ ChildGoneQuits \/ UpdateQuit
  BY <1>1, <1>7 DEF EncodeKey, WriteKey, SendMouse, MouseSent, ChildGoneQuits, UpdateQuit
<1>8. CASE CloseLock \/ CloseWaited \/ CloseGraceOver \/ CloseTarget
  BY <1>1, <1>8 DEF CloseLock, CloseWaited, CloseGraceOver, CloseTarget
<1>9. CASE Emit \/ Push \/ DrainEnds \/ WriterTakes \/ WriterWrites \/ WriterStops
  BY <1>1, <1>9 DEF Emit, Push, DrainEnds, WriterTakes, WriterWrites, WriterStops
<1>10. CASE UNCHANGED vars
  BY <1>1, <1>10 DEF vars
<1> QED
  BY <1>2, <1>3, <1>4, <1>5, <1>6, <1>7, <1>8, <1>9, <1>10 DEF Next, Goroutines

LEMMA TermInit == Init => TermInv
<1> SUFFICES ASSUME Init PROVE TermInv
  OBVIOUS
<1> USE DEF Init
<1>1. <<>> \in Seq(Nat) /\ Len(<<>>) = 0 /\ Elements(<<>>) = {} /\ Sorted(<<>>)
  BY EmptySeq, ElementsAlone DEF Elements, Sorted
<1>2. TypeOK
  <2>1. count \in [chunks : 0 .. MaxChunks, inputs : 0 .. MaxInputs]
    OBVIOUS
  <2>2. fifo \in Seq(Nat) /\ written \in Seq(Nat) /\ Len(fifo) <= ReplySlots
    BY <1>1
  <2>3. closed \in BOOLEAN /\ notify \in BOOLEAN /\ quit \in BOOLEAN /\ stale \in BOOLEAN
    OBVIOUS
  <2>4. inq \in 0 .. InCap /\ chunk \in 0 .. MaxAsks /\ lost \subseteq Nat
    OBVIOUS
  <2> QED
    BY <2>1, <2>2, <2>3, <2>4 DEF TypeOK
<1>3. RepliesInOrder
  BY <1>1 DEF RepliesInOrder, InWrite, Below
<1>4. RepliesFound
  <2>1. 1 .. Decided = {}
    BY DEF Decided
  <2> QED
    BY <1>1, <2>1 DEF RepliesFound, InWrite
<1>5. NoLostOutput
  BY DEF NoLostOutput
<1> QED
  BY <1>2, <1>3, <1>4, <1>5 DEF TermInv

-----------------------------------------------------------------------------
(* The theorems.                                                           *)

\* The inductive invariant: a reply is in one place, in its turn, or was dropped
\* when pumpReplies found no slot.
THEOREM TermInvariance == Spec => []TermInv
<1>1. TermInv /\ [Next]_vars => TermInv'
  BY TermTypeStep, RepliesStep, OutputStep DEF TermInv
<1> QED
  BY TermInit, <1>1, PTL DEF Spec

\* The places of the replies, put behind each other.
LEMMA UnderwayMeans ==
    ASSUME TermInv
    PROVE  /\ Underway \in Seq(Nat) /\ Sorted(Underway)
           /\ writer # "done" => 1 .. emitted = lost \cup Elements(Underway)
<1> DEFINE W == IF writer = "write" THEN <<reply>> ELSE <<>>
           H == IF drain = "push" THEN <<hand>> ELSE <<>>
<1>0. /\ RepliesInOrder /\ RepliesFound /\ emitted \in Nat
      /\ written \in Seq(Nat) /\ fifo \in Seq(Nat) /\ reply \in Nat /\ hand \in Nat
  BY DEF TermInv, TypeOK
<1>1. W \in Seq(Nat) /\ Sorted(W) /\ Elements(W) = InWrite
  BY <1>0, ElementsAlone DEF InWrite
<1>2. /\ H \in Seq(Nat) /\ Sorted(H)
      /\ Elements(H) = IF drain = "push" THEN {hand} ELSE {}
  BY <1>0, ElementsAlone
<1> HIDE DEF W, H
<1>3. /\ written \o W \in Seq(Nat) /\ Sorted(written \o W)
      /\ Elements(written \o W) = Elements(written) \cup InWrite
  BY <1>0, <1>1, ElementsJoined DEF RepliesInOrder
<1>4. /\ (written \o W) \o fifo \in Seq(Nat) /\ Sorted((written \o W) \o fifo)
      /\ Elements((written \o W) \o fifo) = (Elements(written) \cup InWrite) \cup Elements(fifo)
  <2>1. Below(Elements(written \o W), Elements(fifo))
    BY <1>0, <1>3 DEF RepliesInOrder, Below
  <2> QED
    BY <1>0, <1>3, <2>1, ElementsJoined DEF RepliesInOrder
<1>5. /\ ((written \o W) \o fifo) \o H \in Seq(Nat) /\ Sorted(((written \o W) \o fifo) \o H)
      /\ Elements(((written \o W) \o fifo) \o H)
            = ((Elements(written) \cup InWrite) \cup Elements(fifo)) \cup Elements(H)
  <2>1. Below(Elements((written \o W) \o fifo), Elements(H))
    <3>1. CASE drain = "push"
      <4>1. \A n \in 1 .. Decided : n < hand
        BY <1>0, <3>1 DEF RepliesInOrder, Decided
      <4> QED
        BY <1>0, <1>2, <1>4, <3>1, <4>1 DEF RepliesInOrder, Below
    <3>2. CASE drain # "push"
      BY <1>2, <3>2 DEF Below
    <3> QED
      BY <3>1, <3>2
  <2> QED
    BY <1>2, <1>4, <2>1, ElementsJoined
<1>6. Underway = ((written \o W) \o fifo) \o H
  BY DEF Underway, W, H
<1>7. 1 .. emitted = 1 .. Decided \cup Elements(H)
  BY <1>0, <1>2 DEF RepliesInOrder, Decided
<1> QED
  BY <1>0, <1>5, <1>6, <1>7 DEF RepliesFound

\* No reply of the emulator overtakes another or is displaced, and none is missing
\* while replies are forwarded but those that found no slot; and while the interface
\* rests a screen it has not drawn has a nudge on its way.
THEOREM NoneLost == Spec => []NothingIsLost
<1>1. TermInv => NothingIsLost
  <2> SUFFICES ASSUME TermInv PROVE NothingIsLost
    OBVIOUS
  <2>1. TypeOK /\ NoLostOutput
    BY DEF TermInv
  <2>2. \A i, j \in 1 .. Len(Underway) : i < j => Underway[i] < Underway[j]
    BY UnderwayMeans DEF Sorted
  <2>3. writer # "done" =>
           1 .. emitted = lost \cup {Underway[i] : i \in 1 .. Len(Underway)}
    BY UnderwayMeans DEF Elements
  <2> QED
    BY <2>1, <2>2, <2>3 DEF NothingIsLost, RepliesKept
<1> QED
  BY TermInvariance, <1>1, PTL

==============================================================================
