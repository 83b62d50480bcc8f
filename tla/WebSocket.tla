------------------------------- MODULE WebSocket -------------------------------
(***************************************************************************)
(* An upgraded WebSocket connection (internal/protocol/websocket.go) from  *)
(* the registration of its session to the return of its handler: one pump  *)
(* per direction, frames injected by the UI, and the handler that ends the *)
(* session when either pump does.                                          *)
(*                                                                         *)
(* Frames are written in two halves, because a write to a buffered         *)
(* connection may reach the wire in pieces.                                *)
(***************************************************************************)
EXTENDS Naturals, Sequences

CONSTANTS
    Sends,      \* number of frames the source of each pump may send
    MaxInject,  \* number of frames the operator may inject
    Kinds       \* the kinds of frames that are sent, of those there are

Pumps == {"c2s", "s2c"}
Peers == {"client", "server"}
Writers == Pumps \cup {"inject"}

Source == [d \in Pumps |-> IF d = "c2s" THEN "client" ELSE "server"]
Sink == [d \in Pumps |-> IF d = "c2s" THEN "server" ELSE "client"]

\* A data frame is a whole message or an end of a fragmented one.
DataKinds == {"whole", "begin", "end"}
AllKinds == DataKinds \cup {"ping", "close"}

ASSUME WebSocketAssumption ==
    /\ Sends \in [Pumps -> Nat]
    /\ MaxInject \in Nat
    /\ Kinds \subseteq AllKinds

VARIABLES
    phase,      \* the handler: "open", "closing" (one pump is done), "returned"
    registered, \* the engine has the session
    status,     \* capture.Status of the flow
    messages,   \* Flow.Messages: the data frames recorded, as they were read
    gone,       \* the peers that hung up
    closed,     \* closeUpgradeConnections ran
    pc,         \* where each writer is
    frame,      \* the frame each writer has in hand
    to,         \* the peer each writer writes to
    lock,       \* cmu and smu: the writer that holds each peer's mutex
    wire,       \* what was written to each peer
    broken,     \* peers a write failed to: their buffered writers fail for good
    read,       \* how many frames each pump read (each writer began)
    fragmented, \* the last data frame a pump read was not the end of a message
    dropped     \* the frames the operator dropped

flowVars == <<registered, status, messages>>
connVars == <<gone, closed>>
writerVars == <<pc, frame, to, lock, wire, broken>>
historyVars == <<read, fragmented, dropped>>
vars == <<phase, flowVars, connVars, writerVars, historyVars>>

Frame == [by : Writers, n : Nat, kind : AllKinds, text : {"original", "edited"}]
NoFrame == [by |-> "none", n |-> 0, kind |-> "none", text |-> "original"]

Writing == {"lock", "first", "second"}

Init ==
    /\ phase = "open"
    /\ registered = TRUE
    /\ status = "active"
    /\ messages = <<>>
    /\ gone = {}
    /\ closed = FALSE
    /\ pc = [w \in Writers |-> IF w = "inject" THEN "idle" ELSE "read"]
    /\ frame = [w \in Writers |-> NoFrame]
    /\ to = [w \in Writers |-> IF w = "s2c" THEN "client" ELSE "server"]
    /\ lock = [p \in Peers |-> "none"]
    /\ wire = [p \in Peers |-> <<>>]
    /\ broken = {}
    /\ read = [w \in Writers |-> 0]
    /\ fragmented = [d \in Pumps |-> FALSE]
    /\ dropped = {}

-----------------------------------------------------------------------------
(* A pump (pumpWS).                                                        *)

\* The frames a conforming peer may send next.
Legal(d, kind) ==
    /\ kind = "end" => fragmented[d]
    /\ kind \in {"whole", "begin"} => ~ fragmented[d]

\* A frame is read, possibly one that was buffered before its connection ended.
\* A data frame is recorded; one for the server may be held by the engine
\* before it is written.
Read(d, kind, held) ==
    /\ pc[d] = "read"
    /\ read[d] < Sends[d]
    /\ Legal(d, kind)
    /\ held => d = "c2s" /\ kind \in DataKinds
    /\ LET fr == [by |-> d, n |-> read[d] + 1, kind |-> kind, text |-> "original"]
       IN  /\ frame' = [frame EXCEPT ![d] = fr]
           /\ messages' = IF kind \in DataKinds THEN Append(messages, fr) ELSE messages
    /\ read' = [read EXCEPT ![d] = @ + 1]
    /\ fragmented' = [fragmented EXCEPT ![d] =
                         IF kind \in DataKinds THEN kind = "begin" ELSE @]
    /\ pc' = [pc EXCEPT ![d] = IF held THEN "held" ELSE "lock"]
    /\ status' = IF held THEN "pending" ELSE status
    /\ UNCHANGED <<phase, registered, connVars, to, lock, wire, broken, dropped>>

\* The operator's verdict; the engine makes the flow active again.
Forward(d, text) ==
    /\ pc[d] = "held"
    /\ frame' = [frame EXCEPT ![d].text = text]
    /\ pc' = [pc EXCEPT ![d] = "lock"]
    /\ status' = "active"
    /\ UNCHANGED <<phase, registered, messages, connVars, to, lock, wire, broken,
                   historyVars>>

Drop(d) ==
    /\ pc[d] = "held"
    /\ dropped' = dropped \cup {frame[d]}
    /\ pc' = [pc EXCEPT ![d] = "read"]
    /\ status' = "active"
    /\ UNCHANGED <<phase, registered, messages, connVars, frame, to, lock, wire,
                   broken, read, fragmented>>

\* The read fails: the peer hung up, or the connections were closed.
ReadFails(d) ==
    /\ pc[d] = "read"
    /\ Source[d] \in gone \/ closed
    /\ pc' = [pc EXCEPT ![d] = "done"]
    /\ UNCHANGED <<phase, flowVars, connVars, frame, to, lock, wire, broken, historyVars>>

-----------------------------------------------------------------------------
(* Writing a frame (writeToClient, writeToServer).                         *)

\* Mutation: the writers do not exclude each other.
LockNothing(w) ==
    /\ pc[w] = "lock"
    /\ pc' = [pc EXCEPT ![w] = "first"]
    /\ UNCHANGED <<phase, flowVars, connVars, frame, to, lock, wire, broken, historyVars>>

Lock(w) ==
    /\ pc[w] = "lock"
    /\ lock[to[w]] = "none"
    /\ lock' = [lock EXCEPT ![to[w]] = w]
    /\ pc' = [pc EXCEPT ![w] = "first"]
    /\ UNCHANGED <<phase, flowVars, connVars, frame, to, wire, broken, historyVars>>

\* A piece of w's frame reaches the wire, or its connection's buffer.
Put(w, half) ==
    /\ ~ closed /\ to[w] \notin broken
    /\ wire' = [wire EXCEPT ![to[w]] = Append(@, [frame |-> frame[w], half |-> half])]

WriteFirst(w) ==
    /\ pc[w] = "first"
    /\ Put(w, 1)
    /\ pc' = [pc EXCEPT ![w] = "second"]
    /\ UNCHANGED <<phase, flowVars, connVars, frame, to, lock, broken, historyVars>>

\* Where a writer goes from its write: an injection is over, and so is a pump
\* that failed or has passed a close frame on.
After(w, failed) ==
    IF w = "inject" THEN "idle"
    ELSE IF failed \/ frame[w].kind = "close" THEN "done" ELSE "read"

\* Mutation: a pump whose write was lost carries on with the next frame.
EndWriteIgnoring(w, failed) ==
    /\ lock' = [lock EXCEPT ![to[w]] = "none"]
    /\ pc' = [pc EXCEPT ![w] = After(w, FALSE)]

Unlock(w, failed) == [lock EXCEPT ![to[w]] = "none"]

\* The deferred unlock runs however the write ends.
EndWrite(w, failed) ==
    /\ lock' = Unlock(w, failed)
    /\ pc' = [pc EXCEPT ![w] = After(w, failed)]

WriteSecond(w) ==
    /\ pc[w] = "second"
    /\ Put(w, 2)
    /\ EndWrite(w, FALSE)
    /\ UNCHANGED <<phase, flowVars, connVars, frame, to, broken, historyVars>>

\* A write to a peer that hung up may fail; one to a closed connection, or
\* after one that failed, must.
WriteFails(w) ==
    /\ pc[w] \in {"first", "second"}
    /\ to[w] \in gone \cup broken \/ closed
    /\ EndWrite(w, TRUE)
    /\ broken' = broken \cup {to[w]}
    /\ UNCHANGED <<phase, flowVars, connVars, frame, to, wire, historyVars>>

-----------------------------------------------------------------------------
(* Injection (doInject, Inject).                                           *)

\* The session is looked up and used without the engine's lock in between, so
\* that it may end at any time after this.
Inject(p) ==
    /\ pc["inject"] = "idle"
    /\ registered
    /\ read["inject"] < MaxInject
    /\ read' = [read EXCEPT !["inject"] = @ + 1]
    /\ frame' = [frame EXCEPT !["inject"] =
                    [by |-> "inject", n |-> read["inject"] + 1,
                     kind |-> "whole", text |-> "original"]]
    /\ to' = [to EXCEPT !["inject"] = p]
    /\ pc' = [pc EXCEPT !["inject"] = "lock"]
    /\ UNCHANGED <<phase, flowVars, connVars, lock, wire, broken, fragmented, dropped>>

-----------------------------------------------------------------------------
(* The handler and the peers (handleWebSocket).                            *)

HangUp(p) ==
    /\ p \notin gone
    /\ gone' = gone \cup {p}
    /\ UNCHANGED <<phase, flowVars, closed, writerVars, historyVars>>

\* Mutation: the opposite pump is not interrupted.
WaitForBoth ==
    /\ phase = "open"
    /\ \E d \in Pumps : pc[d] = "done"
    /\ phase' = "closing"
    /\ UNCHANGED <<flowVars, connVars, writerVars, historyVars>>

\* The first pump to finish closes both connections.
Close ==
    /\ phase = "open"
    /\ \E d \in Pumps : pc[d] = "done"
    /\ phase' = "closing"
    /\ closed' = TRUE
    /\ UNCHANGED <<flowVars, gone, writerVars, historyVars>>

\* Mutation: the handler does not wait for the second pump.
ReturnEarly ==
    /\ phase = "closing"
    /\ phase' = "returned"
    /\ status' = "complete"
    /\ registered' = FALSE
    /\ UNCHANGED <<messages, connVars, writerVars, historyVars>>

\* The second pump finishes; the session is withdrawn as the handler returns.
Return ==
    /\ phase = "closing"
    /\ \A d \in Pumps : pc[d] = "done"
    /\ phase' = "returned"
    /\ status' = IF status \in {"active", "pending"} THEN "complete" ELSE status
    /\ registered' = FALSE
    /\ UNCHANGED <<messages, connVars, writerVars, historyVars>>

-----------------------------------------------------------------------------
Answer(d) == Drop(d) \/ \E text \in {"original", "edited"} : Forward(d, text)

Write(w) == Lock(w) \/ WriteFirst(w) \/ WriteSecond(w) \/ WriteFails(w)

Next ==
    \/ \E d \in Pumps :
          \/ \E kind \in Kinds, held \in BOOLEAN : Read(d, kind, held)
          \/ Answer(d) \/ ReadFails(d)
    \/ \E w \in Writers : Write(w)
    \/ \E p \in Peers : Inject(p) \/ HangUp(p)
    \/ Close \/ Return

Spec == Init /\ [][Next]_vars

\* The pumps and the handler run, a failed connection is noticed, mutexes are
\* granted in turn, and the operator answers.
FairSpec ==
    /\ Spec
    /\ \A d \in Pumps : WF_vars(ReadFails(d)) /\ WF_vars(Answer(d))
    /\ \A w \in Writers :
          /\ SF_vars(Lock(w))
          /\ WF_vars(WriteFirst(w) \/ WriteSecond(w) \/ WriteFails(w))
    /\ WF_vars(Close) /\ WF_vars(Return)

-----------------------------------------------------------------------------
(* Properties.                                                             *)

Half == [frame : Frame, half : {1, 2}]

TypeOK ==
    /\ phase \in {"open", "closing", "returned"}
    /\ registered \in BOOLEAN
    /\ status \in {"active", "pending", "complete"}
    /\ messages \in Seq(Frame)
    /\ gone \subseteq Peers
    /\ closed \in BOOLEAN
    /\ DOMAIN pc = Writers
    /\ pc["inject"] \in Writing \cup {"idle"}
    /\ \A d \in Pumps : pc[d] \in Writing \cup {"read", "held", "done"}
    /\ frame \in [Writers -> Frame \cup {NoFrame}]
    /\ to \in [Writers -> Peers]
    /\ lock \in [Peers -> Writers \cup {"none"}]
    /\ wire \in [Peers -> Seq(Half)]
    /\ broken \subseteq Peers
    /\ read \in [Writers -> Nat]
    /\ fragmented \in [Pumps -> BOOLEAN]
    /\ dropped \subseteq Frame

\* The state is well typed, and every frame on the wire is whole: its two halves follow each other, except
\* that the last write may have been cut (wsSession: "never interleave and
\* corrupt the stream").
FramesWhole ==
    /\ TypeOK
    /\ \A p \in Peers : \A i \in DOMAIN wire[p] :
          /\ wire[p][i].half = 1 /\ i < Len(wire[p]) =>
                wire[p][i + 1] = [wire[p][i] EXCEPT !.half = 2]
          /\ wire[p][i].half = 2 =>
                i > 1 /\ wire[p][i - 1] = [wire[p][i] EXCEPT !.half = 1]

\* A half on a wire completes a frame of pump d.
Completes(h, d) == h.frame.by = d /\ h.half = 2

\* The numbers of the frames of pump d that were written completely.
Delivered(d) ==
    LET s == wire[Sink[d]]
    IN  {s[i].frame.n : i \in {j \in DOMAIN s : Completes(s[j], d)}}

\* The numbers of those the operator dropped.
Out(d) == {fr.n : fr \in {x \in dropped : x.by = d}}

\* What pump d has read and is neither dropped nor in its hand.
InHand(d) == pc[d] \in Writing \cup {"held"}

Due(d) == (1 .. read[d]) \ (Out(d) \cup IF InHand(d) THEN {read[d]} ELSE {})

\* While its connection works, a pump delivers exactly the frames it read and
\* the operator did not drop, each once and in the order it read them, whatever
\* was injected in between; one that stopped has lost at most the last it read
\* (pumpWS).
DeliveredInOrder ==
    \A d \in Pumps :
        LET s == wire[Sink[d]]
        IN  /\ \A i, j \in DOMAIN s : i < j /\ Completes(s[i], d) /\ Completes(s[j], d) =>
                  s[i].frame.n < s[j].frame.n
            /\ Delivered(d) \subseteq Due(d)
            /\ Due(d) \ Delivered(d) \subseteq IF pc[d] = "done" THEN {read[d]} ELSE {}

\* A handler that returned leaves a finished flow and no session that the
\* operator could still inject into; no pause outlives it (handleWebSocket).
ReturnsFinished ==
    phase = "returned" =>
        /\ status = "complete"
        /\ ~ registered
        /\ \A d \in Pumps : pc[d] = "done"

\* When either peer hangs up the handler comes to return, a silent peer and a
\* held frame notwithstanding ("a silent peer cannot keep the Flow active
\* forever").
EndsWithPeer == gone # {} ~> phase = "returned"

\* An injection always comes back to the operator, also when the session ends
\* or fails under it (the deferred unlocks of wsSession).
InjectionEnds == pc["inject"] = "lock" ~> pc["inject"] = "idle"

\* Neither the handler nor the operator's interface is left behind by a session
\* whose peer hangs up or whose write fails (websocket.go:25-41, 120-135).
SessionEnds == EndsWithPeer /\ InjectionEnds

\* What Flow.Messages holds of a frame that was written is what was written
\* (Message.Raw: "exactly as it went (or will go) on the wire").  The code does
\* not keep this: an edit changes the payload after the frame was recorded.
RecordedAsSent ==
    \A i \in DOMAIN messages : \A p \in Peers : \A j \in DOMAIN wire[p] :
        LET fr == wire[p][j].frame
        IN  fr.by = messages[i].by /\ fr.n = messages[i].n => fr = messages[i]

\* No injected data frame separates the fragments of a message (wsSession: "any
\* injected frame never interleave and corrupt the stream").  The code does not
\* keep this: the mutexes guard single frames.
InjectionBetweenMessages ==
    \A p \in Peers : \A i, k \in DOMAIN wire[p] :
        /\ wire[p][i].frame.kind = "begin"
        /\ wire[p][k].frame.kind = "end"
        /\ wire[p][i].frame.n + 1 = wire[p][k].frame.n
        => \A j \in i .. k : wire[p][j].frame.by # "inject"

==============================================================================
