------------------------------ MODULE Terminal ------------------------------
(***************************************************************************)
(* The left pane: the child's PTY, the emulator behind its lock, the two   *)
(* goroutines that carry the emulator's replies back to the child, the     *)
(* user interface that types into the PTY and draws the screen, and the    *)
(* way all of it ends.                                                     *)
(*                                                                         *)
(* Five threads of control meet here.  pumpPTY feeds the child's output to *)
(* the emulator under mu; a query in that output makes the emulator write  *)
(* its reply, still under mu, into a pipe without a buffer, which          *)
(* pumpReplies alone reads.  forwardReplies writes what pumpReplies queued *)
(* to the PTY.  The user interface takes mu to encode a key, to forward a  *)
(* mouse event and to draw, and writes keys to the PTY without it.  When   *)
(* the program ends the main goroutine closes the emulator and then the    *)
(* target.  The child may stop reading at any time.                        *)
(*                                                                         *)
(* A reply is the number of its emission; what the replies, the keys and   *)
(* the screen contain is left out.                                         *)
(***************************************************************************)
EXTENDS Naturals, Sequences

CONSTANTS
    ReplySlots,   \* replyFIFOSize
    InCap,        \* writes the kernel takes for the child before one blocks
    MaxChunks,    \* chunks of the child's output
    MaxAsks,      \* queries in one chunk
    MaxInputs     \* keys typed and mouse events over the pane

ASSUME BoundsAssumption ==
    /\ ReplySlots \in Nat \ {0} /\ InCap \in Nat \ {0}
    /\ MaxChunks \in Nat /\ MaxAsks \in Nat /\ MaxInputs \in Nat

VARIABLES
    child,      \* "running", "gone"
    master,     \* "open", "closed": our end of the PTY
    inq,        \* writes on their way to the child
    mu,         \* who holds VT.mu
    asks,       \* replies the holder of mu still has to write to the pipe
    pump,       \* pumpPTY
    chunk,      \* queries in the chunk pumpPTY holds
    drain,      \* pumpReplies
    hand,       \* the reply pumpReplies has read
    fifo,       \* VT.replies
    writer,     \* forwardReplies
    reply,      \* the reply forwardReplies has taken
    closed,     \* VT.closed, with stop and the reply pipe closed
    notify,     \* the channel between pumpPTY and the user interface is full
    wait,       \* the command waitPty: to be started, waiting on it, ready to report
    ui,         \* the user interface's goroutine
    quit,       \* prog.Quit was called
    closer,     \* the main goroutine, from the end of runProgram
    count,      \* bounds: chunks written, keys and mouse events
    emitted,    \* replies written to the pipe
    written,    \* replies written to the PTY, in order
    lost,       \* replies dropped because the queue was full
    stale       \* the screen is no longer the one that was drawn last

ptyVars == <<child, master, inq>>
replyVars == <<drain, hand, fifo, writer, reply, written, lost>>
uiVars == <<notify, wait, ui, quit, stale>>
vars == <<ptyVars, mu, asks, pump, chunk, replyVars, closed, uiVars, closer,
          count, emitted>>

TypeOK ==
    /\ child \in {"running", "gone"} /\ master \in {"open", "closed"}
    /\ inq \in 0 .. InCap
    /\ mu \in {"free", "pump", "ui"} /\ asks \in Nat
    /\ pump \in {"read", "lock", "feed", "nudge", "done"}
    /\ chunk \in 0 .. MaxAsks
    /\ drain \in {"read", "push", "done"} /\ hand \in Nat
    /\ fifo \in Seq(Nat) /\ Len(fifo) <= ReplySlots
    /\ writer \in {"idle", "write", "done"} /\ reply \in Nat
    /\ closed \in BOOLEAN /\ notify \in BOOLEAN /\ wait \in {"starting", "waiting", "ready"}
    /\ ui \in {"idle", "encode", "keys", "mouse", "send", "render", "stopped"}
    /\ quit \in BOOLEAN
    /\ closer \in {"run", "lock", "wait", "kill", "ended"}
    /\ count \in [chunks : 0 .. MaxChunks, inputs : 0 .. MaxInputs]
    /\ emitted \in Nat /\ written \in Seq(Nat) /\ lost \subseteq Nat
    /\ stale \in BOOLEAN

Init ==
    /\ child = "running" /\ master = "open" /\ inq = 0
    /\ mu = "free" /\ asks = 0 /\ pump = "read" /\ chunk = 0
    /\ drain = "read" /\ hand = 0 /\ fifo = <<>>
    /\ writer = "idle" /\ reply = 0 /\ closed = FALSE
    /\ notify = FALSE /\ wait = "waiting" /\ ui = "idle"
    /\ quit = FALSE /\ closer = "run"
    /\ count = [chunks |-> 0, inputs |-> 0]
    /\ emitted = 0 /\ written = <<>> /\ lost = {} /\ stale = FALSE

-----------------------------------------------------------------------------
(* The child.  It reads when it likes, or never again. *)

ChildReads ==
    /\ child = "running" /\ inq > 0
    /\ inq' = inq - 1
    /\ UNCHANGED <<child, master, mu, asks, pump, chunk, replyVars, closed,
                   uiVars, closer, count, emitted>>

ChildExits ==
    /\ child = "running"
    /\ child' = "gone"
    /\ UNCHANGED <<master, inq, mu, asks, pump, chunk, replyVars, closed,
                   uiVars, closer, count, emitted>>

\* A write to the PTY finds nobody on the other side, or our side closed.
PtyFails == child = "gone" \/ master = "closed"

-----------------------------------------------------------------------------
(* pumpPTY. *)

\* A chunk the child wrote, n queries in it, perhaps just before it was gone.
PumpRead(n) ==
    /\ pump = "read" /\ master = "open"
    /\ count.chunks < MaxChunks
    /\ pump' = "lock" /\ chunk' = n
    /\ count' = [count EXCEPT !.chunks = @ + 1]
    /\ UNCHANGED <<ptyVars, mu, asks, replyVars, closed, uiVars, closer, emitted>>

PumpReadFails ==
    /\ pump = "read" /\ PtyFails
    /\ pump' = "done"
    /\ UNCHANGED <<ptyVars, mu, asks, chunk, replyVars, closed, uiVars, closer,
                   count, emitted>>

\* VT.Write gets mu.  After Close it returns without touching the emulator.
PumpLock ==
    /\ pump = "lock" /\ mu = "free"
    /\ chunk' = 0
    /\ IF closed
       THEN pump' = "nudge" /\ UNCHANGED <<mu, asks>>
       ELSE pump' = "feed" /\ mu' = "pump" /\ asks' = chunk
    /\ UNCHANGED <<ptyVars, replyVars, closed, uiVars, closer, count, emitted>>

\* The chunk is on the screen and its queries are answered.
PumpUnlock ==
    /\ pump = "feed" /\ asks = 0
    /\ pump' = "nudge" /\ mu' = "free" /\ stale' = TRUE
    /\ UNCHANGED <<ptyVars, asks, chunk, replyVars, closed, notify, wait, ui,
                   quit, closer, count, emitted>>

\* The send that never waits, into a channel of one.
PumpNudge ==
    /\ pump = "nudge"
    /\ pump' = "read" /\ notify' = TRUE
    /\ UNCHANGED <<ptyVars, mu, asks, chunk, replyVars, closed, wait, ui,
                   quit, stale, closer, count, emitted>>

-----------------------------------------------------------------------------
(* The replies. *)

\* The holder of mu writes a reply to the pipe at the moment pumpReplies reads it.
Emit ==
    /\ mu # "free" /\ asks > 0 /\ drain = "read"
    /\ asks' = asks - 1 /\ emitted' = emitted + 1
    /\ drain' = "push" /\ hand' = emitted + 1
    /\ UNCHANGED <<ptyVars, mu, pump, chunk, fifo, writer, reply, written, lost,
                   closed, uiVars, closer, count>>

\* Mutation: pumpReplies waits for a slot instead.
PushOrWait ==
    /\ drain = "push" /\ Len(fifo) < ReplySlots
    /\ drain' = "read" /\ hand' = 0 /\ fifo' = Append(fifo, hand)
    /\ UNCHANGED <<ptyVars, mu, asks, pump, chunk, writer, reply, written, lost,
                   closed, uiVars, closer, count, emitted>>

\* Mutation: the oldest reply makes room for the newest.
PushOut ==
    /\ drain = "push" /\ drain' = "read" /\ hand' = 0
    /\ IF Len(fifo) < ReplySlots
       THEN fifo' = Append(fifo, hand) /\ UNCHANGED lost
       ELSE fifo' = Append(Tail(fifo), hand) /\ lost' = lost \cup {hand}
    /\ UNCHANGED <<ptyVars, mu, asks, pump, chunk, writer, reply, written, closed,
                   uiVars, closer, count, emitted>>

\* pumpReplies queues what it read, or drops it when no slot is free.
Push ==
    /\ drain = "push" /\ drain' = "read" /\ hand' = 0
    /\ IF Len(fifo) < ReplySlots
       THEN fifo' = Append(fifo, hand) /\ UNCHANGED lost
       ELSE lost' = lost \cup {hand} /\ UNCHANGED fifo
    /\ UNCHANGED <<ptyVars, mu, asks, pump, chunk, writer, reply, written, closed,
                   uiVars, closer, count, emitted>>

\* The pipe is closed: pumpReplies reads its end and returns.
DrainEnds ==
    /\ drain = "read" /\ closed
    /\ drain' = "done"
    /\ UNCHANGED <<ptyVars, mu, asks, pump, chunk, hand, fifo, writer, reply,
                   written, lost, closed, uiVars, closer, count, emitted>>

\* forwardReplies takes a reply, having looked at stop before and after.
WriterTakes ==
    /\ writer = "idle" /\ ~closed /\ fifo # <<>>
    /\ writer' = "write" /\ reply' = Head(fifo) /\ fifo' = Tail(fifo)
    /\ UNCHANGED <<ptyVars, mu, asks, pump, chunk, drain, hand, written, lost,
                   closed, uiVars, closer, count, emitted>>

\* The write returns: in full, once the kernel has room, or with an error that
\* ends the goroutine.
WriterWrites ==
    /\ writer = "write" /\ reply' = 0
    /\ \/ /\ ~PtyFails /\ inq < InCap
          /\ inq' = inq + 1 /\ written' = Append(written, reply)
          /\ writer' = "idle"
       \/ /\ PtyFails
          /\ writer' = "done" /\ UNCHANGED <<inq, written>>
    /\ UNCHANGED <<child, master, mu, asks, pump, chunk, drain, hand, fifo,
                   lost, closed, uiVars, closer, count, emitted>>

WriterStops ==
    /\ writer = "idle" /\ closed
    /\ writer' = "done"
    /\ UNCHANGED <<ptyVars, mu, asks, pump, chunk, drain, hand, fifo, reply,
                   written, lost, closed, uiVars, closer, count, emitted>>

-----------------------------------------------------------------------------
(* The user interface: one goroutine that handles a message and then draws. *)

uiRest == <<ptyVars, asks, pump, chunk, replyVars, closed, closer, emitted>>

\* The command returned by Update runs in a goroutine of its own.
WaiterStarts ==
    /\ wait = "starting" /\ wait' = "waiting"
    /\ UNCHANGED <<uiRest, mu, notify, ui, quit, stale, count>>

\* waitPty receives from the channel and will hand its message to the loop.
Waiter ==
    /\ wait = "waiting" /\ notify
    /\ wait' = "ready" /\ notify' = FALSE
    /\ UNCHANGED <<uiRest, mu, ui, quit, stale, count>>

\* The loop receives ptyMsg, starts waitPty again and draws.
UpdatePty ==
    /\ ui = "idle" /\ wait = "ready"
    /\ wait' = "starting" /\ ui' = "render"
    /\ UNCHANGED <<uiRest, mu, notify, quit, stale, count>>

\* A key for the child.  An arrow or a paste is encoded under mu first.
PressKey ==
    /\ ui = "idle" /\ count.inputs < MaxInputs
    /\ ui' \in {"encode", "keys"}
    /\ count' = [count EXCEPT !.inputs = @ + 1]
    /\ UNCHANGED <<uiRest, mu, notify, wait, quit, stale>>

\* CursorKeyBytes and PasteBytes take mu and give it back at once.
EncodeKey ==
    /\ ui = "encode" /\ mu = "free"
    /\ ui' = "keys"
    /\ UNCHANGED <<uiRest, mu, notify, wait, quit, stale, count>>

\* The write of the key to the PTY, on the user interface's own goroutine.
WriteKey ==
    /\ ui = "keys" /\ ui' = "render"
    /\ \/ ~PtyFails /\ inq < InCap /\ inq' = inq + 1
       \/ PtyFails /\ UNCHANGED inq
    /\ UNCHANGED <<child, master, asks, pump, chunk, replyVars, closed, closer,
                   emitted, mu, notify, wait, quit, stale, count>>

\* A mouse event over the pane.
MoveMouse ==
    /\ ui = "idle" /\ count.inputs < MaxInputs
    /\ ui' = "mouse"
    /\ count' = [count EXCEPT !.inputs = @ + 1]
    /\ UNCHANGED <<uiRest, mu, notify, wait, quit, stale>>

\* ForwardMouse has mu; SendMouse writes one report if the child asked for them.
SendMouse ==
    /\ ui = "mouse" /\ mu = "free"
    /\ ui' = "send" /\ mu' = "ui" /\ asks' \in {0, 1}
    /\ UNCHANGED <<ptyVars, pump, chunk, replyVars, closed, closer, emitted,
                   notify, wait, quit, stale, count>>

MouseSent ==
    /\ ui = "send" /\ asks = 0
    /\ ui' = "render" /\ mu' = "free"
    /\ UNCHANGED <<uiRest, notify, wait, quit, stale, count>>

\* View draws the emulator's screen under mu.
Draw ==
    /\ ui = "render" /\ mu = "free"
    /\ ui' = "idle" /\ stale' = FALSE
    /\ UNCHANGED <<uiRest, mu, notify, wait, quit, count>>

-----------------------------------------------------------------------------
(* The end. *)

\* The operator or a signal asks for the end, or the child is gone.
AskQuit ==
    /\ ~quit /\ quit' = TRUE
    /\ UNCHANGED <<uiRest, mu, notify, wait, ui, stale, count>>

ChildGoneQuits ==
    /\ child = "gone" /\ ~quit /\ quit' = TRUE
    /\ UNCHANGED <<uiRest, mu, notify, wait, ui, stale, count>>

\* The loop receives the quit message; runProgram returns.
UpdateQuit ==
    /\ ui = "idle" /\ quit
    /\ ui' = "stopped" /\ closer' = "lock"
    /\ UNCHANGED <<ptyVars, asks, pump, chunk, replyVars, closed, emitted,
                   mu, notify, wait, quit, stale, count>>

closerRest == <<mu, asks, pump, chunk, replyVars, uiVars, count, emitted>>

CloseLock ==
    /\ closer = "lock" /\ mu = "free"
    /\ closed' = TRUE /\ closer' = "wait"
    /\ UNCHANGED <<closerRest, ptyVars>>

CloseWaited ==
    /\ closer = "wait" /\ drain = "done" /\ writer = "done"
    /\ closer' = "kill"
    /\ UNCHANGED <<closerRest, ptyVars, closed>>

\* Mutation: Close waits for both goroutines however long they take.
NoGrace == closer = "grace" /\ UNCHANGED vars

\* closeGrace has passed.
CloseGraceOver ==
    /\ closer = "wait"
    /\ closer' = "kill"
    /\ UNCHANGED <<closerRest, ptyVars, closed>>

\* Target.Close kills the child and closes our end of the PTY.
CloseTarget ==
    /\ closer = "kill"
    /\ closer' = "ended" /\ child' = "gone" /\ master' = "closed"
    /\ UNCHANGED <<closerRest, inq, closed>>

-----------------------------------------------------------------------------
(***************************************************************************)
(* Go runs a goroutine as long as one can run, and the timer of Close goes *)
(* off.  Nothing is assumed of the child, the operator or signals.  As the *)
(* model bounds what they do, every behaviour comes to rest, and to rest   *)
(* where a goroutine could go on is the only thing this excludes.          *)
(***************************************************************************)
Goroutines ==
    \/ PumpReadFails \/ PumpLock \/ PumpUnlock \/ PumpNudge
    \/ Emit \/ Push \/ DrainEnds \/ WriterTakes \/ WriterWrites \/ WriterStops
    \/ WaiterStarts \/ Waiter \/ UpdatePty \/ EncodeKey \/ WriteKey \/ SendMouse \/ MouseSent \/ Draw
    \/ ChildGoneQuits \/ UpdateQuit
    \/ CloseLock \/ CloseWaited \/ CloseGraceOver \/ CloseTarget

Next ==
    \/ ChildReads \/ ChildExits \/ AskQuit
    \/ \E n \in 0 .. MaxAsks : PumpRead(n)
    \/ PressKey \/ MoveMouse
    \/ Goroutines

Fairness == WF_vars(Goroutines)

Spec == Init /\ [][Next]_vars /\ Fairness

-----------------------------------------------------------------------------
(* Properties. *)

\* What is on its way back to the child, oldest first.
Underway ==
    written \o (IF writer = "write" THEN <<reply>> ELSE <<>>) \o fifo
            \o (IF drain = "push" THEN <<hand>> ELSE <<>>)

\* vt.go:128-131: every reply of the emulator is written to the child, queued, or
\* was the newest when all the slots were taken; none overtakes another and none
\* is displaced, whatever the child does.  A failed write and Close, which end
\* forwarding, are the only other ways to lose one.
RepliesKept ==
    /\ TypeOK
    /\ \A i, j \in 1 .. Len(Underway) : i < j => Underway[i] < Underway[j]
    /\ writer # "done" =>
          1 .. emitted = lost \cup {Underway[i] : i \in 1 .. Len(Underway)}

\* main.go:391-393: nudges are coalesced, but while the interface rests, a screen that is not the one drawn has a nudge on its way.
NoLostOutput ==
    ui = "idle" /\ stale =>
        pump = "nudge" \/ notify \/ wait = "ready"

\* Between child and screen nothing is lost in either direction but what the code
\* gives up on purpose (vt.go:134-157, main.go:400-407).
NothingIsLost == RepliesKept /\ NoLostOutput

\* vt.go:122-127: mu is given back although the child never reads again, so the
\* replies of the emulator cannot freeze the interface or the pump.
LockIsReleased == \A p \in {"pump", "ui"} : mu = p ~> mu # p

\* Output reaches the eye: drawn, unless the program ends or the
\* interface itself is stuck writing a key to a child that does not read.
OutputIsDrawn ==
    stale ~> ~stale \/ ui \in {"keys", "stopped"}

\* model.go:494: keys are written by the goroutine of the interface.  A child that
\* keeps reading gets them and the interface goes on, with replies competing.
KeysGetThrough == WF_vars(ChildReads) => (ui = "keys" ~> ui # "keys")

\* The interface is not held up by the emulator, the pump or the child, while that
\* one reads.
InterfaceGoesOn == LockIsReleased /\ OutputIsDrawn /\ KeysGetThrough

\* vt.go:206-216: Close returns and the target is killed although a reply is stuck
\* in a write to the PTY; then no goroutine of the pane is left.
ClosingEnds ==
    closer = "lock" ~> /\ closer = "ended"
                       /\ pump = "done" /\ drain = "done" /\ writer = "done"

\* vt.go:207-209: a child that does not read must not become a program that cannot
\* be quit.
WedgedChildQuits == quit ~> closer = "ended"
=============================================================================
