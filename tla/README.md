# cli-capture in TLA+

cli-capture runs a command in a pseudo-terminal, sends its traffic through a
proxy of its own, shows every exchange ("flow") in a terminal UI, and lets the
operator hold, edit and drop messages. These modules model the parts in which
several goroutines, two peers that may fail, and one operator meet; TLC checks
them on small instances and TLAPS proves the core for every instance.

Paths below are relative to `internal/` unless they start with `cmd/`.

## 1. The system

| Part | State it keeps | Operations | What has to hold |
|---|---|---|---|
| intercept engine, `intercept/intercept.go` | direction switches, scope, `pending` (token to channel), `pausedByFlow`, the status of flows, live WebSocket sessions | `SetEnabled`, `SetInterceptResponses`, `SetScope`, `BeforeForward`/`BeforeDeliver` (`pause`), `Resolve`, `RegisterWS`/`WSInjector` | a held message is decided once and released with that decision; nobody blocks for ever; the status of a flow says whether one of its messages is held |
| prompt and modal UI, `tui/` | the pause on the prompt, the queue behind it, the open modal, the editor, focus and leader | `Update` on keys, mouse, `pauseMsg`, `eventMsg` | every held message can be reached and answered, in order, and an edit goes to the message it was made for |
| flow store, `capture/store.go` | flows in insertion order, subscribers | `Add`, `Touch`, `List`, `Subscribe` | traffic never waits for the UI and the UI never misses a flow for good |
| HTTP/1 handler, `protocol/http.go` | one exchange and its flow | read, capture, hold, send, read responses, deliver, relay after 101 | the flow's status and contents say what happened on the wire |
| WebSocket session, `protocol/websocket.go` | two connections, a mutex for each | two pumps, injection, close | frames stay whole and in order; the session ends when a peer does |
| HTTP/2 and gRPC stream, `proxy/http2.go` | one stream and its flow | `RoundTrip`, the readers of both bodies | a conversation is not deadlocked by being looked at |
| proxy front end, raw TCP and passthrough, `proxy/proxy.go`, `proxy/conn.go`, `protocol/tcp.go` | two connections, a read deadline | CONNECT, request line or ClientHello probe; policy, handshake, dial; detection by `Peek`, two pumps | every byte goes through once, in order, or was withheld; only hosts in scope are decrypted; silent clients do not stay |
| gRPC framing, `protocol/grpc.go` | a buffer for each direction | observe, tamper, decode, encode | messages do not depend on how the stream is cut |
| scope policy, `scope/` | an ordered rule list, a default | `Eval`, `Build` | the flags mean what they say |
| terminal pane, `terminal/vt.go`, `runner/`, `tui/` | the PTY, the emulator's screen, its lock, a reply queue of 64 | the output pump, two reply goroutines, keys, mouse, drawing, `Close` | a child that does not read freezes nothing but itself; output is drawn; closing ends |
| traffic list, `tui/` | selection, filter, window | draw, click, motions | keys and clicks act on the row the operator sees |
| Repeater and replay, `tui/repeater.go`, `repeater/`, `replay/` | the modal, commands in flight | send, attack, resend | every job leaves one flow that says what it sent; a result arrives |
| request bodies, `protocol/request_body.go`, `capture/decode.go` | none | reconstruct, encode | a request is sent again with the body its server got, or not at all |
| data directory, `proxy/ca/ca.go`, `ownerfile/`, `capture/session.go` | two files of the CA, the session file | `LoadOrCreate`, `WriteFunc` | the child trusts the proxy and a saved session is found, whatever was killed before |
| program and firewall rules, `cmd/cli-capture/main.go`, `transparent/` | resources with deferred releases, rules in the kernel, signals | start, run, unwind; apply, roll back, flush | rules do not outlive the run, unless the kernel refuses to remove them; the target runs only while it is captured |
| others | | | see section 7 |

How they meet: `pause` runs in the goroutine of a connection, calls `onPause`
of `main.go`, which sends on `pauseCh` (16 slots), and waits on a channel of
its own; `waitPause` of the UI takes from `pauseCh` one at a time; `Update`
calls `Resolve`. Handlers call `Store.Add` and `Touch`, which publish on a
channel of 256 slots and drop what does not fit; `waitEvent` takes from it and
`Update` lists the store. Handlers and engine both write the status of a flow.
The UI injects WebSocket frames through a session the handler registered. An
accepted connection goes through the front of `proxy.go` to the pumps, to a
protocol handler or to the HTTP/2 server. The child's output passes the
emulator, whose lock the output pump and the UI share; what the emulator answers
goes back to the child by two goroutines. Repeater commands run beside the UI
and add their flows to the store; a plain resend runs on the UI's goroutine.

Hard behaviours: the three critical sections of `pause` against concurrent
`Resolve` and reused tokens; announcements that block while the UI is busy;
dropped events; two writers to one connection; peers that hang up or stay
silent while a message is held; two goroutines of one stream that are held at
the same time; failures in the middle of a sequence of firewall commands, of the one that undoes it too;
a lock held while a reply is
written to a pipe; a child that never reads; a client that never speaks; one map
reused for all jobs of an attack; files half written when a program is killed;
signals and crashes at any moment. `PROJECT.json` lists these hazards with
their lines and the properties that cover each.

## 2. The modules

| Module | Models | Notes |
|---|---|---|
| `PauseSpec` | what a pause promises | abstract: free, held, decided, released, with the decision |
| `Intercept` | `intercept.go` | refines `PauseSpec` by the mapping at its end |
| `MCIntercept` | instance | three calls, two of one flow, symmetric |
| `InterceptProofs` | proofs of the engine, then of the engine with the UI | extends `InterceptUI` |
| `InterceptUI` | `Intercept` composed with `pauseCh`, `waitPause` and the UI | extends `Intercept`; the UI is the only resolver |
| `MCInterceptUI` | instance | two calls |
| `Store` | `store.go` and its use by the UI | |
| `StoreProofs` | proofs of the store and of the list | extends `MCStore` |
| `Exchange` | the flow of an exchange, shared by the next two | |
| `Http1` | `http.go`, handshake of `websocket.go` | one exchange; extends `Exchange` |
| `WebSocket`, `MCWebSocket` | `websocket.go` after the handshake | one session |
| `WebSocketProofs` | proofs | extends `WebSocket` |
| `Http2Stream` | `http2.go` | one stream with the engine's pauses of its flow; extends `Exchange` |
| `HttpProofs` | proofs of both | extends `Http1`, `Http2Stream` |
| `Tunnel` | `tcp.go`, `bridge` and `passthrough` of `proxy.go` | the pumps of one connection |
| `Proxy` | the rest of `proxy.go`, `conn.go` | extends `Tunnel`: the connection from its first byte |
| `ProxyProofs` | proofs of the connection and of the policy | extends `Proxy`, `Scope` |
| `Lifecycle` | `main.go`, `transparent/apply_linux.go`, `rules.go` | successive runs on one machine |
| `LifecycleProofs` | proofs | extends `Lifecycle` |
| `Terminal` | `vt.go`, `pumpPTY` and the closing of the pane, the UI where it meets them | five threads of control |
| `TerminalProofs` | proofs | extends `Terminal` |
| `Attack` | `repeater/attack.go` | operators |
| `Repeater` | `tui/repeater.go`, `send.go`, `replay.go` | extends `Attack` |
| `Framing` | `grpc.go` | operators |
| `RequestBody` | `request_body.go`, `decode.go` and the captures they read | operators |
| `MCRepeater` | instance | extends `Repeater`, `Framing`, `RequestBody`, with the checks of their operators |
| `FlowList` | drawing, hit-testing and motions of the traffic list | operators |
| `MCStore` | instance | extends `Store`, `FlowList`, with the checks of their operators |
| `Scope` | `scope/`, `buildScope` | operators |
| `DataDir` | `ca.go`, `ownerfile.go`, `SaveFile` | programs that share a directory |
| `SessionProofs` | proofs of the Repeater, the attacks, the bodies, the framing and the data directory | extends `MCRepeater`, `DataDir` |

**Intercept.** A *call* is one activation of `pause`, from `BeforeForward` or
`BeforeDeliver`. Its program counter has one value per critical section:
`Enter` reads the direction switch, `ReadScope` the scope, `Register` takes the
next free token (skipping 0 and used ones, as the search loop does), counts the
pause and marks the flow pending; `Notify` or `NotifyPanics` is `onPause`;
`Receive` waits for the verdict; `Cleanup` is the deferred function. `Resolve`
claims a token under the lock and `Send` delivers outside it, two actions. The
counter wraps at `MaxToken` as `uint64` does at 2^64 - 1. Message bodies are
abstracted to the three outcomes forward, edit and drop.

**InterceptUI.** `Announce` is the blocking send of `onPause`, `Relay` is
`waitPause`, `Enqueue` is `enqueuePause`, `Complete` is `Resolve` followed by
`completePause`. A key goes to the uppermost modal in the order `Update` looks
for one (`Precedence`), a click by the tests of `onMouse`. One action is one
run of `Update`, except that the channel send of `Resolve` may block and then
keeps the UI from doing anything else (`Ready`).

**Store.** `Add` is the critical section that records a flow, `ReadSubs` and
`Send` are the two steps of `publish`; an event is only counted, since the UI
never looks at what it says. A flow is changed in place (`Change`: a message, a
result, or the status the engine writes around a hold), as often as its goroutine
likes, and `Touch` has the changes published later, after a hold of any length. `Relay` is `waitEvent`, `Refresh` the handler of
`eventMsg`, `OpenDetail` and `CloseDetail` the detail view.

**Http1.** One action per stretch of the handler between operations that can
block or fail, with both outcomes: reading, dumping, handshaking, holding,
sending, reading responses (informational ones in a loop, 101 apart),
recording, delivering, and the relay after a switch of protocols.

**WebSocket.** A frame is written in two steps under the peer's mutex, so that
a second writer could get between. A pump reads, records data frames, offers
client frames to the operator, writes; the injection looks the session up,
locks and writes from the UI. `Close` is the first pump's end closing both
connections, `Return` the second one's. What kinds of frames there are is kept
as far as the handler tells them apart.

**Http2Stream.** The handler goroutine (`RoundTrip`, then the copy of the
response) and the transport's reader of the request body, in each of the three
modes of a direction (observe, buffer, message by message), with a client that
ends its side only when it has the last answer. The transport may go on reading the
request's body after the response has ended, until it stops (`StopReading`), so a
message may be held for a stream that is over. The pauses of the flow are the
`Register` and `Cleanup` of `Intercept`, reduced to the set of held goroutines.

**Tunnel** and **Proxy.** Bytes are numbered, chunks are intervals of them; a
pump reads any chunk that is there. `Detect` is `bridge` waiting in `Peek`; the
blind tunnel has no detection and records what it wrote. `Proxy` puts the front
before it: `stage` follows `handle` or `HandleTransparent`, `own` counts the
client's bytes that are meant for the proxy (the head of a CONNECT, a ClientHello
it answers), `pos` those that no later reader will see. The probe peeks at most
`HelloLimit` bytes under a deadline and replays them. `EarlyData` lets a client go
on before its CONNECT is answered.

**Lifecycle.** The acquired resources are a stack, released in reverse as
`defer` does. Rules are the pieces each backend installs command by command,
any of which may fail, those of a flush too, whose errors nobody looks at: what such
a command should have removed stays, and the history variable `refused` says so.
`redirectsTo` is the run whose listener the first rule names. A signal is fatal until
it is caught and after it is released, and a crash may come at any time; both
leave the kernel's rules behind. The signal handler of `runProgram` is a second
goroutine that the main one joins.

**Terminal.** `mu` is `VT.mu`; whoever holds it may owe the reply pipe some
writes (`asks`), each of which happens when `pumpReplies` reads (`Emit`), as the
pipe has no buffer. `Push` queues or drops, `WriterTakes` and `WriterWrites` are
`forwardReplies`. The UI is one goroutine that handles a message and then draws:
keys, of which arrows and pastes are encoded under `mu`, mouse events, nudges
(`Waiter`, `WaiterStarts` and `UpdatePty` are the `waitPty` command). The main
goroutine closes the emulator, waits for at most `closeGrace`, and closes the
target. A write to the PTY waits while the child has `InCap` writes unread.

**Repeater** and **Attack.** A command carries its jobs, computed by `Jobs` as
the iterator yields them (`Restored` is what sniper mode takes back from the map it
reuses, `Inserting` sets all of it). Building a request may fail, sending ends with an answer or an error,
and the report is a message the UI takes when it is idle, whichever request the
modal shows by then.

**RequestBody.** A body is a sequence of pieces inside layers of compression and
perhaps chunk framing; decoding peels a layer if it is the one named. `Capture`
says what each protocol handler leaves of a request that passed, was held, edited,
garbled or cut off; `CapturedRequestBody` reads it.

**Framing.** Bytes are numbers, the length field has one of them, and a stream is
cut into chunks in every way there is.

**FlowList.** A pane is its height and which of filter line, command line and
prompt is shown. `Drawn` is `renderTraffic` line by line, `FlowRowIndex` the
account `mouse.go` keeps of the same lines.

**Scope.** Whether a pattern matches a target is a parameter (`Holds`); rules,
sets and what the flags build are the code's.

**DataDir.** One action per system call. A certificate or key is known by the
number of the pair it was generated in, `Partial` is a file that does not parse. A read
of the CA's files may fail, and then a pair is created over what is there, whole or not
(`ReadFails`; the history variable `unread` keeps the keys lost in this way); a write
that fails ends the program, as a kill does (`Crash`). A power failure undoes a rename that no sync of the directory followed, or does
not; a temporary file that was not synced is torn by it.

## 3. What is checked

A type invariant is checked in every run: as a conjunct of the first safety
property of the table, except in `Intercept` and `Store`, where it is part of the
proved invariant.

| Run | Property | Says |
|---|---|---|
| `Intercept` | `NoLostPause` | a held message still has its token, or a claim, or a verdict in its channel |
| | `ResolveNeverBlocks` | a resolver's send finds the buffer free, and no second resolver has that claim |
| | `StatusTellsPaused` | a flow is pending exactly while a message of it is held, and the count is exact |
| | `NoStaleRegistration` | a registered token names a call that is held under it, also after a panic of `onPause` |
| `InterceptUI` | `LineIsPending` | what waits between engine and operator is exactly what the engine holds, each once |
| | `EditorBelongs` | Ctrl+S never sends the text of one message for another, or for an injected frame; keys and clicks never open two modals |
| | `InArrivalOrder` | that line grows at its end and is served at its front |
| | `ImplementsPauseSpec` | engine and UI together implement `PauseSpec` |
| | `EveryPauseReleased` | an operator who attends to the prompt from some time on releases everything |
| `Store` | `ListedOrComing` | a flow recorded while the UI listens is listed, or something that will list it is under way |
| | `DetailLive` | an open detail view shows its flow as it is, or will be rendered again, or a goroutine that changed the flow has still to call `Touch` |
| | `ListStable` | rows keep their places |
| | `WritersAndListGetOn` | writers get through without any UI; what is recorded while the UI listens comes to be listed |
| | `ClicksAndMotionsLand` | the selected row is drawn, the pane is not overdrawn, a click acts on the row under it, a jump to another host lands on one |
| `WebSocket` | `FramesWhole` | no frame is written into another |
| | `DeliveredInOrder` | a pump delivers what it read and was not dropped, once and in order; when it stops it has lost at most the last it read |
| | `ReturnsFinished` | a returned handler leaves a complete flow and no session |
| | `SessionEnds` | the handler returns once a peer hangs up, though the other is silent or a frame is held (`EndsWithPeer`); an injection comes back, also from a session that ends under it (`InjectionEnds`) |
| `Http1` | `SentExchangeEnds` | once the request is out, the flow ends complete, or in error with the error |
| | `RecordedAsRelayed` | complete only with the last response at the client, or a drop; the recorded request is the one the server got, edits included; nothing follows a 101 but the relayed connection |
| | `RelayEnds` | after a 101 the exchange ends when either peer hangs up |
| `Http2Stream` | `StreamIsRecorded` | the gRPC messages of a flow are those passed on; it is pending exactly while either goroutine is held |
| | `ConversationEnds` | no mode of interception deadlocks a conversation |
| `Proxy` | `TransferIsWhole` | every byte that the proxy was not itself meant to read is delivered once and in order, or in hand, or was withheld and never delivered (`BytesAccounted`); a handler returns only when both peers are gone, with a complete flow, so a deadline of the probe ends nobody later (`ReturnsWhenOver`) |
| | `DecryptedInScope` | TLS is terminated only for a name in scope, and nothing in scope is tunneled blind |
| | `OpenedIsForwarded` | once the client has opened the conversation everything gets through |
| | `ConnectionEnds` | a probe ends although the client is silent, a client that has said its part is passed on or closed, and when both peers hang up the handler ends |
| `Lifecycle` | `RunsEndClean` | a run that ends by itself leaves no rule of its own, and rules are added only to a clean table, unless a command that should have removed one failed (`refused`); a signal that was taken is reported |
| | `TargetIsCaptured` | the target runs only with all rules, listener, proxy and signal handling in place; the rule that counts is that of its run, unless nft was refused to remove an earlier one |
| | `SignalEnds` | a signal ends the program |
| `Terminal` | `NothingIsLost` | replies of the emulator reach the child in order or were dropped because all slots were taken (`RepliesKept`); a screen that is not the one drawn has a nudge on its way (`NoLostOutput`) |
| | `InterfaceGoesOn` | the emulator's lock is always given back, whatever the child does; output is drawn; keys get through to a child that reads |
| | `ClosingEnds` | closing the pane comes to its end and leaves no goroutine |
| `Repeater` | `AttackRecorded` | an attack leaves one flow for each job that could be built, in order, labelled with the payloads that were in it |
| | `AttacksAsDocumented` | the jobs of every mode are those of the table in `docs/repeater.md` |
| | `BodySentAgain` | a captured request is sent again with the body its server got, or refused |
| | `FramingAgrees` | the observer, the tampering reader and the decoder see the same gRPC messages however the stream is cut, and edits and drops come out right |
| | `ResultArrives` | a result or a resend never leaves the UI waiting |
| `DataDir` | `ChildTrusts` | a running program signs with the key of the certificate in the file, wherever earlier ones were killed, unless a program failed to read that pair and replaced it |
| | `SavedIsFound` | a session that is read is complete and not older than the last save reported as successful, after kills and power failures too |

One more run, `Http2Revived`, shows a statement of the repository that does not hold: see
section 5.

`BodySentAgain` lets two requests be refused that could have been sent, both with a
body that is an encoding of nothing: an edited HTTP/1 request in chunks, and a gRPC
request with a length. A third reason to refuse is not modelled: a body that decodes
to more than 64 MiB (`decode.go:17,163`).

`ClicksAndMotionsLand`, `AttacksAsDocumented`, `BodySentAgain` and
`FramingAgrees` are about pure computations. They quantify over all small
inputs and are evaluated in the initial state of the run of the component that
uses the computation.

Each property has a mutation of a mapped definition, defined just before it in
the module, that breaks the property in that run: a plausible slip in that
piece of code that the property would catch.

### Instances and bounds

* `Intercept`: three calls, two of them of one flow, two resolvers, one
  direction, `MaxToken` 3. Three is the least number with two messages of one
  flow beside another flow; calls return and enter again, so tokens are reused
  and the counter wraps again and again. The proofs cover every size.
* `InterceptUI`: two calls, so that one is on the prompt and one behind it, and
  every modal there is; `PauseChCap` 1 (16 in the code), so that announcements
  block; `MaxToken` 2.
* `Store`: two flows, two writers, `EventCap` 2 (256 in the code), two changes
  of each flow, before one `Touch` or by one writer while the other is held: events
  overlap and are dropped. Flow `f1` may precede the UI.
  Panes up to eight lines, lists up to five rows: both smaller and larger than
  the other.
* `WebSocket`: two frames towards the server, one towards the client, one
  injection. Two frames in the direction that can be held are enough for order,
  and all three writers may meet. Fragments are not sent in this instance.
* `Http1`: up to three informational responses (the code has no bound).
* `Http2Stream`: three messages each way, one if unary.
* `Proxy`: two bytes each way behind a head of one and a ClientHello of two or
  three parts, in any chunks. Detection wants two bytes (16 in the code), so that a
  client may say less, as much, and more; the probe gives up at two (`HelloLimit`,
  128 KiB in the code, `conn.go:28`), so that one ClientHello fits and one does not. `MaxBytes` 6
  is their sum. `EarlyData` is `FALSE`: a client waits for the answer to its
  CONNECT, see section 5.
* `Lifecycle`: three runs: one that crashes, one that meets its remains, and
  one after that.
* `Terminal`: one reply slot (64 in the code) against two replies, so that one
  queues and one is dropped; a child that has room for one write; two chunks of
  output, one key or mouse event.
* `Repeater`: three variables, one of them unfilled; two commands, two openings
  of the modal, one resend, one request that cannot be built. Attacks on up to
  three positions with lists of up to three payloads, gRPC streams of up to two
  messages and an incomplete third, bodies in four ways of being compressed against five
  ways of declaring it.
* `DataDir`: two programs, three pairs, three saves; `Faults` is empty: two
  programs do not create a CA at the same instant and a power failure does not
  spoil the CA's files, see section 5. Power failures in the middle of saving are
  in.

`CHECK_DEADLOCK FALSE` is set where the thing modelled comes to an end: an
exchange, a stream, a session, a connection, a pane, and the last of `MaxRuns`
runs. In `Intercept`, `InterceptUI`, `Store`, `Repeater` and `DataDir` deadlock is
checked.

### Fairness, and why the code justifies it

Goroutines that can run do run: weak fairness of each handler's, pump's or
writer's own steps. A mutex and the senders of a full channel are served in
turn by Go's runtime: strong fairness of `Lock` and `Announce`. That a
connection whose peer or whose own end was closed fails a read: weak fairness
of `ReadFails` and `CopyEnds`; that a write notices it is assumed only where
something is written. In `Proxy`, `WebSocket` and `Http1` peers need not speak, answer or
hang up, but weak fairness of the writes assumes that one that is alive reads: nothing is
shown of a peer that stays connected and stops reading, on which a write, with no deadline
of its own, waits. In `Http2Stream` client and server keep their conversation going, since the
question is whether the proxy lets them. A read deadline that was set passes
(`DeadlinePasses` of `Proxy`), the client of the Repeater gives up after its 30
seconds (`Fails`, `ResendFails`), and the timer of `Close` goes off
(`CloseGraceOver` of `Terminal`). In `Terminal` nothing is assumed of the child,
the operator or signals, except in `KeysGetThrough`, which names the child that
reads as its premise; one weak fairness of all goroutines together is
enough there, since what drives them is bounded and every behaviour comes to rest. The operator
answers a held message where the property says so (`Attentive`, `Answer`,
`Operator`). `WritersAndListGetOn` grants the UI no fairness in its first half.
Nothing is assumed of an operator before `Attentive` sets in, of who enters
calls, or of signals and crashes.

## 4. What is proved

**Engine.** For every set of calls, flows, resolvers, scopes and every `MaxToken`
that has a token for each call (`InterceptAssumption`; the code has 2^64 - 1 tokens
and no way to have that many goroutines), `InterceptProofs` shows `TypeCorrect`,
`PausesAreKept`, `ResolversDoNotBlock`, `StatusIsExact`, `RegistrationsAreLive`
and `Refinement`.

`NoLostPause` is not inductive: from a state in which two resolvers claim one
call, or a token names a call that has already been resolved, a step can lose a
pause. The invariant `IInv` adds what `Resolve`'s claim establishes: a
registered token names a held call that is unresolved (`RegisteredUnresolved`);
a claim is exclusive and its channel empty (`ClaimExclusive`); a call has an
empty channel before it registers and a token while it is held (`CallSound`).
The count of a flow's held calls is carried along as a cardinality
(`CountStep`, with the facts on finite sets). `Refinement` shows that each step
moves exactly one call through the phases of `PauseSpec`, or none; its lemmas
say how phase and decision are computed from the detailed state.

**Engine with the UI.** For every capacity of `pauseCh` as well, and any sequence
of keys, clicks and new pauses, `InterceptProofs` goes on to show `LineMatchesEngine`,
`EditorIsOwn`, `PausesWaitTheirTurn` and `UIRefinement`. The invariant
`UIInv` is the engine's, the types, and two facts. `LineSound`: the
line (prompt, queue behind it, `waitPause`'s hand, channel)
names each announced and unresolved call once, a pause in it is registered and its
call blocked, and one that is not announced cannot have been resolved. `QueueBehind`:
nothing waits behind an empty prompt, without which a new pause could overtake.
`UIRefinesEngine` is the composition: each step of the UI is a step of the engine or leaves
it alone, where the only subtle case is that `Complete` resolves a token the line
names, so that `Resolve` finds it. `EditorBelongs` is inductive together with the types. The
assumption that no notification is the value standing for an empty prompt is part
of `InterceptUIAssumption`.

**Store.** For every capacity, number of writers and of flows (`StoreAssumption`),
`StoreProofs` shows `TypeCorrect`, `DropsHeal`, `DetailFollows` and
`RowsKeepTheirPlaces`. The invariant adds that the screen shows an initial part
of the store (`ShowsPrefix`) and that nothing reaches the UI before it
subscribes (`NothingBefore`). The heart of the argument is `ComingStep`: what is
on its way stays so until a refresh, as an event is dropped only when the
channel holds another. `OwedStep` says the same of what was changed and waits for its
`Touch`.

**Data directory.** `SessionProofs` shows `CAStaysAPair` for any programs, killed
anywhere, under `NoFaults`, and `SavesSurvive` under all faults. A certificate and
a key are written one after the other, so that a kill leaves halves; the first
theorem holds because only one program is between looking and writing
(`OneLoads`), a whole key is that of the certificate beside it (`KeyBelongs`), and
while a pair is being created there is no whole key at all (`NoKeyYet`), so that a
program that is killed leaves something `LoadOrCreate` replaces. The last two have one
exception, a key that is in `unread`: a program that fails to read a whole pair writes
a new certificate beside its key, and if it does not come to write the new key, the
next programs load the two as a pair. `CAStaysAPair` therefore speaks of the
programs whose key nobody failed to read. `InMemory` and
`Holds` tie the files to the programs. `SaveInv` says of a save in progress how
much of its temporary file is on disk before the rename.

**HTTP/1.** For any number of informational responses: `SentAreReported`,
`RelayedAsRecorded` and `PendingWhileHeld`. The invariant `HInv` says for each stage what is in
hand, recorded and sent, and that until the end the client has heard of nothing but progress. That
the recorded request is the one sent is not inductive without the fact that a request
that is held is still the original: an operator who forwards it unedited leaves the
record alone (`captureForwardedHTTP1` runs for edits only).

**HTTP/2 and gRPC.** For any number of messages of either side: `StreamAsForwarded`, that
`StreamIsRecorded` holds, and `OnlyPausesRevive`. Two goroutines share the flow of a
stream and either can be held while the other goes on. `StreamInv` says that a goroutine
waits for the operator exactly while the engine holds it (`HoldingIsWaiting`), that a body is
buffered before anything of it went on (`BufferedFirst`), that what was passed on was read
before (`PassedWasRead`, `NumbersAreRead`), and that a flow
is finished only when the handler is (`FinishedIsEnded`). What is recorded is compared
with what was passed on by the rank of a message among those of its direction, since the two
directions are recorded into one list. `OnlyPausesRevive` is the exact extent of the
disagreement `Http2Revived` shows (section 5): a complete flow changes only by the end of a
pause of its request's reader, to active, or by the beginning of another one, to pending
(`Revived`), and both only after the response has ended.

**WebSocket.** For any number of frames of either peer and of injected ones:
`NeverInterleaved`, `ReturnedIsOver` and `DeliveredAsRead`. `FramesWhole` says
nothing of who is writing; `WSInv` adds that a peer's mutex is held by exactly the
writer at work on it (`LockHeld`), that a writer has its own last frame in hand
(`FrameInHand`), and that a half frame at the end of a wire either is being completed
by the writer it belongs to or is the last thing ever written there, as the
connection's buffered writer has failed (`WiresWhole`). The last case is what keeps the next writer, who
gets the mutex after a failed write, from appending to half a frame.
For `DeliveredAsRead` a ledger per pump (`Ledger`) relates what is on the wire to what
it has read: of the frames it is through with, each that was not dropped is there, once
and in order, and when it stops only the last it read can be missing.

**Connections.** For any sizes of head, peek and probe, any number of bytes and any cut
of them into chunks: `ScopeDecides`; `CarriedWhole`, that `TransferIsWhole` holds under
`~EarlyData`, that is, if a client waits for the answer to its CONNECT as HTTP has it;
and `LostOnlyAtConnect` without that hypothesis: a connection loses nothing else than what
came with the head of its CONNECT (`PeekedIsKept`, section 5). `PInv` keeps a ledger for
each direction: the bytes a pump is through with are split into delivered and
withheld, without overlap, up to the chunk in its hand, and begin after what the front
took for good (`Ledger`, `HandSound`, `InOrder`); nothing is written before the front is through
(`FrontFirst`); at each stage it is known what the front took and for which name it
decides (`FrontSound`), and that no deadline survives it.

**Life cycle.** For any number of runs, both firewall backends, any commands that
fail, those of flush, roll back and teardown among them, and any signal or crash: `RunsEnd` and `CapturedWhole`. `LInv` says that the stack of resources is
a beginning of one order of acquisition, determined by the stage (`StackInOrder`), and
accounts for the pieces in the kernel in the middle of an `apply`, a flush or a roll
back (`RulesSound`): unless a command was refused they are exactly what the commands run
so far have installed (`Applying`) or left (`Clearing`). What a refused command leaves
is bounded by two facts: rules of iptables hang on their chain, and a chain that is there
cannot be created (`ChainFirst`), so that with iptables a run that was refused adds
nothing and its target never starts; and with nft the new parts are added to what stayed, so that all
parts are there but the first rule may be an old one (`Redirected`). And success is reported only after the signal handler
was joined
(`OkSettled`).

**Terminal.** For any number of reply slots, of chunks and of inputs: `NoneLost`. Replies are numbered as
they are emitted; each is in one place (hand, queue, being written, written) or was
dropped, and the places hold ascending numbers, one behind the other
(`RepliesInOrder`, `RepliesFound`). The second half, that no screen stays undrawn without
a nudge under way, is inductive as `NoLostOutput` states it.

**Scope.** For every list of rules and every target, and whatever the patterns
match: `ExcludesWin` says what the default strategy means, `LastMatchIncludesWin`
what `-last-match` means. `Eval` walks the rules; that one rule decides it (the
first match, or the last) is `OneDecides`, from the well-ordering of the naturals.

**Traffic list.** For every pane, list and selection: `ClicksHitWhatIsDrawn`,
`SelectionStaysVisible`, `PaneIsNeverOverdrawn`, `MotionsStayInList`. They compare
two computations kept in two files, `renderTraffic` and `flowRowIndex`, which
must agree about each optional line.

`JumpsLand` adds the jumps between hosts: for any rows, hosts and counts they pass as many
beginnings of a host's rows as they were told to, or stop at the end. `ListAgreesWithScreen`
is what the run's `ClicksAndMotionsLand` makes of these.

**Repeater.** For any template, payload lists and number of commands, however keys, reports and
resends interleave: `AttacksRecorded`, that `AttackRecorded` holds. `RepInv` says that a command is
through with exactly the jobs before its next one, each of which left one flow or could not
be built (`JobsInTurn`), and that nobody else writes where it does.

**The jobs of an attack.** `AttacksAreAsDocumented`: for any positions and a list of distinct
payloads for each (`Documented`), the jobs of every mode are those of the table. Sniper is at its
base values whenever it comes to a position, by induction over the positions, so that a job has
at most one payload. For cluster bomb the odometer is read as a number (`Rank`), each position
counting in the length of its list: a `Turn` adds one to it, and no two readings have the same number.
So the loop ends with every wheel full, after as many jobs as the product of the lengths, none
of them twice and every payload in one of them. `AttacksOfTheRun` says that the attacks which the run
starts are of this kind.

**Bodies sent again.** `BodiesAreSentAsMeant`: for any layers of compression, any pieces of content and
any list of encodings, known or not, in each protocol and for each way to capture a request,
what is reconstructed is what the server got. The two loops, that of decoding
(`UnwrapLoop`, which leaves content and framing alone) and that of encoding
(`WrapLoop`), undo each other on encodings that are known (`RoundTrip`).

**Framing.** `ReadersAgree`: for any messages, any piece of another behind them, any verdicts and any
way to cut the bytes into chunks, also empty ones, the observer, the tampering reader and the
decoder read the same messages. Its heart is `DrainInTwo`: to drain a buffer, then what is left of
it with more bytes behind, is to drain all of it at once (for any bytes, also those that no
encoder wrote). So a reader is after every chunk where one chunk with all the bytes so far
would have taken it (`ObserveAll`, `TamperAll`), and what is encoded is drained again
(`DrainEncoded`). `FramingOfTheRun` adds that `Chunkings` yields nothing but ways to cut the
bytes (`ChunkingsOfBytes`).

Each inductive invariant was also checked by TLC on the instance of its component's
run. What is abstract in a proof is what is abstract in its module: a theorem holds
for every value of the constants, of the system the module describes.

The bodies, the framing, the jumps and the attacks are loops, written as recursive functions. The induction
theorems of the library have a formula as a parameter, which the provers cannot instantiate; here the formula
is a set. `SetInduction` says of any set that has 0 and every successor of its members that it
has every natural number (from the well-ordering of the naturals), and `Recursion` that a loop
has a run, whatever its steps are (`Loops`), so that the function a `CHOOSE` picks is
the run.

Only model-checked: all liveness (the prover has no rule for fairness that these
modules could use, nor for `ENABLED`).

## 5. Where code and documents disagree

The run `Http2Revived` (`FinishedStays`) shows a statement of the repository that the
code does not keep: when a response ends while a message of its request is held, the
end of that pause sets the complete flow to active again, for good. A message that is read
after the end makes the complete flow pending, and active when it is decided.

The modules state more promises that fail, without a run of their own. To
see one fail, make it the only property of the run named.

| Property | In run | What happens |
|---|---|---|
| `EveryFlowListed` | `Store` | `-load` fills the store before the UI subscribes, and nothing lists the store until the first event: preloaded flows stay invisible until some other flow changes |
| `DetailShowsHeld` | `Store` | a held message is recorded, and its flow pending, before the hold, and `Touch` comes after it: an open detail view does not show what the prompt asks about (`model.go:327` keeps it "live as a streaming flow accrues messages") |
| `NeverHalfConfigured` | `Lifecycle` | a partly applied rule set is rolled back by firewall commands whose errors are dropped (`apply_linux.go:29`): a run may end with part of the rules in the kernel, where `apply_linux.go:13-15` says that the firewall is "never left half-configured" |
| `RedirectedHere` | `Lifecycle` | a flush that nft refused leaves an old rule before the new one, and the target's connections go to the port of a listener that is gone |
| `SignalRemovesRules` | `Lifecycle` | rules are applied before signals are caught and removed after they are released; a signal in either window leaves them installed |
| `FailureIsShown` | `Http1` | an error of dumping, writing or flushing the request is returned but not recorded; the flow stays active |
| `ResponseRecordedAsSent` | `Http1` | an edited response stays recorded as the server sent it |
| `RecordedAsSent` | `WebSocket` | an edited frame stays recorded as it was read |
| `InjectionBetweenMessages` | `WebSocket`, with the kinds `begin` and `end` added | an injected message can separate the fragments of another, as the mutexes guard single frames |
| `BreakIsError` | `Http2Stream` | a response that is reset leaves its flow active, because `bodyWrap` reacts to `io.EOF` only |
| `PeekedIsKept` | `Proxy`, with `EarlyData = TRUE` | what a client sends together with its CONNECT stays in the buffer of the reader that parsed the head and is lost |
| `WedgedChildQuits` | `Terminal` | keys are written by the UI's goroutine: once one is stuck in a write to a child that does not read, quitting never happens |
| `UnfilledStaysVisible` | `Repeater` | `docs/repeater.md`: "An unfilled variable is left as the literal `{{name}}`"; the editor's line `name =` counts as one empty payload in single mode, so that the variable becomes empty |
| `ShownIsLastSent` | `Repeater` | a result that comes after the modal was opened on another request, or after that of a later one, is shown all the same |
| `KeptIfThere` | `DataDir` | any error of reading the CA's files, also when they are there and whole, has `LoadOrCreate` create a pair over them (`ca.go:50-53`), under programs that go on signing with the old key; `ca.go:35-36` says "generating and persisting a new one if none exists" |
| `ChildTrusts` | `DataDir`, with `Faults = {"overlap"}` or `{"torn"}` | two first starts at a time, or a power failure after the first, leave a certificate and a key that do not belong together. Without `Faults` the same comes of a read that fails, when the program ends before it has written the new key; `ChildTrusts` excepts those pairs |

Further, found without a run:

* `-last-match` makes includes win, whatever the order of the flags
  (theorem `LastMatchIncludesWin`), as the rules are built excludes first; `main.go:174` and
  the help of `-exclude` say that excludes always win.
* `HighlightIsSelected` of `FlowList` is false when a filtered list shrinks: the
  last row is highlighted while keys act on none.
* A server that speaks first, without TLS, is not heard until its client has sent
  sixteen bytes or hung up: detection waits in `Peek`. That is why
  `OpenedIsForwarded` speaks of a client that opened the conversation.
* A click that moves the focus away from the traffic pane leaves a count or a first `g` pending,
  where `command.go:230-232` says that focus changes clear them.

## 6. Running it

    tlc -config Intercept.cfg MCIntercept       # the others: see PROJECT.json
    tlapm InterceptProofs.tla

The longest runs are `Repeater`, `Intercept`, `Terminal`, `WebSocket`, `Proxy` and
`DataDir`, one to three minutes each on two cores; the others take less.

## 7. What is not modelled

* Contents and formats: heads, codecs, exports, configuration, key tables,
  the text of templates and their parsing, the bits of a WebSocket frame header. The
  properties do not tell contents apart beyond original and edited, except for
  request bodies and gRPC messages, whose pieces are counted.
* Libraries: Go's HTTP/2 connections, TLS, X.509, the terminal's escape
  sequences. Their use is modelled where it blocks or fails.
* Rendering, apart from the lines of the traffic pane; column widths, colours, help.
* The original destination of a redirected connection, one system call and the
  decoding of its result, and the accept loop, which starts goroutines. What is done with
  the result is in `Proxy`.
* Minting of leaf certificates, a mutex around a library call and a map.
* In the UI: sorting, flags, the text of filters, export keys. `EnterInject` needs a
  live session in the code; `InterceptUI` asks only for an active flow, which
  allows more. Resizing the pane takes the emulator's lock as drawing does and is not
  an action of its own.
* `-transparent-apply` of two programs at a time, which the program does not
  guard against.

`PROJECT.json` has the reason for each component it lists as partly modelled or not
modelled.

## 8. Plan

Done: the engine with its proofs, the UI on top of it, the store with its
proofs and the list on the screen, every path of a connection from its first byte
to a protocol handler, the terminal pane, the Repeater with the bodies it sends,
the scope policy, the data directory, and the life cycle.

Proved: every safety property of the runs, and the refinement
of `PauseSpec` by the engine and by engine and UI together.

Next, the parts of the system that are left and have behaviour worth checking:
the WebSocket frame codec as functions against a reference definition, the
certificate cache under concurrent handshakes, and what counts, leaders and focus
changes do to keys that are pending (`command.go`, `keymap.go`).
