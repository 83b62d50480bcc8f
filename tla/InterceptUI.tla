------------------------------ MODULE InterceptUI ------------------------------
(***************************************************************************)
(* The intercept engine together with the terminal UI that resolves what   *)
(* it holds (internal/tui/model.go) and the channel main.go puts between   *)
(* them.  Held messages are announced on a bounded channel, relayed one at *)
(* a time to the UI's event loop, and wait there behind the pause the      *)
(* operator is looking at.                                                 *)
(*                                                                         *)
(* The UI is one goroutine: each action is one run of Model.Update.  The   *)
(* keys it gets go to the uppermost modal that is open.                    *)
(***************************************************************************)
EXTENDS Intercept, Sequences

CONSTANTS
    UI,             \* the UI goroutine, the only caller of Resolve
    PauseChCap,     \* capacity of pauseCh (16 in main.go)
    Overlays,       \* modals that keep the keys until closed, of those the code has
    Inputs,         \* one-line text inputs of the traffic pane
    NoPause         \* no Paused notification

\* tui.Paused.  The message is the one its call carries.
Notifications == [token : Tokens, call : Calls]

ASSUME InterceptUIAssumption ==
    /\ Resolvers = {UI}
    /\ PauseChCap \in Nat \ {0}
    /\ Overlays \subseteq {"help", "repeater", "detail"}
    /\ Inputs \subseteq {"filter", "cmdline"}
    /\ NoPause \notin Notifications

VARIABLES
    pauseCh,    \* announced pauses, oldest first
    relay,      \* what waitPause has taken from pauseCh and not delivered
    active,     \* paused, pausedMsg and pausedToken: the pause on the prompt
    pauseQueue, \* pauses that arrived behind it
    open,       \* the modals that are open
    injecting,  \* the editor composes a frame to inject
    ta,         \* what the editor's text started from
    focus,      \* the pane that has the focus
    leader      \* pendingLeader: the next key is a leader command

promptVars == <<active, pauseQueue>>
screenVars == <<open, injecting, ta, focus, leader>>
uiVars == <<pauseCh, relay, promptVars, screenVars>>
allVars == <<vars, uiVars>>

\* The editor holds a frame to inject: the text of no pause.
Frame == [token |-> 0, call |-> NoCall]

Modals == Overlays \cup Inputs \cup {"editor"}

\* The order in which Update and onMouse look for an open modal.
Precedence == <<"help", "repeater", "editor", "filter", "cmdline", "detail">>
Below(i) == {Precedence[j] : j \in 1 .. i - 1}

\* The modal m gets the next key.
Keyed(m) ==
    \E i \in DOMAIN Precedence :
        Precedence[i] = m /\ m \in open /\ open \cap Below(i) = {}

\* Update runs to completion, the send of Resolve included.
Ready == resolving[UI] = NoClaim

\* The next key goes to the panes (onKey) and is not a leader command.
PanesKeyed == Ready /\ open = {} /\ ~ leader
TrafficKeyed == PanesKeyed /\ focus = "traffic"

UIInit ==
    /\ Init
    /\ pauseCh = <<>>
    /\ relay = NoPause
    /\ active = NoPause
    /\ pauseQueue = <<>>
    /\ open = {}
    /\ injecting = FALSE
    /\ ta = NoPause
    /\ focus = "terminal"
    /\ leader = FALSE

-----------------------------------------------------------------------------
(* From the engine to the event loop.                                      *)

\* Mutation: the send does not wait while the channel is full, but loses the
\* announcement.
AnnounceOrDrop(c) ==
    /\ Notify(c)
    /\ pauseCh' = IF Len(pauseCh) < PauseChCap
                     THEN Append(pauseCh, [token |-> token[c], call |-> c])
                     ELSE pauseCh
    /\ UNCHANGED <<relay, promptVars, screenVars>>

\* onPause of main.go: a blocking send on pauseCh.
Announce(c) ==
    /\ Len(pauseCh) < PauseChCap
    /\ Notify(c)
    /\ pauseCh' = Append(pauseCh, [token |-> token[c], call |-> c])
    /\ UNCHANGED <<relay, promptVars, screenVars>>

\* waitPause: one command at a time takes one notification.
Relay ==
    /\ relay = NoPause
    /\ pauseCh # <<>>
    /\ relay' = Head(pauseCh)
    /\ pauseCh' = Tail(pauseCh)
    /\ UNCHANGED <<vars, promptVars, screenVars>>

\* activatePause puts item on the prompt and closes what would swallow its
\* keys: the text inputs and a pending leader, but no other modal.
Activate(item, stillOpen) ==
    /\ active' = item
    /\ focus' = "traffic"
    /\ leader' = FALSE
    /\ open' = stillOpen \ Inputs

\* Mutations: the newest pause takes the prompt and the one that was there is
\* forgotten or queued.
EnqueueReplaces ==
    /\ Ready /\ relay # NoPause
    /\ Activate(relay, open)
    /\ relay' = NoPause
    /\ UNCHANGED <<vars, pauseCh, pauseQueue, injecting, ta>>

EnqueueInFront ==
    /\ Ready /\ relay # NoPause
    /\ Activate(relay, open)
    /\ pauseQueue' = IF active = NoPause THEN pauseQueue ELSE <<active>> \o pauseQueue
    /\ relay' = NoPause
    /\ UNCHANGED <<vars, pauseCh, injecting, ta>>

\* enqueuePause, on a pauseMsg.
Enqueue ==
    /\ Ready
    /\ relay # NoPause
    /\ IF active # NoPause
          THEN /\ pauseQueue' = Append(pauseQueue, relay)
               /\ UNCHANGED <<active, open, focus, leader>>
          ELSE /\ Activate(relay, open)
               /\ UNCHANGED pauseQueue
    /\ relay' = NoPause
    /\ UNCHANGED <<vars, pauseCh, injecting, ta>>

-----------------------------------------------------------------------------
(* The operator decides.                                                   *)

\* Mutation: the editor stays open over the pause it was opened for.
EditorKept == open

EditorClosed == open \ {"editor"}

\* Resolve, then completePause: the editor is closed and cleared before the
\* oldest waiting pause takes the prompt.
Complete(v) ==
    /\ \/ Resolve(UI, active.token, v)
       \/ pending[active.token] = NoCall /\ UNCHANGED vars
    /\ ta' = NoPause
    /\ IF pauseQueue = <<>>
          THEN /\ active' = NoPause
               /\ open' = EditorClosed
               /\ UNCHANGED <<pauseQueue, focus, leader>>
          ELSE /\ Activate(Head(pauseQueue), EditorClosed)
               /\ pauseQueue' = Tail(pauseQueue)
    /\ UNCHANGED <<pauseCh, relay, injecting>>

\* f and d, on the prompt.
PausedKey(v) ==
    /\ TrafficKeyed
    /\ active # NoPause
    /\ v \in {"forward", "drop"}
    /\ Complete(v)

\* e: enterEdit seeds the editor with the message of the active pause.
PausedEdit ==
    /\ TrafficKeyed
    /\ active # NoPause
    /\ ta' = active
    /\ open' = open \cup {"editor"}
    /\ UNCHANGED <<vars, pauseCh, relay, promptVars, injecting, focus, leader>>

\* n and N: enterInject borrows the editor for a frame of its own, for a live
\* session of an active flow.
EnterInject ==
    /\ TrafficKeyed
    /\ \E f \in Flows : status[f] = "active"
    /\ ta' = Frame
    /\ open' = open \cup {"editor"}
    /\ injecting' = TRUE
    /\ UNCHANGED <<vars, pauseCh, relay, promptVars, focus, leader>>

\* Ctrl+S with a frame in the editor sends it and keeps the prompt as it is.
SendFrame ==
    /\ Ready /\ Keyed("editor")
    /\ injecting
    /\ open' = open \ {"editor"}
    /\ injecting' = FALSE
    /\ UNCHANGED <<vars, pauseCh, relay, promptVars, ta, focus, leader>>

\* Ctrl+S otherwise forwards the edited bytes for the active pause.
SendEdited ==
    /\ Ready /\ Keyed("editor")
    /\ ~ injecting
    /\ active # NoPause
    /\ Complete("edit")

EditorCancel ==
    /\ Ready /\ Keyed("editor")
    /\ open' = open \ {"editor"}
    /\ injecting' = FALSE
    /\ UNCHANGED <<vars, pauseCh, relay, promptVars, ta, focus, leader>>

-----------------------------------------------------------------------------
(* The rest of the keyboard and the mouse, as far as it decides which pane *)
(* or modal the next key goes to.                                          *)

\* i and r, in the traffic pane or after the leader.
Toggle == \E d \in Directions : SetDirection(d, ~ enabled[d])

ToggleKey ==
    /\ TrafficKeyed
    /\ Toggle
    /\ UNCHANGED uiVars

\* ? / : R and enter, in the traffic pane.
OpenModal(m) ==
    /\ TrafficKeyed
    /\ open' = open \cup {m}
    /\ UNCHANGED <<vars, pauseCh, relay, promptVars, injecting, ta, focus, leader>>

\* Esc (or q) in a modal that is not the editor.
CloseModal(m) ==
    /\ Ready /\ Keyed(m)
    /\ open' = open \ {m}
    /\ UNCHANGED <<vars, pauseCh, relay, promptVars, injecting, ta, focus, leader>>

\* :help, the command that opens another modal.
HelpCommand ==
    /\ Ready /\ Keyed("cmdline")
    /\ open' = (open \ {"cmdline"}) \cup ({"help"} \cap Overlays)
    /\ UNCHANGED <<vars, pauseCh, relay, promptVars, injecting, ta, focus, leader>>

LeaderKey ==
    /\ PanesKeyed
    /\ leader' = TRUE
    /\ UNCHANGED <<vars, pauseCh, relay, promptVars, open, injecting, ta, focus>>

\* The key after the leader: w switches panes, ? toggles the help, i and r the
\* directions, and the others leave this state alone.
LeaderCommand ==
    /\ Ready /\ open = {} /\ leader
    /\ leader' = FALSE
    /\ \/ /\ focus' = IF focus = "terminal" THEN "traffic" ELSE "terminal"
          /\ UNCHANGED <<vars, open>>
       \/ open' = {"help"} \cap Overlays /\ UNCHANGED <<vars, focus>>
       \/ Toggle /\ UNCHANGED <<open, focus>>
       \/ UNCHANGED <<vars, open, focus>>
    /\ UNCHANGED <<pauseCh, relay, promptVars, injecting, ta>>

\* Overlays over the whole screen and text inputs own the mouse too.
MouseReachesPanes == Ready /\ open \cap ({"help", "repeater"} \cup Inputs) = {}

ClickTerminal ==
    /\ MouseReachesPanes
    /\ open \cap {"editor", "detail"} = {}
    /\ focus' = "terminal"
    /\ UNCHANGED <<vars, pauseCh, relay, promptVars, open, injecting, ta, leader>>

\* A second click on a flow opens its detail view, unless the pane shows the
\* editor or a detail view already.
ClickTraffic ==
    /\ MouseReachesPanes
    /\ focus' = "traffic"
    /\ \/ UNCHANGED open
       \/ open \cap {"editor", "detail"} = {} /\ open' = {"detail"} \cap Overlays
    /\ UNCHANGED <<vars, pauseCh, relay, promptVars, injecting, ta, leader>>

-----------------------------------------------------------------------------
(* The engine's own steps.  main.go installs one scope for good, and its   *)
(* onPause does not panic.                                                 *)

EngineStep ==
    /\ \/ scope = {} /\ \E s \in Scopes : SetScope(s)
       \/ \E c \in Calls : ReadScope(c) \/ Register(c) \/ Receive(c) \/ Cleanup(c) \/ Return(c)
       \/ \E c \in Calls, d \in Directions : Enter(c, d)
       \/ Send(UI)
    /\ UNCHANGED uiVars

Decide == SendEdited \/ \E v \in Verdicts : PausedKey(v)

Close == EditorCancel \/ \E m \in Overlays \cup Inputs : CloseModal(m)

Navigate ==
    \/ PausedEdit \/ EnterInject \/ SendFrame \/ ToggleKey
    \/ \E m \in Overlays \cup Inputs : OpenModal(m)
    \/ HelpCommand \/ LeaderKey \/ LeaderCommand \/ ClickTerminal \/ ClickTraffic

UINext ==
    \/ EngineStep
    \/ \E c \in Calls : Announce(c)
    \/ Relay \/ Enqueue \/ Decide \/ Close \/ Navigate

UISpec == UIInit /\ [][UINext]_allVars

\* Goroutines that can run are run, and Go queues the senders of a full channel.
UIFairness ==
    /\ \A c \in Calls :
          WF_allVars(UNCHANGED uiVars /\ (ReadScope(c) \/ Register(c) \/ Receive(c)
                                          \/ Cleanup(c) \/ Return(c)))
    /\ \A c \in Calls : SF_allVars(Announce(c))
    /\ WF_allVars(UNCHANGED uiVars /\ Send(UI))
    /\ WF_allVars(Relay)
    /\ WF_allVars(Enqueue)

\* What an operator does who, while a pause is on the prompt, opens nothing but
\* the editor for it, closes what is in the way, comes back to the traffic
\* pane, and answers.
BackToPrompt == ClickTraffic /\ open' = open

AttentiveNext ==
    \/ EngineStep
    \/ \E c \in Calls : Announce(c)
    \/ Relay \/ Enqueue \/ Decide \/ Close
    \/ active = NoPause /\ Navigate
    \/ PausedEdit \/ LeaderCommand \/ BackToPrompt

\* The operator is like that from some time on, and the goroutines run.
Attentive ==
    /\ UIFairness
    /\ <>[][AttentiveNext]_allVars
    /\ WF_allVars(Close)
    /\ WF_allVars(LeaderCommand)
    /\ WF_allVars(BackToPrompt)
    /\ WF_allVars(Decide)

-----------------------------------------------------------------------------
(* Properties.                                                             *)

UITypeOK ==
    /\ TypeOK
    /\ pauseCh \in Seq(Notifications) /\ Len(pauseCh) <= PauseChCap
    /\ relay \in Notifications \cup {NoPause}
    /\ active \in Notifications \cup {NoPause}
    /\ pauseQueue \in Seq(Notifications)
    /\ open \subseteq Modals
    /\ injecting \in BOOLEAN
    /\ ta \in Notifications \cup {NoPause, Frame}
    /\ focus \in {"terminal", "traffic"}
    /\ leader \in BOOLEAN

Listed(item) == IF item = NoPause THEN <<>> ELSE <<item>>

\* The held messages the operator is yet to decide, in the order they came.
Line == Listed(active) \o pauseQueue \o Listed(relay) \o pauseCh

\* The state has its types, and the line to the operator and the engine's table
\* agree: a message waits in
\* the line, once, exactly while its token is registered and it was announced.
\* So no pause is shown that cannot be resolved and none is missing from the
\* screen (onPause, enqueuePause, completePause against pending).
LineIsPending ==
    /\ UITypeOK
    /\ \A i \in DOMAIN Line : pending[Line[i].token] = Line[i].call
    /\ \A i, j \in DOMAIN Line : Line[i].token = Line[j].token => i = j
    /\ \A c \in Calls : pc[c] = "blocked" /\ pending[token[c]] = c =>
          \E i \in DOMAIN Line : Line[i] = [token |-> token[c], call |-> c]

\* Pauses wait their turn: the line only grows at its end and is only served
\* at its front, so an arriving pause never takes the prompt from the one the
\* operator is looking at (enqueuePause: "preserves the active pause").
InArrivalOrder ==
    [][\/ Line' = Line
       \/ Line # <<>> /\ Line' = Tail(Line)
       \/ \E n \in Notifications : Line' = Append(Line, n)]_Line

\* What Ctrl+S would send is what the editor was opened for: the message on
\* the prompt, or a frame to inject (completePause: "edits belong only to the
\* pause that seeded them").  And keyboard and mouse together never open two modals
\* at a time, behind one of which the editor would stay (the precedence of Update
\* and the gates of onMouse).
EditorBelongs ==
    /\ "editor" \in open => IF injecting THEN ta = Frame
                                         ELSE active # NoPause /\ ta = active
    /\ injecting => "editor" \in open
    /\ \A m, n \in open : m = n

\* Every held message is let go in the end, whatever the operator did before
\* attending to the prompt: no announcement is lost on its way to the screen,
\* no modal is without a way back, and answering never depends on a goroutine
\* that waits for the answer (onPause of main.go, enqueuePause, Resolve).
EveryPauseReleased ==
    Attentive => \A c \in Calls : pc[c] = "notify" ~> pc[c] = "return"

==============================================================================
