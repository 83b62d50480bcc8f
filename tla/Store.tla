--------------------------------- MODULE Store ---------------------------------
(***************************************************************************)
(* The flow store (internal/capture/store.go) and the path by which the    *)
(* traffic list learns of a flow: goroutines of the proxy record flows and *)
(* publish an event, or change flows in place and publish one later, after *)
(* an operator's hold of any length; a full channel drops the event; the   *)
(* UI answers any event by listing the whole store.                        *)
(*                                                                         *)
(* What an event says is left out, because the UI never looks at it.       *)
(***************************************************************************)
EXTENDS Naturals, SequencesExt

CONSTANTS
    Flows,      \* the flows that will be captured
    Early,      \* those that may be recorded before the UI subscribes: -load
                \* preloads them, or the target connects at once
    Writers,    \* goroutines that add and change flows
    EventCap,   \* capacity of the event channel (256 in the code)
    MaxRev,     \* bound on the number of changes of a flow
    NoFlow      \* no flow

ASSUME StoreAssumption ==
    /\ EventCap \in Nat \ {0}
    /\ MaxRev \in Nat
    /\ Early \subseteq Flows
    /\ NoFlow \notin Flows

VARIABLES
    order,      \* Store.order: the recorded flows, oldest first
    rev,        \* how often each recorded flow was changed in place
    subscribed, \* the UI's channel is in Store.subs
    events,     \* number of events in that channel
    pc, job,    \* what each writer is at, and for which flow
    relay,      \* waitEvent holds an event for the UI's loop
    flows,      \* Model.flows: the list on the screen
    viewFlow,   \* the flow of the detail view, if it is open
    viewRev     \* the revision the detail view was rendered from

storeVars == <<order, rev, subscribed, events>>
writerVars == <<pc, job>>
uiVars == <<relay, flows, viewFlow, viewRev>>
vars == <<storeVars, writerVars, uiVars>>

Recorded(f) == \E i \in DOMAIN order : order[i] = f
Listed(f) == \E i \in DOMAIN flows : flows[i] = f

Init ==
    /\ order = <<>>
    /\ rev = [f \in Flows |-> 0]
    /\ subscribed = FALSE
    /\ events = 0
    /\ pc = [w \in Writers |-> "idle"]
    /\ job = [w \in Writers |-> NoFlow]
    /\ relay = FALSE
    /\ flows = <<>>
    /\ viewFlow = NoFlow
    /\ viewRev = 0

-----------------------------------------------------------------------------
(* Writers.                                                                *)

Begin(w, f) ==
    /\ pc[w] = "idle"
    /\ pc' = [pc EXCEPT ![w] = "publish"]
    /\ job' = [job EXCEPT ![w] = f]

\* Mutation: the flow is published before it is recorded.
AddLate(w, f) ==
    \/ /\ ~ Recorded(f) /\ (subscribed \/ f \in Early)
       /\ Begin(w, f)
       /\ UNCHANGED <<storeVars, uiVars>>
    \/ /\ ~ Recorded(f) /\ pc[w] = "idle" /\ job[w] = f
       /\ order' = Append(order, f)
       /\ UNCHANGED <<rev, subscribed, events, writerVars, uiVars>>

\* Add, its critical section: the flow is recorded, then published.
Add(w, f) ==
    /\ ~ Recorded(f)
    /\ subscribed \/ f \in Early
    /\ Begin(w, f)
    /\ order' = Append(order, f)
    /\ UNCHANGED <<rev, subscribed, events, uiVars>>

\* The flow is changed in place: a message, a result, or the status that the engine
\* writes when a message of it comes to be held and when it is released.  A goroutine
\* may do so several times before it calls Touch.
Change(w, f) ==
    /\ Recorded(f)
    /\ rev[f] < MaxRev
    /\ pc[w] = "idle" \/ (pc[w] = "changed" /\ job[w] = f)
    /\ pc' = [pc EXCEPT ![w] = "changed"]
    /\ job' = [job EXCEPT ![w] = f]
    /\ rev' = [rev EXCEPT ![f] = @ + 1]
    /\ UNCHANGED <<order, subscribed, events, uiVars>>

\* Touch, for what was changed before.
Touch(w) ==
    /\ pc[w] = "changed"
    /\ pc' = [pc EXCEPT ![w] = "publish"]
    /\ UNCHANGED <<storeVars, job, uiVars>>

\* publish takes a snapshot of subs under the read lock ...
ReadSubs(w) ==
    /\ pc[w] = "publish"
    /\ pc' = [pc EXCEPT ![w] = IF subscribed THEN "send" ELSE "idle"]
    /\ UNCHANGED <<storeVars, job, uiVars>>

\* Mutation: a send that waits for room.
SendBlocking(w) ==
    /\ pc[w] = "send"
    /\ events < EventCap
    /\ events' = events + 1
    /\ pc' = [pc EXCEPT ![w] = "idle"]
    /\ UNCHANGED <<order, rev, subscribed, job, uiVars>>

\* ... and sends outside it, dropping the event when the channel is full.
Send(w) ==
    /\ pc[w] = "send"
    /\ events' = IF events < EventCap THEN events + 1 ELSE events
    /\ pc' = [pc EXCEPT ![w] = "idle"]
    /\ UNCHANGED <<order, rev, subscribed, job, uiVars>>

-----------------------------------------------------------------------------
(* The UI.                                                                 *)

\* Subscribe, called once the proxy listens and the target runs.
Subscribe ==
    /\ ~ subscribed
    /\ subscribed' = TRUE
    /\ UNCHANGED <<order, rev, events, writerVars, uiVars>>

\* waitEvent.
Relay ==
    /\ events > 0 /\ ~ relay
    /\ events' = events - 1
    /\ relay' = TRUE
    /\ UNCHANGED <<order, rev, subscribed, writerVars, flows, viewFlow, viewRev>>

\* Mutation: the list comes newest first.
NewestFirst == Reverse(order)

\* List: the store in insertion order.
List == order

\* Mutation: an open detail view is not rendered again.
RenderOnce(f) == viewRev

\* wrapDetail renders what the flow holds now.
Render(f) == IF f = NoFlow THEN viewRev ELSE rev[f]

\* Update, on an eventMsg.
Refresh ==
    /\ relay
    /\ relay' = FALSE
    /\ flows' = List
    /\ viewRev' = Render(viewFlow)
    /\ UNCHANGED <<storeVars, writerVars, viewFlow>>

\* openDetail, on the selected flow.
OpenDetail(f) ==
    /\ viewFlow = NoFlow
    /\ Listed(f)
    /\ viewFlow' = f
    /\ viewRev' = rev[f]
    /\ UNCHANGED <<storeVars, writerVars, relay, flows>>

CloseDetail ==
    /\ viewFlow # NoFlow
    /\ viewFlow' = NoFlow
    /\ UNCHANGED <<storeVars, writerVars, relay, flows, viewRev>>

-----------------------------------------------------------------------------
Publish(w) == ReadSubs(w) \/ Send(w)

Next ==
    \/ \E w \in Writers, f \in Flows : Add(w, f) \/ Change(w, f)
    \/ \E w \in Writers : Touch(w) \/ Publish(w)
    \/ Subscribe \/ Relay \/ Refresh \/ CloseDetail
    \/ \E f \in Flows : OpenDetail(f)

Spec == Init /\ [][Next]_vars

\* A writer that has begun to publish goes on.
WriterFairness == \A w \in Writers : WF_vars(Publish(w))

UIFairness == WF_vars(Subscribe) /\ WF_vars(Relay) /\ WF_vars(Refresh)

FairSpec == Spec /\ WriterFairness /\ UIFairness

-----------------------------------------------------------------------------
(* Properties.                                                             *)

TypeOK ==
    /\ order \in Seq(Flows)
    /\ rev \in [Flows -> 0 .. MaxRev]
    /\ subscribed \in BOOLEAN
    /\ events \in 0 .. EventCap
    /\ pc \in [Writers -> {"idle", "changed", "publish", "send"}]
    /\ job \in [Writers -> Flows \cup {NoFlow}]
    /\ relay \in BOOLEAN
    /\ flows \in Seq(Flows)
    /\ viewFlow \in Flows \cup {NoFlow}
    /\ viewRev \in 0 .. MaxRev

\* Something is under way that will make the UI list the store: a writer that
\* is still publishing f, an event in the channel, or one in waitEvent's hand.
Coming(f) ==
    \/ \E w \in Writers : job[w] = f /\ pc[w] \in {"publish", "send"}
    \/ events > 0
    \/ relay

\* A flow recorded while the UI listens is on the screen or about to be, even
\* when its own event was dropped (Add, publish, Update: "a dropped
\* incremental update is self-healing").
ListedOrComing == \A f \in Flows \ Early : Recorded(f) => Listed(f) \/ Coming(f)

\* A goroutine that changed f has not called Touch yet: it may be held.
Owed(f) == \E w \in Writers : job[w] = f /\ pc[w] = "changed"

\* An open detail view shows the latest content of its flow, or is about to be
\* rendered again, or a goroutine that changed the flow has still to call Touch:
\* events that are dropped, or were read by the UI before the change, leave it behind
\* for no longer than that (Touch, publish, Update's "Keep the detail view live").
DetailLive ==
    viewFlow # NoFlow =>
        viewRev = rev[viewFlow] \/ Coming(viewFlow) \/ Owed(viewFlow)

\* An open detail view is never behind its flow without a refresh on its way ("Keep
\* the detail view live as a streaming flow accrues messages").  The code does not
\* keep this: a message is recorded, and the flow marked pending, before the hold, and
\* Touch comes after it, so that the view does not show what the prompt asks about.
DetailShowsHeld ==
    viewFlow # NoFlow => viewRev = rev[viewFlow] \/ Coming(viewFlow)

\* Rows keep their places: the list only ever grows at its end (Store: "keeps
\* flows in insertion order so the list pane is stable").
ListStable == [][IsPrefix(flows, flows')]_flows

\* The proxy is never stalled by a UI that does not read its events: writers
\* get through publish though nothing obliges the UI to run (publish: "drop the
\* event rather than stall traffic").
WritersNeverStall ==
    WriterFairness => \A w \in Writers : pc[w] = "publish" ~> pc[w] = "idle"

\* A flow recorded while the UI listens comes to be listed, whichever events
\* are dropped (Add, publish, and the refresh on an eventMsg).
LaterFlowsListed ==
    WriterFairness /\ UIFairness =>
        \A f \in Flows \ Early : Recorded(f) ~> Listed(f)

\* Writers and list get on although events are dropped and the UI may be busy.
WritersAndListGetOn == WritersNeverStall /\ LaterFlowsListed

\* Every recorded flow comes to be listed, preloaded ones included (-load:
\* "into the flow list").  The code does not keep this:
\* nothing lists the store until the first event.
EveryFlowListed == \A f \in Flows : Recorded(f) ~> Listed(f)

==============================================================================
