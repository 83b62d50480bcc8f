------------------------------- MODULE Intercept -------------------------------
(***************************************************************************)
(* The intercept engine (internal/intercept/intercept.go): the handshake   *)
(* that holds a captured message in the goroutine that was carrying it     *)
(* until somebody decides what becomes of it.                              *)
(*                                                                         *)
(* A member of Calls is one goroutine inside Engine.BeforeForward or       *)
(* Engine.BeforeDeliver, together with the channel that call allocates.  A *)
(* member may be used again once nothing refers to that channel any more.  *)
(* One mutex guards the engine; every critical section is one action, and  *)
(* what the code does between two of them is a state of pc.                *)
(***************************************************************************)
EXTENDS Naturals, FiniteSets

CONSTANTS
    Directions, \* "request" (BeforeForward) and "response" (BeforeDeliver)
    Calls,      \* the calls that may be in progress at one time
    Flows,      \* captured flows
    FlowOf,     \* the flow each call acts for
    Resolvers,  \* goroutines that call Engine.Resolve
    Scopes,     \* the scope policies installed by SetScope, as sets of flows
    MaxToken,   \* largest PauseToken (2^64 - 1 in the code)
    NoCall,     \* absence of a channel
    NoVerdict   \* absence of a Resolution

Tokens == 1 .. MaxToken

\* What a Resolution makes of the message: forwarded as it was (EditedBody is
\* nil), forwarded with EditedBody, or dropped.
Verdicts == {"forward", "edit", "drop"}

\* How a call of BeforeForward or BeforeDeliver ends.
Outcomes == Verdicts \cup {"pass", "panic"}

\* The uint64 counter wraps but never runs out of free tokens: there are at
\* least as many tokens as calls in progress.
ASSUME InterceptAssumption ==
    /\ IsFiniteSet(Calls)
    /\ FlowOf \in [Calls -> Flows]
    /\ MaxToken \in Nat /\ Cardinality(Calls) <= MaxToken
    /\ \A s \in Scopes : s \subseteq Flows
    /\ NoCall \notin Calls
    /\ NoVerdict \notin Outcomes

VARIABLES
    enabled,        \* reqEnabled and respEnabled, by direction
    scope,          \* the flows the installed scope.Set selects
    nextPauseToken,
    pending,        \* token -> the call whose channel is registered under it
    pausedByFlow,   \* flow -> number of its calls between Register and Cleanup
    status,         \* flow -> capture.Status, as far as the engine writes it
    pc,             \* where each call is
    token,          \* the token each call was given, 0 before
    chan,           \* the buffered channel of each call (capacity 1)
    outcome,        \* what each call returns
    resolving       \* what each resolver has claimed and not sent yet

policyVars == <<enabled, scope>>
tableVars == <<nextPauseToken, pending, pausedByFlow, status>>
callVars == <<pc, token, chan, outcome>>
vars == <<policyVars, tableVars, callVars, resolving>>

CallStates == {"idle", "scope", "register", "notify", "blocked", "cleanup", "return"}

\* The calls of flow f that its pause count stands for.
Paused == {"notify", "blocked", "cleanup"}
PausedCalls(f) == {c \in Calls : FlowOf[c] = f /\ pc[c] \in Paused}

Claim == [call : Calls, verdict : Verdicts]
NoClaim == [call |-> NoCall, verdict |-> NoVerdict]

Holds(r, c) == resolving[r].call = c
Referenced(c) == \E r \in Resolvers : Holds(r, c)

-----------------------------------------------------------------------------
Init ==
    /\ enabled = [d \in Directions |-> FALSE]
    /\ scope = {}
    /\ nextPauseToken = 0
    /\ pending = [t \in Tokens |-> NoCall]
    /\ pausedByFlow = [f \in Flows |-> 0]
    /\ status = [f \in Flows |-> "active"]
    /\ pc = [c \in Calls |-> "idle"]
    /\ token = [c \in Calls |-> 0]
    /\ chan = [c \in Calls |-> NoVerdict]
    /\ outcome = [c \in Calls |-> NoVerdict]
    /\ resolving = [r \in Resolvers |-> NoClaim]

-----------------------------------------------------------------------------
(* Policy: SetEnabled, SetInterceptResponses and SetScope.                 *)

SetDirection(d, on) ==
    /\ enabled' = [enabled EXCEPT ![d] = on]
    /\ UNCHANGED <<scope, tableVars, callVars, resolving>>

SetScope(s) ==
    /\ scope' = s
    /\ UNCHANGED <<enabled, tableVars, callVars, resolving>>

-----------------------------------------------------------------------------
(* One call of pause.                                                      *)

\* The call leaves its critical section at state s, or returns the message
\* untouched when the policy does not select it.
ProceedOrPass(c, selected, s) ==
    /\ pc' = [pc EXCEPT ![c] = IF selected THEN s ELSE "return"]
    /\ outcome' = [outcome EXCEPT ![c] = IF selected THEN NoVerdict ELSE "pass"]
    /\ UNCHANGED <<policyVars, tableVars, token, chan, resolving>>

\* BeforeForward and BeforeDeliver read their flag in a critical section of
\* their own ...
Enter(c, d) ==
    /\ pc[c] = "idle"
    /\ ProceedOrPass(c, enabled[d], "scope")

\* ... and inScopeAnd reads the policy in a second one.
ReadScope(c) ==
    /\ pc[c] = "scope"
    /\ ProceedOrPass(c, FlowOf[c] \in scope, "register")

\* How far t lies ahead of the counter, counting cyclically and over 0.
Ahead(t) == (t + MaxToken - nextPauseToken) % (MaxToken + 1)

\* The first token after the counter that no registered pause uses: zero and
\* occupied tokens are skipped.
NextTokens ==
    LET free == {t \in Tokens : pending[t] = NoCall}
    IN  {t \in free : \A u \in free : Ahead(t) <= Ahead(u)}

Register(c) ==
    /\ pc[c] = "register"
    /\ \E t \in NextTokens :
          /\ nextPauseToken' = t
          /\ pending' = [pending EXCEPT ![t] = c]
          /\ token' = [token EXCEPT ![c] = t]
    /\ pausedByFlow' = [pausedByFlow EXCEPT ![FlowOf[c]] = @ + 1]
    /\ status' = [status EXCEPT ![FlowOf[c]] = "pending"]
    /\ pc' = [pc EXCEPT ![c] = "notify"]
    /\ UNCHANGED <<policyVars, chan, outcome, resolving>>

\* onPause runs outside the lock; it returns ...
Notify(c) ==
    /\ pc[c] = "notify"
    /\ pc' = [pc EXCEPT ![c] = "blocked"]
    /\ UNCHANGED <<policyVars, tableVars, token, chan, outcome, resolving>>

\* ... or panics, and the deferred cleanup runs while the panic unwinds.
NotifyPanics(c) ==
    /\ pc[c] = "notify"
    /\ pc' = [pc EXCEPT ![c] = "cleanup"]
    /\ outcome' = [outcome EXCEPT ![c] = "panic"]
    /\ UNCHANGED <<policyVars, tableVars, token, chan, resolving>>

Receive(c) ==
    /\ pc[c] = "blocked"
    /\ chan[c] # NoVerdict
    /\ chan' = [chan EXCEPT ![c] = NoVerdict]
    /\ outcome' = [outcome EXCEPT ![c] = chan[c]]
    /\ pc' = [pc EXCEPT ![c] = "cleanup"]
    /\ UNCHANGED <<policyVars, tableVars, token, resolving>>

\* Mutations: the token is withdrawn whoever has it by now, or never.
WithdrawAnyone(c) == [t \in Tokens |-> IF t = token[c] THEN NoCall ELSE pending[t]]
WithdrawNobody(c) == pending

\* The pause registered under c's token is withdrawn, if it is still c's own.
Withdraw(c) ==
    [t \in Tokens |-> IF t = token[c] /\ pending[t] = c THEN NoCall ELSE pending[t]]

\* Mutation: every pause that ends makes its flow active.
StatusActive(f) == "active"

\* Only the last pause of a flow to end makes the flow active again.
StatusAfter(f) == IF pausedByFlow[f] = 1 THEN "active" ELSE status[f]

\* The deferred function: a token that was reused since is left alone.
Cleanup(c) ==
    /\ pc[c] = "cleanup"
    /\ pending' = Withdraw(c)
    /\ pausedByFlow' = [pausedByFlow EXCEPT ![FlowOf[c]] = @ - 1]
    /\ status' = [status EXCEPT ![FlowOf[c]] = StatusAfter(FlowOf[c])]
    /\ pc' = [pc EXCEPT ![c] = "return"]
    /\ UNCHANGED <<policyVars, nextPauseToken, token, chan, outcome, resolving>>

\* The call has returned.  Its channel is garbage, and its name may be used for
\* another call, once no resolver holds it.
Return(c) ==
    /\ pc[c] = "return"
    /\ ~ Referenced(c)
    /\ pc' = [pc EXCEPT ![c] = "idle"]
    /\ token' = [token EXCEPT ![c] = 0]
    /\ chan' = [chan EXCEPT ![c] = NoVerdict]
    /\ outcome' = [outcome EXCEPT ![c] = NoVerdict]
    /\ UNCHANGED <<policyVars, tableVars, resolving>>

-----------------------------------------------------------------------------
(* Engine.Resolve.  A resolver claims the pause inside the lock and sends  *)
(* on its channel outside; an unknown token changes nothing.               *)

\* Mutation: the claimed token stays registered.
KeepToken(t) == pending

ClaimToken(t) == [pending EXCEPT ![t] = NoCall]

Resolve(r, t, v) ==
    /\ resolving[r] = NoClaim
    /\ pending[t] # NoCall
    /\ resolving' = [resolving EXCEPT ![r] = [call |-> pending[t], verdict |-> v]]
    /\ pending' = ClaimToken(t)
    /\ UNCHANGED <<policyVars, nextPauseToken, pausedByFlow, status, callVars>>

Deposit(r) == [chan EXCEPT ![resolving[r].call] = resolving[r].verdict]

\* The send blocks while the buffer is full.
Send(r) ==
    /\ resolving[r] # NoClaim
    /\ chan[resolving[r].call] = NoVerdict
    /\ chan' = Deposit(r)
    /\ resolving' = [resolving EXCEPT ![r] = NoClaim]
    /\ UNCHANGED <<policyVars, tableVars, pc, token, outcome>>

-----------------------------------------------------------------------------
SetPolicy ==
    \/ \E d \in Directions, on \in BOOLEAN : SetDirection(d, on)
    \/ \E s \in Scopes : SetScope(s)

Advance(c) ==
    \/ ReadScope(c) \/ Register(c) \/ Notify(c) \/ NotifyPanics(c)
    \/ Receive(c) \/ Cleanup(c) \/ Return(c)

CallStep == \E c \in Calls : Advance(c) \/ \E d \in Directions : Enter(c, d)

ResolverStep ==
    \E r \in Resolvers : Send(r) \/ \E t \in Tokens, v \in Verdicts : Resolve(r, t, v)

Next == SetPolicy \/ CallStep \/ ResolverStep

Spec == Init /\ [][Next]_vars

-----------------------------------------------------------------------------
(* Properties.                                                             *)

TypeOK ==
    /\ enabled \in [Directions -> BOOLEAN]
    /\ scope \in Scopes \cup {{}}
    /\ nextPauseToken \in 0 .. MaxToken
    /\ pending \in [Tokens -> Calls \cup {NoCall}]
    /\ pausedByFlow \in [Flows -> Nat]
    /\ status \in [Flows -> {"active", "pending"}]
    /\ pc \in [Calls -> CallStates]
    /\ token \in [Calls -> 0 .. MaxToken]
    /\ chan \in [Calls -> Verdicts \cup {NoVerdict}]
    /\ outcome \in [Calls -> Outcomes \cup {NoVerdict}]
    /\ resolving \in [Resolvers -> Claim \cup {NoClaim}]

\* A held call can always be let go: its token is still registered, or a
\* resolver has claimed it and has yet to send, or its verdict is waiting in
\* the channel.  Losing all three would hold the connection for ever (the
\* token search of pause, the conditional delete of its cleanup, Resolve).
NoLostPause ==
    \A c \in Calls : pc[c] \in {"notify", "blocked"} =>
        \/ token[c] # 0 /\ pending[token[c]] = c
        \/ Referenced(c)
        \/ chan[c] # NoVerdict

\* A resolver never blocks on its send: it is the only one to hold that
\* channel, and the one-slot buffer is free (the claim of Resolve: "concurrent
\* or duplicate resolutions cannot both send").
ResolveNeverBlocks ==
    \A r \in Resolvers : resolving[r] # NoClaim =>
        /\ chan[resolving[r].call] = NoVerdict
        /\ \A q \in Resolvers \ {r} : resolving[q].call # resolving[r].call

\* A flow is shown as pending exactly while one of its messages is held, with
\* any number of messages of the flow held at a time (pausedByFlow and the
\* status writes of pause).
StatusTellsPaused ==
    \A f \in Flows :
        /\ pausedByFlow[f] = Cardinality(PausedCalls(f))
        /\ status[f] = "pending" <=> PausedCalls(f) # {}

\* A returned call leaves nothing of itself behind: the token it had does not
\* name it any more, even when onPause panicked (the deferred cleanup).
NoStaleRegistration ==
    \A t \in Tokens : pending[t] # NoCall =>
        token[pending[t]] = t /\ pc[pending[t]] \in Paused

-----------------------------------------------------------------------------
(* The engine implements PauseSpec: a message is held, decided once, and   *)
(* released with that decision.                                            *)

Phase(c) ==
    CASE pc[c] \in {"idle", "scope", "register"} -> "free"
      [] pc[c] \in {"notify", "blocked"} /\ pending[token[c]] = c -> "held"
      [] pc[c] \in {"notify", "blocked"} /\ pending[token[c]] # c -> "decided"
      [] OTHER -> "released"

Decision(c) ==
    CASE Phase(c) = "released" -> outcome[c]
      [] Phase(c) = "decided" /\ chan[c] # NoVerdict -> chan[c]
      [] Phase(c) = "decided" /\ chan[c] = NoVerdict ->
            resolving[CHOOSE r \in Resolvers : Holds(r, c)].verdict
      [] OTHER -> NoVerdict

Abstract == INSTANCE PauseSpec WITH
    phase <- [c \in Calls |-> Phase(c)],
    decision <- [c \in Calls |-> Decision(c)]

\* Whatever the interleaving, a message leaves with the one decision that was
\* taken for it, and none leaves undecided (pause with Resolve).
ImplementsPauseSpec == Abstract!Spec

==============================================================================
