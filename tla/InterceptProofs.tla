---------------------------- MODULE InterceptProofs ----------------------------
(***************************************************************************)
(* Proofs about Intercept, for every set of calls, flows and resolvers and *)
(* every token width, and then about InterceptUI, for every capacity of    *)
(* the pause channel as well.  What is proved of the engine alone uses     *)
(* nothing that InterceptUI declares.                                      *)
(***************************************************************************)
EXTENDS InterceptUI, FiniteSetTheorems, SequenceTheorems, TLAPS

USE InterceptAssumption DEF InterceptAssumption

\* The operators that stand for one assignment are always expanded.
USE DEF StatusAfter, ClaimToken, Deposit

-----------------------------------------------------------------------------
(* The inductive invariant.                                                *)

\* A registered token names a paused call that nobody has resolved.
RegisteredUnresolved ==
    \A t \in Tokens : pending[t] # NoCall =>
        /\ token[pending[t]] = t
        /\ pc[pending[t]] \in Paused
        /\ chan[pending[t]] = NoVerdict
        /\ ~ Referenced(pending[t])

\* A claim is exclusive, its channel is empty, and its call has registered.
ClaimExclusive ==
    \A r \in Resolvers : resolving[r] # NoClaim =>
        /\ chan[resolving[r].call] = NoVerdict
        /\ pc[resolving[r].call] \in Paused \cup {"return"}
        /\ \A q \in Resolvers \ {r} : resolving[q].call # resolving[r].call

\* Before it registers a call has an empty channel; while it is paused it has
\* a token.
CallSound ==
    \A c \in Calls :
        /\ pc[c] \in {"idle", "scope", "register"} => chan[c] = NoVerdict
        /\ pc[c] \in Paused => token[c] \in Tokens

Handshake ==
    RegisteredUnresolved /\ ClaimExclusive /\ CallSound /\ NoLostPause

IInv == TypeOK /\ Handshake /\ StatusTellsPaused

-----------------------------------------------------------------------------
(* Facts about the operators of the model.                                 *)

\* A claim names a call and the absence of one does not.
LEMMA ClaimIsCall ==
    ASSUME TypeOK, NEW r \in Resolvers
    PROVE  /\ resolving[r] # NoClaim => resolving[r] \in Claim
           /\ resolving[r] # NoClaim <=> resolving[r].call \in Calls
BY DEF TypeOK, Claim, NoClaim

\* The pause count of a flow is a natural number, as its calls are finite.
LEMMA PausedCallsFinite ==
    ASSUME NEW f
    PROVE  IsFiniteSet(PausedCalls(f)) /\ Cardinality(PausedCalls(f)) \in Nat
<1>1. PausedCalls(f) \in SUBSET Calls
  BY DEF PausedCalls
<1>2. IsFiniteSet(PausedCalls(f))
  BY <1>1, FS_Subset
<1> QED
  BY <1>2, FS_CardinalityType

\* Init establishes the invariant: nothing is registered, claimed or paused.
LEMMA InitInvariant == Init => IInv
<1> SUFFICES ASSUME Init PROVE IInv
  OBVIOUS
<1> USE DEF Init
<1>1. TypeOK
  BY DEF TypeOK, CallStates, Tokens
<1>2. Handshake
  BY DEF Handshake, RegisteredUnresolved, ClaimExclusive, CallSound,
         NoLostPause, Paused, NoClaim, Holds, Referenced
<1>3. StatusTellsPaused
  <2>1. \A f \in Flows : PausedCalls(f) = {}
    BY DEF PausedCalls, Paused
  <2> QED
    BY <2>1, FS_EmptySet DEF StatusTellsPaused
<1> QED
  BY <1>1, <1>2, <1>3 DEF IInv

-----------------------------------------------------------------------------
\* Every step keeps the variables in their types; only Cleanup needs more than
\* the types, for it counts down.
LEMMA TypeStep == IInv /\ [Next]_vars => TypeOK'
<1> SUFFICES ASSUME IInv, [Next]_vars PROVE TypeOK'
  OBVIOUS
<1> USE DEF TypeOK, policyVars, tableVars, callVars, vars, CallStates
<1>0. TypeOK
  BY DEF IInv
<1>1. ASSUME SetPolicy PROVE TypeOK'
  BY <1>0, <1>1 DEF SetPolicy, SetDirection, SetScope
<1>2. ASSUME NEW c \in Calls, NEW d \in Directions, Enter(c, d) PROVE TypeOK'
  BY <1>0, <1>2 DEF Enter, ProceedOrPass, Outcomes
<1>3. ASSUME NEW c \in Calls, ReadScope(c) PROVE TypeOK'
  BY <1>0, <1>3 DEF ReadScope, ProceedOrPass, Outcomes
<1>4. ASSUME NEW c \in Calls, Register(c) PROVE TypeOK'
  <2>1. PICK t \in Tokens :
          /\ nextPauseToken' = t
          /\ pending' = [pending EXCEPT ![t] = c]
          /\ token' = [token EXCEPT ![c] = t]
    BY <1>4 DEF Register, NextTokens
  <2>2. t \in 0 .. MaxToken
    BY DEF Tokens
  <2> QED
    BY <1>0, <1>4, <2>1, <2>2 DEF Register
<1>5. ASSUME NEW c \in Calls, Notify(c) \/ NotifyPanics(c) PROVE TypeOK'
  BY <1>0, <1>5 DEF Notify, NotifyPanics, Outcomes
<1>6. ASSUME NEW c \in Calls, Receive(c) PROVE TypeOK'
  BY <1>0, <1>6 DEF Receive, Outcomes
<1>7. ASSUME NEW c \in Calls, Cleanup(c) PROVE TypeOK'
  <2>1. PausedCalls(FlowOf[c]) # {} /\ FlowOf[c] \in Flows
    BY <1>7 DEF Cleanup, PausedCalls, Paused
  <2>2. pausedByFlow[FlowOf[c]] = Cardinality(PausedCalls(FlowOf[c]))
    BY <2>1 DEF IInv, StatusTellsPaused
  <2>3. Cardinality(PausedCalls(FlowOf[c])) # 0
    BY <2>1, PausedCallsFinite, FS_EmptySet
  <2>4. pausedByFlow[FlowOf[c]] - 1 \in Nat
    BY <2>2, <2>3, PausedCallsFinite
  <2>5. pending' \in [Tokens -> Calls \cup {NoCall}]
    BY <1>0, <1>7 DEF Cleanup, Withdraw
  <2> QED
    BY <1>0, <1>7, <2>4, <2>5 DEF Cleanup
<1>8. ASSUME NEW c \in Calls, Return(c) PROVE TypeOK'
  BY <1>0, <1>8 DEF Return
<1>9. ASSUME NEW r \in Resolvers, NEW t \in Tokens, NEW v \in Verdicts, Resolve(r, t, v)
      PROVE  TypeOK'
  BY <1>0, <1>9 DEF Resolve, Claim
<1>10. ASSUME NEW r \in Resolvers, Send(r) PROVE TypeOK'
  BY <1>0, <1>10, ClaimIsCall DEF Send, Claim, NoClaim
<1>11. CASE UNCHANGED vars
  BY <1>0, <1>11
<1> QED
  BY <1>1, <1>2, <1>3, <1>4, <1>5, <1>6, <1>7, <1>8, <1>9, <1>10, <1>11
     DEF Next, CallStep, Advance, ResolverStep

-----------------------------------------------------------------------------
\* The parts of Handshake speak of pending, token, chan, resolving and pc only.
LEMMA HandshakeStep == IInv /\ [Next]_vars => Handshake'
<1> SUFFICES ASSUME IInv, [Next]_vars PROVE Handshake'
  OBVIOUS
<1> USE DEF Handshake, RegisteredUnresolved, ClaimExclusive, CallSound,
            NoLostPause, Paused, Referenced, Holds
<1>0. TypeOK /\ Handshake /\ TypeOK'
  BY TypeStep DEF IInv
<1>1. ASSUME SetPolicy PROVE Handshake'
  BY <1>0, <1>1 DEF SetPolicy, SetDirection, SetScope, tableVars, callVars
<1>2. ASSUME NEW c \in Calls, NEW s \in {"scope", "register"}, NEW selected,
             ProceedOrPass(c, selected, s), pc[c] \in {"idle", "scope"}
      PROVE  Handshake'
  BY <1>0, <1>2 DEF ProceedOrPass, tableVars, TypeOK, Claim, NoClaim, Tokens
<1>3. ASSUME NEW c \in Calls, Register(c) PROVE Handshake'
  <2>1. PICK t \in Tokens :
          /\ pending[t] = NoCall
          /\ pending' = [pending EXCEPT ![t] = c]
          /\ token' = [token EXCEPT ![c] = t]
    BY <1>3 DEF Register, NextTokens
  <2>2. pc[c] = "register" /\ pc' = [pc EXCEPT ![c] = "notify"]
    BY <1>3 DEF Register
  <2>3. chan' = chan /\ resolving' = resolving
    BY <1>3 DEF Register
  <2>4. chan[c] = NoVerdict /\ ~ Referenced(c)
    BY <1>0, <2>2, ClaimIsCall
  <2>5. RegisteredUnresolved'
    BY <1>0, <2>1, <2>2, <2>3, <2>4 DEF TypeOK
  <2>6. ClaimExclusive'
    BY <1>0, <2>1, <2>2, <2>3, <2>4, ClaimIsCall DEF TypeOK
  <2>7. CallSound'
    BY <1>0, <2>1, <2>2, <2>3, <2>4 DEF TypeOK
  <2>8. NoLostPause'
    BY <1>0, <2>1, <2>2, <2>3, <2>4 DEF TypeOK, Tokens
  <2> QED
    BY <2>5, <2>6, <2>7, <2>8
<1>4. ASSUME NEW c \in Calls, Notify(c) \/ NotifyPanics(c) PROVE Handshake'
  BY <1>0, <1>4, ClaimIsCall DEF Notify, NotifyPanics, tableVars, TypeOK
<1>5. ASSUME NEW c \in Calls, Receive(c) PROVE Handshake'
  BY <1>0, <1>5, ClaimIsCall DEF Receive, tableVars, TypeOK
<1>6. ASSUME NEW c \in Calls, Cleanup(c) PROVE Handshake'
  BY <1>0, <1>6, ClaimIsCall DEF Cleanup, Withdraw, TypeOK
<1>7. ASSUME NEW c \in Calls, Return(c) PROVE Handshake'
  BY <1>0, <1>7, ClaimIsCall DEF Return, tableVars, TypeOK
<1>8. ASSUME NEW r \in Resolvers, NEW t \in Tokens, NEW v \in Verdicts, Resolve(r, t, v)
      PROVE  Handshake'
  BY <1>0, <1>8, ClaimIsCall DEF Resolve, callVars, TypeOK, NoClaim
<1>9. ASSUME NEW r \in Resolvers, Send(r) PROVE Handshake'
  <2> DEFINE k == resolving[r].call
  <2>1. k \in Calls /\ resolving[r].verdict \in Verdicts
    BY <1>0, <1>9, ClaimIsCall DEF Send, Claim
  <2>2. /\ chan' = [chan EXCEPT ![k] = resolving[r].verdict]
        /\ resolving' = [resolving EXCEPT ![r] = NoClaim]
        /\ pending' = pending /\ pc' = pc /\ token' = token
    BY <1>9 DEF Send, tableVars
  <2>3. chan'[k] # NoVerdict /\ \A c \in Calls \ {k} : chan'[c] = chan[c]
    BY <1>0, <2>1, <2>2 DEF TypeOK, Outcomes
  <2>4. \A q \in Resolvers \ {r} : resolving'[q] = resolving[q] /\ resolving[q].call # k
    BY <1>0, <1>9, <2>2 DEF TypeOK, Send
  <2>5. resolving'[r].call = NoCall
    BY <1>0, <2>2 DEF TypeOK, NoClaim
  <2>6. RegisteredUnresolved'
    BY <1>0, <2>1, <2>2, <2>3, <2>4, <2>5 DEF TypeOK
  <2>7. ClaimExclusive'
    BY <1>0, <2>1, <2>2, <2>3, <2>4, <2>5, ClaimIsCall DEF TypeOK, NoClaim
  <2>8. CallSound'
    BY <1>0, <1>9, <2>1, <2>2, <2>3 DEF Send
  <2>9. NoLostPause'
    BY <1>0, <2>1, <2>2, <2>3, <2>4
  <2> QED
    BY <2>6, <2>7, <2>8, <2>9
<1>10. CASE UNCHANGED vars
  BY <1>0, <1>10 DEF vars, tableVars, callVars
<1> QED
  BY <1>1, <1>2, <1>3, <1>4, <1>5, <1>6, <1>7, <1>8, <1>9, <1>10
     DEF Next, CallStep, Advance, ResolverStep, Enter, ReadScope

-----------------------------------------------------------------------------
\* A step that leaves every call paused or not paused, and the counts and the
\* statuses alone, preserves StatusTellsPaused.
LEMMA CountUndisturbed ==
    ASSUME StatusTellsPaused, UNCHANGED <<pausedByFlow, status>>,
           \A c \in Calls : pc'[c] \in Paused <=> pc[c] \in Paused
    PROVE  StatusTellsPaused'
<1>1. \A f \in Flows : PausedCalls(f)' = PausedCalls(f)
  BY DEF PausedCalls
<1> QED
  BY <1>1 DEF StatusTellsPaused

\* Register counts a call in and Cleanup counts it out.
LEMMA CountStep == IInv /\ [Next]_vars => StatusTellsPaused'
<1> SUFFICES ASSUME IInv, [Next]_vars PROVE StatusTellsPaused'
  OBVIOUS
<1>0. TypeOK /\ StatusTellsPaused
  BY DEF IInv
<1>1. ASSUME SetPolicy PROVE StatusTellsPaused'
  BY <1>0, <1>1, CountUndisturbed DEF SetPolicy, SetDirection, SetScope, tableVars, callVars
<1>2. ASSUME NEW c \in Calls, NEW s \in {"scope", "register"}, NEW selected,
             ProceedOrPass(c, selected, s), pc[c] \in {"idle", "scope"}
      PROVE  StatusTellsPaused'
  BY <1>0, <1>2, CountUndisturbed DEF ProceedOrPass, tableVars, TypeOK, Paused
<1>3. ASSUME NEW c \in Calls, Register(c) PROVE StatusTellsPaused'
  <2>1. /\ pc[c] = "register"
        /\ pc' = [pc EXCEPT ![c] = "notify"]
        /\ pausedByFlow' = [pausedByFlow EXCEPT ![FlowOf[c]] = @ + 1]
        /\ status' = [status EXCEPT ![FlowOf[c]] = "pending"]
    BY <1>3 DEF Register
  <2>2. c \notin PausedCalls(FlowOf[c])
    BY <2>1 DEF PausedCalls, Paused
  <2>3. PausedCalls(FlowOf[c])' = PausedCalls(FlowOf[c]) \cup {c}
    BY <1>0, <2>1 DEF PausedCalls, Paused, TypeOK
  <2>4. \A f \in Flows \ {FlowOf[c]} : PausedCalls(f)' = PausedCalls(f)
    BY <1>0, <2>1 DEF PausedCalls, TypeOK
  <2>5. Cardinality(PausedCalls(FlowOf[c])') = Cardinality(PausedCalls(FlowOf[c])) + 1
    BY <2>2, <2>3, PausedCallsFinite, FS_AddElement
  <2> QED
    BY <1>0, <2>1, <2>3, <2>4, <2>5 DEF StatusTellsPaused, TypeOK
<1>4. ASSUME NEW c \in Calls,
             Notify(c) \/ NotifyPanics(c) \/ Receive(c) \/ Return(c)
      PROVE  StatusTellsPaused'
  BY <1>0, <1>4, CountUndisturbed
     DEF Notify, NotifyPanics, Receive, Return, tableVars, TypeOK, Paused
<1>5. ASSUME NEW c \in Calls, Cleanup(c) PROVE StatusTellsPaused'
  <2> DEFINE f == FlowOf[c]
  <2>1. /\ pc[c] = "cleanup"
        /\ pc' = [pc EXCEPT ![c] = "return"]
        /\ pausedByFlow' = [pausedByFlow EXCEPT ![f] = @ - 1]
        /\ status' = [status EXCEPT ![f] = IF pausedByFlow[f] = 1 THEN "active" ELSE @]
    BY <1>5 DEF Cleanup
  <2>2. f \in Flows /\ c \in PausedCalls(f)
    BY <2>1 DEF PausedCalls, Paused
  <2>3. PausedCalls(f)' = PausedCalls(f) \ {c}
    BY <1>0, <2>1 DEF PausedCalls, Paused, TypeOK
  <2>4. \A g \in Flows \ {f} : PausedCalls(g)' = PausedCalls(g)
    BY <1>0, <2>1 DEF PausedCalls, TypeOK
  <2>5. Cardinality(PausedCalls(f)') = Cardinality(PausedCalls(f)) - 1
    BY <2>2, <2>3, PausedCallsFinite, FS_RemoveElement, ZenonT(30)
  <2>6. IsFiniteSet(PausedCalls(f)')
    BY <2>3, PausedCallsFinite, FS_RemoveElement
  <2>7. pausedByFlow[f] = 1 <=> PausedCalls(f)' = {}
    BY <1>0, <2>2, <2>5, <2>6, PausedCallsFinite, FS_EmptySet DEF StatusTellsPaused
  <2>8. status[f] = "pending"
    BY <1>0, <2>2 DEF StatusTellsPaused
  <2>9. pausedByFlow'[f] = Cardinality(PausedCalls(f)')
    BY <1>0, <2>1, <2>2, <2>5 DEF StatusTellsPaused, TypeOK
  <2>10. status'[f] = "pending" <=> PausedCalls(f)' # {}
    BY <1>0, <2>1, <2>2, <2>7, <2>8 DEF TypeOK
  <2>11. \A g \in Flows \ {f} :
            pausedByFlow'[g] = pausedByFlow[g] /\ status'[g] = status[g]
    BY <1>0, <2>1 DEF TypeOK
  <2> QED
    BY <1>0, <2>4, <2>9, <2>10, <2>11 DEF StatusTellsPaused
<1>6. ASSUME ResolverStep PROVE StatusTellsPaused'
  BY <1>0, <1>6, CountUndisturbed DEF ResolverStep, Resolve, Send, tableVars, callVars
<1>7. CASE UNCHANGED vars
  BY <1>0, <1>7, CountUndisturbed DEF vars, tableVars, callVars
<1> QED
  BY <1>1, <1>2, <1>3, <1>4, <1>5, <1>6, <1>7
     DEF Next, CallStep, Advance, Enter, ReadScope

-----------------------------------------------------------------------------
(* The theorems.                                                           *)

\* The invariant holds throughout every behaviour of the engine.
THEOREM Invariance == Spec => []IInv
<1>1. IInv /\ [Next]_vars => IInv'
  BY TypeStep, HandshakeStep, CountStep DEF IInv
<1> QED
  BY <1>1, InitInvariant, PTL DEF Spec

\* Every variable of the engine keeps its type; in particular a pause count
\* never goes below zero.
THEOREM TypeCorrect == Spec => []TypeOK
<1>1. IInv => TypeOK
  BY DEF IInv
<1> QED
  BY <1>1, Invariance, PTL

\* No pause is lost: a held call is registered, claimed or has its verdict.
THEOREM PausesAreKept == Spec => []NoLostPause
<1>1. IInv => NoLostPause
  BY DEF IInv, Handshake
<1> QED
  BY <1>1, Invariance, PTL

\* Engine.Resolve never blocks on its send, with any number of resolvers.
THEOREM ResolversDoNotBlock == Spec => []ResolveNeverBlocks
<1>1. IInv => ResolveNeverBlocks
  BY DEF IInv, Handshake, ClaimExclusive, ResolveNeverBlocks
<1> QED
  BY <1>1, Invariance, PTL

\* A flow shows as pending exactly while one of its messages is held.
THEOREM StatusIsExact == Spec => []StatusTellsPaused
<1>1. IInv => StatusTellsPaused
  BY DEF IInv
<1> QED
  BY <1>1, Invariance, PTL

\* A returned call leaves no registration behind, after a panic either.
THEOREM RegistrationsAreLive == Spec => []NoStaleRegistration
<1>1. IInv => NoStaleRegistration
  BY DEF IInv, Handshake, RegisteredUnresolved, NoStaleRegistration
<1> QED
  BY <1>1, Invariance, PTL

-----------------------------------------------------------------------------
(* The engine implements PauseSpec.                                        *)

\* Where one call is looked at, phases and decisions are given case by case.
LEMMA PhaseCases ==
    ASSUME TypeOK, NEW c \in Calls
    PROVE  /\ pc[c] \in {"idle", "scope", "register"} => Phase(c) = "free"
           /\ pc[c] \in {"notify", "blocked"} /\ pending[token[c]] = c => Phase(c) = "held"
           /\ pc[c] \in {"notify", "blocked"} /\ pending[token[c]] # c => Phase(c) = "decided"
           /\ pc[c] \in {"cleanup", "return"} => Phase(c) = "released"
BY DEF Phase, TypeOK, CallStates

LEMMA DecisionCases ==
    ASSUME NEW c \in Calls
    PROVE  /\ Phase(c) = "released" => Decision(c) = outcome[c]
           /\ Phase(c) = "decided" /\ chan[c] # NoVerdict => Decision(c) = chan[c]
           /\ Phase(c) \in {"free", "held"} => Decision(c) = NoVerdict
BY DEF Decision

\* An exclusive claim is the one that CHOOSE finds.
LEMMA ExclusiveHolder ==
    ASSUME NEW res, NEW r \in Resolvers, NEW c, res[r].call = c,
           \A q \in Resolvers \ {r} : res[q].call # c
    PROVE  (CHOOSE q \in Resolvers : res[q].call = c) = r
OBVIOUS

LEMMA ClaimedDecision ==
    ASSUME TypeOK, ClaimExclusive, NEW c \in Calls, NEW r \in Resolvers,
           Holds(r, c), Phase(c) = "decided"
    PROVE  Decision(c) = resolving[r].verdict
<1>1. /\ chan[c] = NoVerdict
      /\ \A q \in Resolvers \ {r} : resolving[q].call # c
  BY ClaimIsCall DEF ClaimExclusive, Holds
<1>2. (CHOOSE q \in Resolvers : Holds(q, c)) = r
  BY <1>1, ExclusiveHolder DEF Holds
<1> QED
  BY <1>1, <1>2 DEF Decision

\* The same facts of the state a step leads to.
LEMMA ClaimedDecisionNext ==
    ASSUME TypeOK', ClaimExclusive', NEW c \in Calls, NEW r \in Resolvers,
           Holds(r, c)', Phase(c)' = "decided"
    PROVE  Decision(c)' = resolving'[r].verdict
<1>0. resolving'[r] # NoClaim
  BY DEF Holds, NoClaim
<1>1. /\ chan'[c] = NoVerdict
      /\ \A q \in Resolvers \ {r} : resolving'[q].call # c
  BY <1>0 DEF ClaimExclusive, Holds
<1>2. (CHOOSE q \in Resolvers : Holds(q, c)') = r
  BY <1>1, ExclusiveHolder DEF Holds
<1> QED
  BY <1>1, <1>2 DEF Decision

\* A call none of whose own state a step touches keeps phase and decision.
LEMMA CallUndisturbed ==
    ASSUME IInv, TypeOK', Handshake', NEW b \in Calls,
           pc'[b] = pc[b], token'[b] = token[b], chan'[b] = chan[b],
           outcome'[b] = outcome[b],
           pc[b] \in Paused => (pending'[token[b]] = b <=> pending[token[b]] = b),
           \A q \in Resolvers : Holds(q, b) => resolving'[q] = resolving[q]
    PROVE  Phase(b)' = Phase(b) /\ Decision(b)' = Decision(b)
<1>1. Phase(b)' = Phase(b)
  BY DEF Phase, Paused
<1>2. CASE Phase(b) = "decided" /\ chan[b] = NoVerdict
  <2>1. pc[b] \in {"notify", "blocked"} /\ pending[token[b]] # b
    BY <1>2, PhaseCases DEF IInv, TypeOK, CallStates
  <2>2. PICK q \in Resolvers : Holds(q, b)
    BY <1>2, <2>1 DEF IInv, Handshake, NoLostPause, Referenced
  <2>3. Holds(q, b)' /\ resolving'[q] = resolving[q]
    BY <2>2 DEF Holds
  <2> QED
    BY <1>1, <1>2, <2>2, <2>3, ClaimedDecision, ClaimedDecisionNext DEF IInv, Handshake
<1>3. CASE ~ (Phase(b) = "decided" /\ chan[b] = NoVerdict)
  BY <1>1, <1>3 DEF Decision
<1> QED
  BY <1>1, <1>2, <1>3

\* What one call does is a move of the abstract specification when the other
\* calls keep their phases and decisions.
LEMMA AbstractMove ==
    ASSUME NEW c \in Calls, NEW from, NEW to, NEW d,
           Phase(c) = from, Phase(c)' = to, Decision(c)' = d,
           \A b \in Calls \ {c} : Phase(b)' = Phase(b) /\ Decision(b)' = Decision(b)
    PROVE  Abstract!Move(c, from, to, d)
BY DEF Abstract!Move

LEMMA AbstractStutter ==
    ASSUME \A b \in Calls : Phase(b)' = Phase(b) /\ Decision(b)' = Decision(b)
    PROVE  UNCHANGED Abstract!vars
BY DEF Abstract!vars

LEMMA AbstractInit == Init => Abstract!Init
BY DEF Init, Abstract!Init, Phase, Decision

\* Every step of the engine is a move of PauseSpec or leaves it unchanged.
LEMMA AbstractStep ==
    ASSUME IInv, IInv', [Next]_vars
    PROVE  [Abstract!Next]_(Abstract!vars)
<1> USE DEF TypeOK, Paused, CallStates
<1>0. TypeOK /\ Handshake /\ TypeOK' /\ Handshake'
  BY DEF IInv
<1> DEFINE Kept(b) == Phase(b)' = Phase(b) /\ Decision(b)' = Decision(b)
<1>1. ASSUME SetPolicy PROVE \A b \in Calls : Kept(b)
  BY <1>0, <1>1, CallUndisturbed DEF SetPolicy, SetDirection, SetScope, tableVars, callVars
<1>2. ASSUME NEW c \in Calls, NEW s \in {"scope", "register"}, NEW selected,
             ProceedOrPass(c, selected, s), pc[c] \in {"idle", "scope"}
      PROVE  [Abstract!Next]_(Abstract!vars)
  <2>1. /\ pc' = [pc EXCEPT ![c] = IF selected THEN s ELSE "return"]
        /\ outcome' = [outcome EXCEPT ![c] = IF selected THEN NoVerdict ELSE "pass"]
        /\ pending' = pending /\ token' = token /\ chan' = chan /\ resolving' = resolving
    BY <1>2 DEF ProceedOrPass, tableVars
  <2>2. \A b \in Calls \ {c} : Kept(b)
    BY <1>0, <2>1, CallUndisturbed
  <2>3. Phase(c) = "free" /\ Decision(c) = NoVerdict
    BY <1>0, <1>2, PhaseCases, DecisionCases
  <2>4. CASE selected
    <3>1. Phase(c)' = "free" /\ Decision(c)' = NoVerdict
      BY <1>0, <2>1, <2>4 DEF Phase, Decision
    <3> QED
      BY <2>2, <2>3, <3>1, AbstractStutter
  <2>5. CASE ~ selected
    <3>1. Phase(c)' = "released" /\ Decision(c)' = "pass"
      BY <1>0, <2>1, <2>5 DEF Phase, Decision
    <3> QED
      BY <2>2, <2>3, <3>1, AbstractMove DEF Abstract!Next, Abstract!Pass
  <2> QED
    BY <2>4, <2>5
<1>3. ASSUME NEW c \in Calls, Register(c) PROVE Abstract!Next
  <2>1. PICK t \in Tokens :
          /\ pending[t] = NoCall
          /\ pending' = [pending EXCEPT ![t] = c]
          /\ token' = [token EXCEPT ![c] = t]
    BY <1>3 DEF Register, NextTokens
  <2>2. /\ pc[c] = "register" /\ pc' = [pc EXCEPT ![c] = "notify"]
        /\ chan' = chan /\ outcome' = outcome /\ resolving' = resolving
    BY <1>3 DEF Register
  <2>3. \A b \in Calls \ {c} : Kept(b)
    BY <1>0, <2>1, <2>2, CallUndisturbed
  <2>4. Phase(c) = "free"
    BY <1>0, <2>2, PhaseCases
  <2>5. Phase(c)' = "held" /\ Decision(c)' = NoVerdict
    BY <1>0, <2>1, <2>2 DEF Phase, Decision
  <2> QED
    BY <2>3, <2>4, <2>5, AbstractMove DEF Abstract!Next, Abstract!Hold
<1>4. ASSUME NEW c \in Calls, Notify(c) PROVE \A b \in Calls : Kept(b)
  <2>1. /\ pc[c] = "notify" /\ pc' = [pc EXCEPT ![c] = "blocked"]
        /\ pending' = pending /\ token' = token /\ chan' = chan
        /\ outcome' = outcome /\ resolving' = resolving
    BY <1>4 DEF Notify, tableVars
  <2>2. \A b \in Calls \ {c} : Kept(b)
    BY <1>0, <2>1, CallUndisturbed
  <2>3. Phase(c)' = Phase(c)
    BY <1>0, <2>1 DEF Phase
  <2>4. Decision(c)' = Decision(c)
    BY <1>0, <2>1, <2>3 DEF Decision, Holds
  <2> QED
    BY <2>2, <2>3, <2>4
<1>5. ASSUME NEW c \in Calls, NotifyPanics(c) PROVE Abstract!Next
  <2>1. /\ pc[c] = "notify" /\ pc' = [pc EXCEPT ![c] = "cleanup"]
        /\ pending' = pending /\ token' = token /\ chan' = chan
        /\ outcome' = [outcome EXCEPT ![c] = "panic"] /\ resolving' = resolving
    BY <1>5 DEF NotifyPanics, tableVars
  <2>2. \A b \in Calls \ {c} : Kept(b)
    BY <1>0, <2>1, CallUndisturbed
  <2>3. Phase(c) \in {"held", "decided"}
    BY <1>0, <2>1, PhaseCases
  <2>4. Phase(c)' = "released" /\ Decision(c)' = "panic"
    BY <1>0, <2>1 DEF Phase, Decision
  <2> QED
    BY <2>2, <2>3, <2>4, AbstractMove DEF Abstract!Next, Abstract!Abort
<1>6. ASSUME NEW c \in Calls, Receive(c) PROVE Abstract!Next
  <2>1. /\ pc[c] = "blocked" /\ pc' = [pc EXCEPT ![c] = "cleanup"]
        /\ chan[c] # NoVerdict /\ chan' = [chan EXCEPT ![c] = NoVerdict]
        /\ outcome' = [outcome EXCEPT ![c] = chan[c]]
        /\ pending' = pending /\ token' = token /\ resolving' = resolving
    BY <1>6 DEF Receive, tableVars
  <2>2. \A b \in Calls \ {c} : Kept(b)
    BY <1>0, <2>1, CallUndisturbed
  <2>3. pending[token[c]] # c
    BY <1>0, <2>1 DEF Handshake, RegisteredUnresolved, CallSound
  <2>4. Phase(c) = "decided" /\ Decision(c) = chan[c]
    BY <1>0, <2>1, <2>3, PhaseCases, DecisionCases
  <2>5. Phase(c)' = "released" /\ Decision(c)' = chan[c]
    BY <1>0, <2>1 DEF Phase, Decision
  <2>6. Abstract!Move(c, "decided", "released", Decision(c))
    BY <2>2, <2>4, <2>5, AbstractMove
  <2> QED
    BY <2>6 DEF Abstract!Next, Abstract!Release
<1>7. ASSUME NEW c \in Calls, Cleanup(c) PROVE \A b \in Calls : Kept(b)
  <2>1. /\ pc[c] = "cleanup" /\ pc' = [pc EXCEPT ![c] = "return"]
        /\ pending' = Withdraw(c) /\ token' = token /\ chan' = chan
        /\ outcome' = outcome /\ resolving' = resolving
    BY <1>7 DEF Cleanup
  <2>2. \A b \in Calls \ {c} : Kept(b)
    <3> SUFFICES ASSUME NEW b \in Calls \ {c} PROVE Kept(b)
      OBVIOUS
    <3>1. pc[b] \in Paused => (pending'[token[b]] = b <=> pending[token[b]] = b)
      BY <1>0, <2>1 DEF Withdraw, Handshake, CallSound
    <3> QED
      BY <1>0, <2>1, <3>1, CallUndisturbed
  <2>3. Kept(c)
    BY <1>0, <2>1 DEF Phase, Decision
  <2> QED
    BY <2>2, <2>3
<1>8. ASSUME NEW c \in Calls, Return(c) PROVE Abstract!Next
  <2>1. /\ pc[c] = "return" /\ pc' = [pc EXCEPT ![c] = "idle"]
        /\ token' = [token EXCEPT ![c] = 0]
        /\ chan' = [chan EXCEPT ![c] = NoVerdict]
        /\ outcome' = [outcome EXCEPT ![c] = NoVerdict]
        /\ pending' = pending /\ resolving' = resolving
    BY <1>8 DEF Return, tableVars
  <2>2. \A b \in Calls \ {c} : Kept(b)
    BY <1>0, <2>1, CallUndisturbed
  <2>3. Phase(c) = "released"
    BY <1>0, <2>1, PhaseCases
  <2>4. Phase(c)' = "free" /\ Decision(c)' = NoVerdict
    BY <1>0, <2>1 DEF Phase, Decision
  <2> QED
    BY <2>2, <2>3, <2>4, AbstractMove DEF Abstract!Next, Abstract!Reuse
<1>9. ASSUME NEW r \in Resolvers, NEW t \in Tokens, NEW v \in Verdicts, Resolve(r, t, v)
      PROVE  [Abstract!Next]_(Abstract!vars)
  <2>0. PICK c \in Calls : c = pending[t]
    BY <1>0, <1>9 DEF Resolve
  <2>1. /\ pending[t] = c /\ pending' = [pending EXCEPT ![t] = NoCall]
        /\ resolving[r] = NoClaim
        /\ resolving' = [resolving EXCEPT ![r] = [call |-> c, verdict |-> v]]
        /\ pc' = pc /\ token' = token /\ chan' = chan /\ outcome' = outcome
    BY <1>9, <2>0 DEF Resolve, callVars
  <2>2. token[c] = t /\ pc[c] \in Paused /\ chan[c] = NoVerdict
    BY <1>0, <1>9, <2>0 DEF Resolve, Handshake, RegisteredUnresolved
  <2>3. \A b \in Calls \ {c} : Kept(b)
    <3> SUFFICES ASSUME NEW b \in Calls \ {c} PROVE Kept(b)
      OBVIOUS
    <3>1. pending'[token[b]] = b <=> pending[token[b]] = b
      BY <1>0, <2>1
    <3>2. \A q \in Resolvers : Holds(q, b) => resolving'[q] = resolving[q]
      BY <1>0, <2>1 DEF Holds, NoClaim
    <3> QED
      BY <1>0, <2>1, <3>1, <3>2, CallUndisturbed
  <2>4. CASE pc[c] = "cleanup"
    <3>1. Kept(c)
      BY <1>0, <2>1, <2>4 DEF Phase, Decision
    <3> QED
      BY <2>3, <3>1, AbstractStutter
  <2>5. CASE pc[c] # "cleanup"
    <3>1. Phase(c) = "held"
      BY <1>0, <2>1, <2>2, <2>5, PhaseCases
    <3>2. pending'[token'[c]] # c /\ pc'[c] \in {"notify", "blocked"}
      BY <1>0, <2>1, <2>2, <2>5
    <3>3. Phase(c)' = "decided"
      BY <3>2 DEF Phase
    <3>4. Holds(r, c)' /\ resolving'[r].verdict = v
      BY <1>0, <2>1 DEF Holds
    <3>5. Decision(c)' = v
      BY <1>0, <2>1, <3>3, <3>4, ClaimedDecisionNext DEF Handshake
    <3>6. Abstract!Move(c, "held", "decided", v)
      BY <2>1, <2>3, <3>1, <3>3, <3>5, AbstractMove
    <3> QED
      BY <2>1, <3>6 DEF Abstract!Next, Abstract!Decide
  <2> QED
    BY <2>4, <2>5
<1>10. ASSUME NEW r \in Resolvers, Send(r) PROVE \A b \in Calls : Kept(b)
  <2>1. PICK c \in Calls : c = resolving[r].call /\ resolving[r].verdict \in Verdicts
    BY <1>0, <1>10, ClaimIsCall DEF Send, Claim
  <2>2. /\ chan' = [chan EXCEPT ![c] = resolving[r].verdict]
        /\ resolving' = [resolving EXCEPT ![r] = NoClaim]
        /\ pending' = pending /\ pc' = pc /\ token' = token /\ outcome' = outcome
    BY <1>10, <2>1 DEF Send, tableVars
  <2>3. \A b \in Calls \ {c} : Kept(b)
    <3> SUFFICES ASSUME NEW b \in Calls \ {c} PROVE Kept(b)
      OBVIOUS
    <3>1. \A q \in Resolvers : Holds(q, b) => resolving'[q] = resolving[q]
      BY <1>0, <2>1, <2>2 DEF Holds
    <3>2. chan'[b] = chan[b]
      BY <1>0, <2>2
    <3> QED
      BY <1>0, <2>2, <3>1, <3>2, CallUndisturbed
  <2>4. Phase(c)' = Phase(c)
    BY <2>2 DEF Phase
  <2>5. CASE Phase(c) = "decided"
    <3>1. Decision(c) = resolving[r].verdict
      BY <1>0, <2>1, <2>5, ClaimedDecision DEF Handshake, Holds
    <3>2. chan'[c] = resolving[r].verdict /\ chan'[c] # NoVerdict
      BY <1>0, <2>1, <2>2 DEF Outcomes
    <3>3. Decision(c)' = resolving[r].verdict
      BY <2>4, <2>5, <3>2 DEF Decision
    <3> QED
      BY <2>3, <2>4, <3>1, <3>3
  <2>6. CASE Phase(c) # "decided"
    <3>1. Decision(c)' = Decision(c)
      BY <2>2, <2>4, <2>6 DEF Decision
    <3> QED
      BY <2>3, <2>4, <3>1
  <2> QED
    BY <2>5, <2>6
<1>11. ASSUME UNCHANGED vars PROVE \A b \in Calls : Kept(b)
  BY <1>0, <1>11, CallUndisturbed DEF vars, tableVars, callVars
<1>12. ASSUME \A b \in Calls : Kept(b) PROVE [Abstract!Next]_(Abstract!vars)
  BY <1>12, AbstractStutter
<1>13. ASSUME NEW c \in Calls, Advance(c) PROVE [Abstract!Next]_(Abstract!vars)
  <2> HIDE DEF Kept
  <2> QED
    BY <1>2, <1>3, <1>4, <1>5, <1>6, <1>7, <1>8, <1>12, <1>13 DEF Advance, ReadScope
<1>14. ASSUME NEW c \in Calls, NEW d \in Directions, Enter(c, d)
       PROVE  [Abstract!Next]_(Abstract!vars)
  BY <1>2, <1>14 DEF Enter
<1>15. ASSUME ResolverStep PROVE [Abstract!Next]_(Abstract!vars)
  <2> HIDE DEF Kept
  <2> QED
    BY <1>9, <1>10, <1>12, <1>15 DEF ResolverStep
<1> HIDE DEF Kept
<1> QED
  BY <1>1, <1>11, <1>12, <1>13, <1>14, <1>15 DEF Next, CallStep

\* The engine implements PauseSpec: a message is held, one decision is taken
\* for it, and it leaves with that decision and with no other.
THEOREM Refinement == Spec => ImplementsPauseSpec
<1>1. Init => Abstract!Init
  BY AbstractInit
<1>2. IInv /\ IInv' /\ [Next]_vars => [Abstract!Next]_(Abstract!vars)
  BY AbstractStep
<1> QED
  BY <1>1, <1>2, Invariance, PTL DEF Spec, ImplementsPauseSpec, Abstract!Spec

-----------------------------------------------------------------------------
(* The engine with the UI.  The inductive invariant.                       *)

USE InterceptUIAssumption DEF InterceptUIAssumption
HIDE DEF StatusAfter, Deposit

\* Every pause in the line is one its call is blocked on, and is registered.
LineWaits ==
    \A i \in DOMAIN Line :
        /\ pending[Line[i].token] = Line[i].call
        /\ pc[Line[i].call] = "blocked"

LineOnce ==
    \A i, j \in DOMAIN Line : Line[i].token = Line[j].token => i = j

LineComplete ==
    \A c \in Calls : pc[c] = "blocked" /\ pending[token[c]] = c =>
        \E i \in DOMAIN Line : Line[i] = [token |-> token[c], call |-> c]

\* Nobody can resolve a pause before it is announced.
UnannouncedPending ==
    \A c \in Calls : pc[c] = "notify" => pending[token[c]] = c

\* A pause waits behind another one, never behind an empty prompt.
QueueBehind == active = NoPause => pauseQueue = <<>>

LineSound == LineWaits /\ LineOnce /\ LineComplete /\ UnannouncedPending

UIInv == IInv /\ UITypeOK /\ QueueBehind /\ LineSound

-----------------------------------------------------------------------------
(* Facts about the line.                                                   *)

LEMMA ListedCases ==
    ASSUME NEW x \in Notifications \cup {NoPause}
    PROVE  /\ Listed(x) \in Seq(Notifications)
           /\ x = NoPause => Listed(x) = <<>>
           /\ x # NoPause => x \in Notifications /\ Listed(x) = <<x>>
BY DEF Listed

\* The line is a sequence of notifications: the prompt, then what is behind.
LEMMA LineType ==
    ASSUME UITypeOK
    PROVE  /\ Line \in Seq(Notifications)
           /\ DOMAIN Line = 1 .. Len(Line) /\ Len(Line) \in Nat
<1>1. /\ Listed(active) \in Seq(Notifications)
      /\ Listed(relay) \in Seq(Notifications)
      /\ pauseQueue \in Seq(Notifications) /\ pauseCh \in Seq(Notifications)
  BY ListedCases DEF UITypeOK
<1>2. Line \in Seq(Notifications)
  BY <1>1, ConcatProperties DEF Line
<1> QED
  BY <1>2, LenProperties

\* What announces a pause puts it at the end of the line ...
LEMMA ConcatAppend ==
    ASSUME NEW S, NEW s \in Seq(S), NEW t \in Seq(S), NEW e \in S
    PROVE  s \o Append(t, e) = Append(s \o t, e)
<1>1. Append(t, e) = t \o <<e>> /\ <<e>> \in Seq(S)
  BY AppendIsConcat
<1>2. s \o (t \o <<e>>) = (s \o t) \o <<e>>
  BY <1>1, ConcatAssociative
<1>3. s \o t \in Seq(S)
  BY ConcatProperties
<1>4. Append(s \o t, e) = (s \o t) \o <<e>>
  BY <1>3, AppendIsConcat
<1> QED
  BY <1>1, <1>2, <1>4

\* ... and a notification moves on between two places of the line that meet.
LEMMA ConcatHandOver ==
    ASSUME NEW S, NEW s \in Seq(S), NEW t \in Seq(S), t # <<>>
    PROVE  /\ (s \o <<>>) \o t = (s \o <<Head(t)>>) \o Tail(t)
           /\ (<<>> \o s) \o t = s \o t
<1>1. Head(t) \in S /\ Tail(t) \in Seq(S) /\ <<Head(t)>> \in Seq(S)
  BY HeadTailProperties
<1>2. t = <<Head(t)>> \o Tail(t)
  <2>1. Len(<<Head(t)>> \o Tail(t)) = Len(t) /\ <<Head(t)>> \o Tail(t) \in Seq(S)
    BY <1>1, ConcatProperties, HeadTailProperties, LenProperties
  <2>2. \A i \in 1 .. Len(t) : t[i] = (<<Head(t)>> \o Tail(t))[i]
    BY <1>1, ConcatProperties, HeadTailProperties, LenProperties
  <2> QED
    BY <2>1, <2>2, SeqEqual
<1>3. s \o (<<Head(t)>> \o Tail(t)) = (s \o <<Head(t)>>) \o Tail(t)
  BY <1>1, ConcatAssociative
<1> QED
  BY <1>2, <1>3, ConcatEmptySeq

\* The tail of a sequence that starts with one element.
LEMMA TailOfCons ==
    ASSUME NEW S, NEW e \in S, NEW s \in Seq(S)
    PROVE  <<e>> \o s # <<>> /\ Head(<<e>> \o s) = e /\ Tail(<<e>> \o s) = s
<1>1. /\ <<e>> \o s \in Seq(S) /\ Len(<<e>> \o s) = Len(s) + 1
      /\ \A i \in 1 .. Len(s) + 1 : (<<e>> \o s)[i] = IF i = 1 THEN e ELSE s[i - 1]
  BY ConcatProperties, LenProperties
<1>2. <<e>> \o s # <<>>
  BY <1>1, LenProperties, EmptySeq
<1>3. /\ Tail(<<e>> \o s) \in Seq(S) /\ Len(Tail(<<e>> \o s)) = Len(s)
      /\ \A i \in 1 .. Len(s) : Tail(<<e>> \o s)[i] = s[i]
  BY <1>1, <1>2, HeadTailProperties, LenProperties
<1>4. Tail(<<e>> \o s) = s
  BY <1>3, SeqEqual
<1> QED
  BY <1>1, <1>2, <1>4, LenProperties

-----------------------------------------------------------------------------
(* What the steps do to the line.                                          *)

Entry(c) == [token |-> token[c], call |-> c]

\* onPause of main.go adds its pause at the end of the line.
LEMMA AnnounceLine ==
    ASSUME UITypeOK, NEW c \in Calls, Announce(c), token[c] \in Tokens
    PROVE  Entry(c) \in Notifications /\ Line' = Append(Line, Entry(c))
<1> DEFINE P == Listed(active) \o pauseQueue \o Listed(relay)
<1>1. Entry(c) \in Notifications
  BY DEF Entry, Notifications
<1>2. P \in Seq(Notifications) /\ pauseCh \in Seq(Notifications)
  BY ListedCases, ConcatProperties DEF UITypeOK
<1>3. Line' = P \o Append(pauseCh, Entry(c))
  BY DEF Announce, Line, Entry, promptVars
<1> QED
  BY <1>1, <1>2, <1>3, ConcatAppend DEF Line

\* waitPause and enqueuePause hand a pause on and keep its place.
LEMMA RelayLine ==
    ASSUME UITypeOK, Relay
    PROVE  Line' = Line
<1> DEFINE P == Listed(active) \o pauseQueue
<1>1. P \in Seq(Notifications) /\ pauseCh \in Seq(Notifications) /\ pauseCh # <<>>
  BY ListedCases, ConcatProperties DEF UITypeOK, Relay
<1>2. Head(pauseCh) \in Notifications
  BY <1>1, HeadTailProperties
<1>3. Line = (P \o <<>>) \o pauseCh /\ Line' = (P \o <<Head(pauseCh)>>) \o Tail(pauseCh)
  BY <1>2 DEF Relay, Line, Listed, promptVars
<1> QED
  BY <1>1, <1>3, ConcatHandOver

LEMMA EnqueueLine ==
    ASSUME UITypeOK, QueueBehind, Enqueue
    PROVE  Line' = Line
<1>1. /\ relay \in Notifications /\ relay' = NoPause /\ pauseCh' = pauseCh
      /\ pauseQueue \in Seq(Notifications) /\ pauseCh \in Seq(Notifications)
      /\ Listed(active) \in Seq(Notifications)
      /\ Listed(relay) = <<relay>> /\ Listed(relay') = <<>>
  BY ListedCases DEF UITypeOK, Enqueue, Listed
<1>2. CASE active # NoPause
  <2>1. active' = active /\ pauseQueue' = Append(pauseQueue, relay)
    BY <1>2 DEF Enqueue
  <2>2. Listed(active) \o Append(pauseQueue, relay)
          = Append(Listed(active) \o pauseQueue, relay)
    BY <1>1, ConcatAppend
  <2>3. Append(Listed(active) \o pauseQueue, relay)
          = (Listed(active) \o pauseQueue) \o <<relay>>
    BY <1>1, ConcatProperties, AppendIsConcat
  <2>4. Append(Listed(active) \o pauseQueue, relay) \in Seq(Notifications)
    BY <1>1, ConcatProperties, AppendProperties
  <2>5. Append(Listed(active) \o pauseQueue, relay) \o <<>>
          = Append(Listed(active) \o pauseQueue, relay)
    BY <2>4, ConcatEmptySeq
  <2> QED
    BY <1>1, <2>1, <2>2, <2>3, <2>5 DEF Line
<1>3. CASE active = NoPause
  <2>1. active' = relay /\ pauseQueue' = pauseQueue /\ pauseQueue = <<>>
    BY <1>3 DEF Enqueue, Activate, QueueBehind
  <2>2. <<relay>> \in Seq(Notifications) /\ <<>> \in Seq(Notifications)
    BY <1>1
  <2>3. (<<>> \o <<>>) \o <<relay>> = <<relay>> /\ (<<relay>> \o <<>>) \o <<>> = <<relay>>
    BY <2>2, ConcatEmptySeq
  <2>4. Listed(active) = <<>> /\ Listed(active') = <<relay>>
    BY <1>1, <1>3, <2>1 DEF Listed
  <2> QED
    BY <1>1, <2>1, <2>3, <2>4 DEF Line
<1> QED
  BY <1>2, <1>3

\* completePause serves the pause at the front.
LEMMA CompleteLine ==
    ASSUME UITypeOK, active # NoPause, NEW v, Complete(v)
    PROVE  Line # <<>> /\ Head(Line) = active /\ Line' = Tail(Line)
<1> DEFINE R == Listed(relay) \o pauseCh
<1>1. /\ active \in Notifications /\ Listed(active) = <<active>>
      /\ pauseQueue \in Seq(Notifications) /\ pauseCh \in Seq(Notifications)
      /\ Listed(relay) \in Seq(Notifications) /\ <<active>> \in Seq(Notifications)
  BY ListedCases DEF UITypeOK
<1>2. /\ R \in Seq(Notifications) /\ pauseQueue \o R \in Seq(Notifications)
      /\ pauseQueue \o Listed(relay) \in Seq(Notifications)
      /\ <<active>> \o pauseQueue \in Seq(Notifications)
  BY <1>1, ConcatProperties
<1>3. Line = <<active>> \o (pauseQueue \o R)
  <2>1. ((<<active>> \o pauseQueue) \o Listed(relay)) \o pauseCh
          = (<<active>> \o pauseQueue) \o R
    BY <1>1, <1>2, ConcatAssociative
  <2>2. (<<active>> \o pauseQueue) \o R = <<active>> \o (pauseQueue \o R)
    BY <1>1, <1>2, ConcatAssociative
  <2> QED
    BY <1>1, <2>1, <2>2 DEF Line
<1>4. Line # <<>> /\ Head(Line) = active /\ Tail(Line) = pauseQueue \o R
  BY <1>1, <1>2, <1>3, TailOfCons
<1>5. pauseCh' = pauseCh /\ relay' = relay
  BY DEF Complete
<1>6. CASE pauseQueue = <<>>
  <2>1. Listed(active') = <<>> /\ pauseQueue' = <<>>
    BY <1>6 DEF Complete, Listed
  <2>2. (<<>> \o <<>>) \o Listed(relay) = Listed(relay) /\ <<>> \o R = R
    BY <1>1, <1>2, ConcatEmptySeq
  <2> QED
    BY <1>4, <1>5, <1>6, <2>1, <2>2 DEF Line
<1>7. CASE pauseQueue # <<>>
  <2>1. active' = Head(pauseQueue) /\ pauseQueue' = Tail(pauseQueue)
    BY <1>7 DEF Complete, Activate
  <2>2. Head(pauseQueue) \in Notifications /\ Listed(active') = <<Head(pauseQueue)>>
    BY <1>1, <1>7, <2>1, HeadTailProperties, ListedCases
  <2>3. /\ (<<>> \o <<>>) \o pauseQueue = (<<>> \o <<Head(pauseQueue)>>) \o Tail(pauseQueue)
        /\ (<<>> \o <<>>) \o pauseQueue = pauseQueue
        /\ <<>> \o <<Head(pauseQueue)>> = <<Head(pauseQueue)>>
    <3>1. <<>> \in Seq(Notifications) /\ <<Head(pauseQueue)>> \in Seq(Notifications)
      BY <2>2
    <3> QED
      BY <1>1, <1>7, <3>1, ConcatHandOver, ConcatEmptySeq
  <2>4. Line' = (pauseQueue \o Listed(relay)) \o pauseCh
    BY <1>5, <2>1, <2>2, <2>3 DEF Line
  <2>5. (pauseQueue \o Listed(relay)) \o pauseCh = pauseQueue \o R
    BY <1>1, ConcatAssociative
  <2> QED
    BY <1>4, <2>4, <2>5
<1> QED
  BY <1>4, <1>6, <1>7

-----------------------------------------------------------------------------
(* The steps of the whole system are steps of the engine, or leave it be.  *)

LEMMA CompleteIsStep ==
    ASSUME UITypeOK, active # NoPause, NEW v \in Verdicts, Complete(v)
    PROVE  [Next]_vars
<1>1. active.token \in Tokens
  BY DEF UITypeOK, Notifications
<1> QED
  BY <1>1 DEF Complete, Next, ResolverStep

LEMMA EngineRefined ==
    ASSUME UITypeOK, [UINext]_allVars
    PROVE  [Next]_vars
<1>1. CASE EngineStep
  BY <1>1 DEF EngineStep, Next, SetPolicy, CallStep, Advance, ResolverStep
<1>2. CASE \E c \in Calls : Announce(c)
  BY <1>2 DEF Announce, Next, CallStep, Advance
<1>3. CASE Relay \/ Enqueue \/ Close
  BY <1>3 DEF Relay, Enqueue, Close, EditorCancel, CloseModal
<1>4. CASE Decide
  <2>1. CASE SendEdited
    BY <2>1, CompleteIsStep DEF SendEdited, Verdicts
  <2>2. ASSUME NEW v \in Verdicts, PausedKey(v) PROVE [Next]_vars
    BY <2>2, CompleteIsStep DEF PausedKey
  <2> QED
    BY <1>4, <2>1, <2>2 DEF Decide
<1>5. ASSUME Toggle PROVE Next
  <2>1. PICK d \in Directions : SetDirection(d, ~ enabled[d])
    BY <1>5 DEF Toggle
  <2>2. (~ enabled[d]) \in BOOLEAN
    OBVIOUS
  <2>3. \E on \in BOOLEAN : SetDirection(d, on)
    BY <2>1, <2>2, Zenon
  <2> QED
    BY <2>3 DEF Next, SetPolicy
<1>6. CASE Navigate
  BY <1>5, <1>6 DEF Navigate, PausedEdit, EnterInject, SendFrame, ToggleKey, OpenModal,
     HelpCommand, LeaderKey, LeaderCommand, ClickTerminal, ClickTraffic
<1>7. CASE UNCHANGED allVars
  BY <1>7 DEF allVars
<1> QED
  BY <1>1, <1>2, <1>3, <1>4, <1>6, <1>7 DEF UINext

-----------------------------------------------------------------------------
\* Every step keeps the variables of the UI in their types, and nothing waits
\* behind an empty prompt.
LEMMA UITypeStep ==
    ASSUME UIInv, [UINext]_allVars
    PROVE  UITypeOK' /\ QueueBehind'
<1> USE DEF UITypeOK, QueueBehind
<1>0. UITypeOK /\ QueueBehind /\ TypeOK'
  BY EngineRefined, TypeStep DEF UIInv
<1>1. CASE EngineStep \/ UNCHANGED allVars
  BY <1>0, <1>1 DEF EngineStep, allVars, uiVars, promptVars, screenVars
<1>2. ASSUME NEW c \in Calls, Announce(c) PROVE UITypeOK' /\ QueueBehind'
  <2>1. token[c] \in Tokens
    BY <1>2 DEF Announce, Notify, UIInv, IInv, Handshake, CallSound, Paused
  <2>2. Entry(c) \in Notifications
    BY <2>1 DEF Entry, Notifications
  <2>3. /\ Append(pauseCh, Entry(c)) \in Seq(Notifications)
        /\ Len(Append(pauseCh, Entry(c))) = Len(pauseCh) + 1 /\ Len(pauseCh) \in Nat
    BY <1>0, <2>2, AppendProperties, LenProperties
  <2> QED
    BY <1>0, <1>2, <2>3 DEF Announce, Entry, promptVars, screenVars
<1>3. CASE Relay
  <2>1. /\ Head(pauseCh) \in Notifications /\ Tail(pauseCh) \in Seq(Notifications)
        /\ Len(Tail(pauseCh)) = Len(pauseCh) - 1 /\ Len(pauseCh) \in Nat
    BY <1>0, <1>3, HeadTailProperties, LenProperties DEF Relay
  <2> QED
    BY <1>0, <1>3, <2>1 DEF Relay, promptVars, screenVars
<1>4. CASE Enqueue
  <2>1. relay \in Notifications
    BY <1>0, <1>4 DEF Enqueue
  <2>2. Append(pauseQueue, relay) \in Seq(Notifications)
    BY <1>0, <2>1, AppendProperties
  <2> QED
    BY <1>0, <1>4, <2>1, <2>2 DEF Enqueue, Activate
<1>5. ASSUME NEW v, Complete(v) PROVE UITypeOK' /\ QueueBehind'
  <2>1. pauseQueue # <<>> =>
          Head(pauseQueue) \in Notifications /\ Tail(pauseQueue) \in Seq(Notifications)
    BY <1>0, HeadTailProperties
  <2> QED
    BY <1>0, <1>5, <2>1 DEF Complete, Activate, EditorClosed
<1>6. CASE Decide
  BY <1>5, <1>6 DEF Decide, SendEdited, PausedKey
<1>7. CASE Close \/ Navigate
  <2>1. UNCHANGED <<pauseCh, relay, active, pauseQueue>>
    BY <1>7 DEF Close, Navigate, EditorCancel, CloseModal, PausedEdit, EnterInject, SendFrame,
       ToggleKey, OpenModal, HelpCommand, LeaderKey, LeaderCommand, ClickTerminal,
       ClickTraffic, uiVars, promptVars
  <2>2. open' \subseteq Modals
    <3>1. open \subseteq Modals /\ Overlays \subseteq Modals /\ Inputs \subseteq Modals
          /\ "editor" \in Modals
      BY <1>0 DEF Modals
    <3>2. \E m \in Modals : open' \subseteq open \cup {m} \/ open' \subseteq open \cup Overlays
      BY <1>7, <3>1 DEF Close, Navigate, EditorCancel, CloseModal, PausedEdit, EnterInject,
         SendFrame, ToggleKey, OpenModal, HelpCommand, LeaderKey, LeaderCommand,
         ClickTerminal, ClickTraffic, uiVars, screenVars
    <3> QED
      BY <3>1, <3>2
  <2>3. injecting' \in BOOLEAN /\ ta' \in Notifications \cup {NoPause, Frame}
    BY <1>0, <1>7 DEF Close, Navigate, EditorCancel, CloseModal, PausedEdit, EnterInject,
       SendFrame, ToggleKey, OpenModal, HelpCommand, LeaderKey, LeaderCommand, ClickTerminal,
       ClickTraffic, uiVars, screenVars
  <2>4. focus' \in {"terminal", "traffic"} /\ leader' \in BOOLEAN
    BY <1>0, <1>7 DEF Close, Navigate, EditorCancel, CloseModal, PausedEdit, EnterInject,
       SendFrame, ToggleKey, OpenModal, HelpCommand, LeaderKey, LeaderCommand, ClickTerminal,
       ClickTraffic, uiVars, screenVars
  <2> QED
    BY <1>0, <2>1, <2>2, <2>3, <2>4
<1> QED
  BY <1>1, <1>2, <1>3, <1>4, <1>6, <1>7 DEF UINext

-----------------------------------------------------------------------------
(* Line and engine agree after every step.                                 *)

\* The pauses of the line are those of blocked calls under their own tokens.
LEMMA LineEntries ==
    ASSUME UIInv, NEW i \in DOMAIN Line
    PROVE  /\ Line[i] \in Notifications
           /\ Line[i] = Entry(Line[i].call)
           /\ Line[i].call \in Calls /\ Line[i].token \in Tokens
<1>1. Line[i] \in Notifications
  BY LineType, ElementOfSeq DEF UIInv
<1>2. pending[Line[i].token] = Line[i].call /\ Line[i].call # NoCall
  BY <1>1 DEF UIInv, LineSound, LineWaits, Notifications
<1>3. token[Line[i].call] = Line[i].token
  BY <1>1, <1>2 DEF UIInv, IInv, Handshake, RegisteredUnresolved, Notifications
<1> QED
  BY <1>1, <1>3 DEF Notifications, Entry

\* A step that does not change the line, and changes neither which calls are
\* blocked on a registered token nor the tokens of those.
LEMMA LineUndisturbed ==
    ASSUME UIInv, Line' = Line,
           \A c \in Calls : pc[c] = "blocked" /\ pending[token[c]] = c =>
              pc'[c] = "blocked" /\ token'[c] = token[c] /\ pending'[token[c]] = c,
           \A c \in Calls : pc'[c] = "blocked" /\ pending'[token'[c]] = c =>
              pc[c] = "blocked" /\ token'[c] = token[c] /\ pending[token[c]] = c,
           \A c \in Calls : pc'[c] = "notify" => pending'[token'[c]] = c
    PROVE  LineSound'
<1>1. LineWaits'
  <2> SUFFICES ASSUME NEW i \in DOMAIN Line
               PROVE  pending'[Line[i].token] = Line[i].call /\ pc'[Line[i].call] = "blocked"
    BY DEF LineWaits
  <2>1. /\ pending[Line[i].token] = Line[i].call /\ pc[Line[i].call] = "blocked"
        /\ token[Line[i].call] = Line[i].token /\ Line[i].call \in Calls
    BY LineEntries DEF UIInv, LineSound, LineWaits, Entry
  <2> QED
    BY <2>1
<1>2. LineOnce'
  BY DEF UIInv, LineSound, LineOnce
<1>3. LineComplete'
  BY DEF UIInv, LineSound, LineComplete
<1>4. UnannouncedPending'
  BY DEF UnannouncedPending
<1> QED
  BY <1>1, <1>2, <1>3, <1>4 DEF LineSound

\* The steps of the engine that neither announce nor resolve a pause.
LEMMA EngineLineStep ==
    ASSUME UIInv, TypeOK', EngineStep
    PROVE  LineSound'
<1>0. /\ TypeOK /\ Handshake /\ UnannouncedPending
      /\ Line' = Line
  BY DEF UIInv, IInv, LineSound, EngineStep, uiVars, promptVars, Line
<1> USE DEF TypeOK, Handshake, CallSound, RegisteredUnresolved, UnannouncedPending, Paused
<1>1. CASE (\E s \in Scopes : SetScope(s)) \/ Send(UI)
  BY <1>0, <1>1, LineUndisturbed DEF SetScope, Send, tableVars, callVars
<1>2. ASSUME NEW c \in Calls, NEW selected, NEW s \in {"scope", "register"},
             ProceedOrPass(c, selected, s), pc[c] \in {"idle", "scope"}
      PROVE  LineSound'
  BY <1>0, <1>2, LineUndisturbed DEF ProceedOrPass, tableVars
<1>3. ASSUME NEW c \in Calls, Register(c) PROVE LineSound'
  <2>1. PICK t \in Tokens :
          /\ pending[t] = NoCall
          /\ pending' = [pending EXCEPT ![t] = c]
          /\ token' = [token EXCEPT ![c] = t]
    BY <1>3 DEF Register, NextTokens
  <2>2. pc[c] = "register" /\ pc' = [pc EXCEPT ![c] = "notify"]
    BY <1>3 DEF Register
  <2> QED
    BY <1>0, <2>1, <2>2, LineUndisturbed
<1>4. ASSUME NEW c \in Calls, Receive(c) PROVE LineSound'
  BY <1>0, <1>4, LineUndisturbed DEF Receive, tableVars
<1>5. ASSUME NEW c \in Calls, Cleanup(c) PROVE LineSound'
  BY <1>0, <1>5, LineUndisturbed DEF Cleanup, Withdraw
<1>6. ASSUME NEW c \in Calls, Return(c) PROVE LineSound'
  BY <1>0, <1>6, LineUndisturbed DEF Return, tableVars
<1> QED
  BY <1>1, <1>2, <1>3, <1>4, <1>5, <1>6 DEF EngineStep, ReadScope, Enter

\* The announced call is blocked now, and its token was not in the line.
LEMMA AnnounceLineStep ==
    ASSUME UIInv, NEW c \in Calls, Announce(c)
    PROVE  LineSound'
<1> DEFINE n == Len(Line)
<1>1. /\ pc[c] = "notify" /\ pc' = [pc EXCEPT ![c] = "blocked"]
      /\ pending' = pending /\ token' = token
  BY DEF Announce, Notify, tableVars
<1>2. token[c] \in Tokens /\ pending[token[c]] = c
  BY <1>1 DEF UIInv, IInv, Handshake, CallSound, Paused, LineSound, UnannouncedPending
<1>3. Entry(c) \in Notifications /\ Line' = Append(Line, Entry(c))
  BY <1>2, AnnounceLine DEF UIInv
<1>4. /\ n \in Nat /\ DOMAIN Line = 1 .. n /\ DOMAIN Line' = 1 .. n + 1
      /\ Line'[n + 1] = Entry(c) /\ \A i \in 1 .. n : Line'[i] = Line[i]
  BY <1>3, LineType, AppendProperties, LenProperties DEF UIInv
<1>5. \A i \in 1 .. n :
        /\ pending[Line[i].token] = Line[i].call /\ pc[Line[i].call] = "blocked"
        /\ Line[i].call \in Calls /\ Line[i].call # c
  BY <1>1, <1>4, LineEntries DEF UIInv, LineSound, LineWaits
<1>6. \A i \in 1 .. n : Line[i].token # token[c]
  BY <1>2, <1>5
<1> HIDE DEF n
<1>7. LineWaits'
  <2>1. pc'[c] = "blocked" /\ \A b \in Calls \ {c} : pc'[b] = pc[b]
    BY <1>1 DEF UIInv, IInv, TypeOK
  <2> QED
    BY <1>1, <1>2, <1>4, <1>5, <2>1 DEF LineWaits, Entry
<1>8. LineOnce'
  BY <1>4, <1>6 DEF LineOnce, Entry, UIInv, LineSound
<1>9. LineComplete'
  <2> SUFFICES ASSUME NEW b \in Calls, pc'[b] = "blocked", pending[token[b]] = b
               PROVE  \E i \in 1 .. n + 1 : Line'[i] = [token |-> token[b], call |-> b]
    BY <1>1, <1>4 DEF LineComplete
  <2>1. CASE b = c
    BY <1>4, <2>1 DEF Entry
  <2>2. CASE b # c
    <3>1. pc[b] = "blocked"
      BY <1>1, <2>2 DEF UIInv, IInv, TypeOK
    <3>2. PICK i \in 1 .. n : Line[i] = [token |-> token[b], call |-> b]
      BY <1>4, <3>1 DEF UIInv, LineSound, LineComplete
    <3> QED
      BY <1>4, <3>2
  <2> QED
    BY <2>1, <2>2
<1>10. UnannouncedPending'
  BY <1>1 DEF UnannouncedPending, UIInv, IInv, TypeOK, LineSound
<1> QED
  BY <1>7, <1>8, <1>9, <1>10 DEF LineSound

\* What is decided is the front of the line, and its token is resolved.
LEMMA CompleteLineStep ==
    ASSUME UIInv, active # NoPause, NEW v, Complete(v)
    PROVE  LineSound'
<1> DEFINE n == Len(Line)
<1>1. Line # <<>> /\ Head(Line) = active /\ Line' = Tail(Line)
  BY CompleteLine DEF UIInv
<1>2. /\ n \in Nat \ {0} /\ DOMAIN Line = 1 .. n /\ DOMAIN Line' = 1 .. n - 1
      /\ \A i \in 1 .. n - 1 : Line'[i] = Line[i + 1]
      /\ Line[1] = active
  BY <1>1, LineType, HeadTailProperties, LenProperties, EmptySeq DEF UIInv
<1> HIDE DEF n
<1>3. /\ active = Entry(active.call) /\ active.call \in Calls /\ active.token \in Tokens
      /\ pending[active.token] = active.call /\ pc[active.call] = "blocked"
  BY <1>2, LineEntries DEF UIInv, LineSound, LineWaits
<1>4. /\ pending' = [pending EXCEPT ![active.token] = NoCall]
      /\ pc' = pc /\ token' = token
  BY <1>3 DEF Complete, Resolve, callVars
<1>5. \A t \in Tokens : pending'[t] = IF t = active.token THEN NoCall ELSE pending[t]
  BY <1>4 DEF UIInv, IInv, TypeOK
<1>6. \A i \in 2 .. n : Line[i].token \in Tokens \ {active.token}
  BY <1>2, LineEntries DEF UIInv, LineSound, LineOnce
<1>7. LineWaits'
  BY <1>2, <1>4, <1>5, <1>6 DEF LineWaits, UIInv, LineSound
<1>8. LineOnce'
  BY <1>2 DEF LineOnce, UIInv, LineSound
<1>9. LineComplete'
  <2> SUFFICES ASSUME NEW b \in Calls, pc[b] = "blocked", pending'[token[b]] = b
               PROVE  \E i \in 1 .. n - 1 : Line'[i] = [token |-> token[b], call |-> b]
    BY <1>2, <1>4 DEF LineComplete
  <2>1. token[b] \in Tokens
    BY DEF UIInv, IInv, Handshake, CallSound, Paused
  <2>2. pending[token[b]] = b /\ token[b] # active.token
    BY <1>5, <2>1
  <2>3. PICK i \in 1 .. n : Line[i] = [token |-> token[b], call |-> b]
    BY <1>2, <2>2 DEF UIInv, LineSound, LineComplete
  <2>4. i - 1 \in 1 .. n - 1 /\ Line'[i - 1] = Line[i]
    BY <1>2, <2>2, <2>3
  <2> QED
    BY <2>3, <2>4
<1>10. UnannouncedPending'
  <2> SUFFICES ASSUME NEW b \in Calls, pc[b] = "notify" PROVE pending'[token[b]] = b
    BY <1>4 DEF UnannouncedPending
  <2>1. token[b] \in Tokens /\ pending[token[b]] = b
    BY DEF UIInv, IInv, Handshake, CallSound, Paused, LineSound, UnannouncedPending
  <2> QED
    BY <1>3, <1>5, <2>1
<1> QED
  BY <1>7, <1>8, <1>9, <1>10 DEF LineSound

LEMMA LineStep ==
    ASSUME UIInv, [UINext]_allVars
    PROVE  LineSound'
<1>0. UITypeOK /\ QueueBehind /\ TypeOK'
  BY EngineRefined, TypeStep DEF UIInv
\* A key or a click changes no variable of the engine but its policy.
<1>1. ASSUME Line' = Line, UNCHANGED <<pending, pc, token>> PROVE LineSound'
  BY <1>1, LineUndisturbed DEF UIInv, LineSound, UnannouncedPending
<1>2. CASE EngineStep
  BY <1>0, <1>2, EngineLineStep
<1>3. ASSUME NEW c \in Calls, Announce(c) PROVE LineSound'
  BY <1>3, AnnounceLineStep
<1>4. CASE Relay
  <2>1. Line' = Line
    BY <1>0, <1>4, RelayLine
  <2> QED
    BY <1>1, <1>4, <2>1 DEF Relay, vars, tableVars, callVars
<1>5. CASE Enqueue
  <2>1. Line' = Line
    BY <1>0, <1>5, EnqueueLine
  <2> QED
    BY <1>1, <1>5, <2>1 DEF Enqueue, vars, tableVars, callVars
<1>6. CASE Decide
  BY <1>6, CompleteLineStep DEF Decide, SendEdited, PausedKey
<1>7. CASE Close \/ Navigate
  <2>1. UNCHANGED <<pauseCh, relay, active, pauseQueue>>
    BY <1>7 DEF Close, Navigate, EditorCancel, CloseModal, PausedEdit, EnterInject, SendFrame,
       ToggleKey, OpenModal, HelpCommand, LeaderKey, LeaderCommand, ClickTerminal,
       ClickTraffic, uiVars, promptVars
  <2>2. UNCHANGED vars \/ Toggle
    BY <1>7 DEF Close, Navigate, EditorCancel, CloseModal, PausedEdit, EnterInject, SendFrame,
       ToggleKey, OpenModal, HelpCommand, LeaderKey, LeaderCommand, ClickTerminal,
       ClickTraffic
  <2>3. UNCHANGED <<pending, pc, token>>
    BY <2>2 DEF Toggle, SetDirection, vars, tableVars, callVars
  <2> QED
    BY <1>1, <2>1, <2>3 DEF Line
<1>8. CASE UNCHANGED allVars
  BY <1>1, <1>8 DEF allVars, vars, tableVars, callVars, uiVars, promptVars, Line
<1> QED
  BY <1>2, <1>3, <1>4, <1>5, <1>6, <1>7, <1>8 DEF UINext

LEMMA UIInitInvariant == UIInit => UIInv
<1> SUFFICES ASSUME UIInit PROVE UIInv
  OBVIOUS
<1> USE DEF UIInit
<1>1. IInv /\ TypeOK
  BY InitInvariant DEF IInv
<1>2. UITypeOK /\ QueueBehind
  <2>1. <<>> \in Seq(Notifications) /\ Len(<<>>) = 0
    BY EmptySeq
  <2>2. injecting \in BOOLEAN /\ leader \in BOOLEAN /\ open \subseteq Modals
    OBVIOUS
  <2>3. pauseCh \in Seq(Notifications) /\ Len(pauseCh) <= PauseChCap
    BY <2>1
  <2>4. pauseQueue \in Seq(Notifications)
    BY <2>1
  <2> QED
    BY <1>1, <2>2, <2>3, <2>4 DEF UITypeOK, QueueBehind
<1>3. Line = <<>>
  BY ConcatEmptySeq DEF Line, Listed
<1>4. \A c \in Calls : pc[c] = "idle"
  BY DEF Init
<1>5. LineSound
  BY <1>3, <1>4 DEF LineSound, LineWaits, LineOnce, LineComplete, UnannouncedPending
<1> QED
  BY <1>1, <1>2, <1>5 DEF UIInv

-----------------------------------------------------------------------------
(* The editor.                                                             *)

\* A key that opens or closes a modal finds no other one open, and the pause
\* on the prompt changes only when the editor is closed for it.
LEMMA EditorStep ==
    ASSUME UITypeOK, EditorBelongs, [UINext]_allVars
    PROVE  EditorBelongs'
<1> USE DEF EditorBelongs
<1>1. CASE EngineStep \/ (\E c \in Calls : Announce(c)) \/ Relay \/ UNCHANGED allVars
  <2>1. UNCHANGED <<active, open, injecting, ta>>
    BY <1>1 DEF EngineStep, Announce, Relay, allVars, uiVars, promptVars, screenVars
  <2> QED
    BY <2>1
<1>2. CASE Enqueue
  <2>1. CASE active # NoPause
    BY <1>2, <2>1 DEF Enqueue
  <2>2. CASE active = NoPause
    <3>1. /\ open' = open \ Inputs /\ ta' = ta /\ injecting' = injecting
      BY <1>2, <2>2 DEF Enqueue, Activate
    <3> QED
      BY <2>2, <3>1
  <2> QED
    BY <2>1, <2>2
<1>3. ASSUME NEW v, Complete(v), ~ injecting PROVE EditorBelongs'
  <2>1. "editor" \notin open' /\ open' \subseteq open /\ injecting' = injecting
    BY <1>3 DEF Complete, Activate, EditorClosed
  <2> QED
    BY <1>3, <2>1
<1>4. CASE Decide
  <2>1. CASE SendEdited
    BY <1>3, <2>1 DEF SendEdited
  <2>2. ASSUME NEW v \in Verdicts, PausedKey(v) PROVE EditorBelongs'
    BY <1>3, <2>2 DEF PausedKey, TrafficKeyed, PanesKeyed, UITypeOK
  <2> QED
    BY <1>4, <2>1, <2>2 DEF Decide
<1>5. CASE Close
  <2>1. CASE EditorCancel
    BY <2>1 DEF EditorCancel, promptVars
  <2>2. ASSUME NEW m \in Overlays \cup Inputs, CloseModal(m) PROVE EditorBelongs'
    <3>1. m \in open /\ m # "editor"
      BY <2>2 DEF CloseModal, Keyed
    <3> QED
      BY <2>2, <3>1 DEF CloseModal, promptVars
  <2> QED
    BY <1>5, <2>1, <2>2 DEF Close
<1>6. CASE PausedEdit \/ EnterInject
  BY <1>6 DEF PausedEdit, EnterInject, TrafficKeyed, PanesKeyed, promptVars
<1>7. CASE SendFrame
  BY <1>7 DEF SendFrame, promptVars
<1>8. CASE ToggleKey \/ LeaderKey \/ ClickTerminal
  BY <1>8 DEF ToggleKey, LeaderKey, ClickTerminal, uiVars, promptVars, screenVars
<1>9. ASSUME NEW m \in Overlays \cup Inputs, OpenModal(m) PROVE EditorBelongs'
  BY <1>9 DEF OpenModal, TrafficKeyed, PanesKeyed, promptVars
<1>10. CASE HelpCommand
  <2>1. "cmdline" \in open
    BY <1>10 DEF HelpCommand, Keyed
  <2> QED
    BY <1>10, <2>1 DEF HelpCommand, promptVars
<1>11. CASE LeaderCommand
  BY <1>11 DEF LeaderCommand, promptVars
<1>12. CASE ClickTraffic
  <2>1. CASE UNCHANGED open
    BY <1>12, <2>1 DEF ClickTraffic, promptVars
  <2>2. CASE open \cap {"editor", "detail"} = {} /\ open' = {"detail"} \cap Overlays
    <3>1. "editor" \notin open /\ ~ injecting
      BY <2>2
    <3> QED
      BY <1>12, <2>2, <3>1 DEF ClickTraffic
  <2> QED
    BY <1>12, <2>1, <2>2 DEF ClickTraffic
<1> QED
  BY <1>1, <1>2, <1>4, <1>5, <1>6, <1>7, <1>8, <1>9, <1>10, <1>11, <1>12
     DEF UINext, Navigate

-----------------------------------------------------------------------------
(* The theorems.                                                           *)

\* The invariant holds throughout every behaviour of engine and UI together.
THEOREM UIInvariance == UISpec => []UIInv
<1>1. UIInv /\ [UINext]_allVars => UIInv'
  <2> SUFFICES ASSUME UIInv, [UINext]_allVars PROVE UIInv'
    OBVIOUS
  <2>1. [Next]_vars
    BY EngineRefined DEF UIInv
  <2>2. IInv'
    BY <2>1, TypeStep, HandshakeStep, CountStep DEF UIInv, IInv
  <2> QED
    BY <2>2, UITypeStep, LineStep DEF UIInv
<1> QED
  BY <1>1, UIInitInvariant, PTL DEF UISpec

\* The operator's line and the engine's table agree: whatever is shown can be
\* resolved, whatever is announced and unresolved is shown, once.
THEOREM LineMatchesEngine == UISpec => []LineIsPending
<1>1. UIInv => LineIsPending
  BY DEF UIInv, LineSound, LineWaits, LineOnce, LineComplete, LineIsPending
<1> QED
  BY <1>1, UIInvariance, PTL

\* No sequence of keys, clicks and pauses makes Ctrl+S send a text that was not
\* written for the pause on the prompt.
THEOREM EditorIsOwn == UISpec => []EditorBelongs
<1>1. UIInit => EditorBelongs
  BY DEF UIInit, EditorBelongs
<1>2. UIInv /\ EditorBelongs /\ [UINext]_allVars => EditorBelongs'
  BY EditorStep DEF UIInv
<1> QED
  BY <1>1, <1>2, UIInvariance, PTL DEF UISpec

\* Pauses are served in the order they were announced: no step takes the prompt
\* from the pause that has it.
THEOREM PausesWaitTheirTurn == UISpec => InArrivalOrder
<1> DEFINE Turn ==
      \/ Line' = Line
      \/ Line # <<>> /\ Line' = Tail(Line)
      \/ \E n \in Notifications : Line' = Append(Line, n)
<1>1. ASSUME UIInv, [UINext]_allVars PROVE Turn
  <2>1. UITypeOK /\ QueueBehind
    BY <1>1 DEF UIInv
  <2>2. ASSUME NEW c \in Calls, Announce(c) PROVE Turn
    <3>1. token[c] \in Tokens
      BY <1>1, <2>2 DEF Announce, Notify, UIInv, IInv, Handshake, CallSound, Paused
    <3> QED
      BY <2>1, <2>2, <3>1, AnnounceLine
  <2>3. CASE Relay
    BY <2>1, <2>3, RelayLine
  <2>4. CASE Enqueue
    BY <2>1, <2>4, EnqueueLine
  <2>5. CASE Decide
    BY <2>1, <2>5, CompleteLine DEF Decide, SendEdited, PausedKey
  <2>6. CASE EngineStep \/ Close \/ Navigate \/ UNCHANGED allVars
    <3>1. UNCHANGED <<pauseCh, relay, active, pauseQueue>>
      BY <2>6 DEF EngineStep, Close, Navigate, EditorCancel, CloseModal, PausedEdit,
         EnterInject, SendFrame, ToggleKey, OpenModal, HelpCommand, LeaderKey,
         LeaderCommand, ClickTerminal, ClickTraffic, allVars, uiVars, promptVars
    <3> QED
      BY <3>1 DEF Line
  <2> QED
    BY <1>1, <2>2, <2>3, <2>4, <2>5, <2>6 DEF UINext
<1>2. UIInv /\ [UINext]_allVars => [Turn]_Line
  BY <1>1
<1> QED
  BY <1>2, UIInvariance, PTL DEF UISpec, InArrivalOrder

\* Driven by the UI, the engine still is an engine, and implements PauseSpec.
THEOREM UIRefinesEngine == UISpec => Spec
<1>1. UIInit => Init
  BY DEF UIInit
<1>2. UIInv /\ [UINext]_allVars => [Next]_vars
  BY EngineRefined DEF UIInv
<1> QED
  BY <1>1, <1>2, UIInvariance, PTL DEF UISpec, Spec

\* So every pause the operator answers through the UI is decided once, and the
\* connection goes on with that decision (Resolve, completePause).
THEOREM UIRefinement == UISpec => ImplementsPauseSpec
BY UIRefinesEngine, Refinement

==============================================================================
