------------------------------- MODULE PauseSpec -------------------------------
(***************************************************************************)
(* What the intercept engine promises, without tokens, channels or locks: *)
(* a call lets its message pass, or holds it until one decision is taken   *)
(* for it and then releases it with that decision.                         *)
(***************************************************************************)
CONSTANTS Calls, Verdicts, NoVerdict

VARIABLES
    phase,      \* "free", "held", "decided" or "released"
    decision    \* the decision a decided call carries, or how it was released

vars == <<phase, decision>>

Init ==
    /\ phase = [c \in Calls |-> "free"]
    /\ decision = [c \in Calls |-> NoVerdict]

Move(c, from, to, d) ==
    /\ phase[c] = from
    /\ phase' = [phase EXCEPT ![c] = to]
    /\ decision' = [decision EXCEPT ![c] = d]

Pass(c) == Move(c, "free", "released", "pass")
Hold(c) == Move(c, "free", "held", NoVerdict)
Decide(c, v) == Move(c, "held", "decided", v)

\* The decision that was taken, and no other.
Release(c) == Move(c, "decided", "released", decision[c])

\* The goroutine that was to hold the message died of a panic.
Abort(c) == \E from \in {"held", "decided"} : Move(c, from, "released", "panic")

Reuse(c) == Move(c, "released", "free", NoVerdict)

Next ==
    \E c \in Calls :
        \/ Pass(c) \/ Hold(c) \/ Release(c) \/ Abort(c) \/ Reuse(c)
        \/ \E v \in Verdicts : Decide(c, v)

Spec == Init /\ [][Next]_vars

==============================================================================
