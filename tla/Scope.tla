--------------------------------- MODULE Scope ---------------------------------
(***************************************************************************)
(* Which traffic is in scope (internal/scope), as the flags set it up      *)
(* (buildScope in cmd/cli-capture/main.go): whether a pattern matches is   *)
(* left open, which rule decides is not.  ProxyProofs has the theorems.    *)
(***************************************************************************)
EXTENDS Integers, Sequences

CONSTANTS
    Targets,        \* what may be in scope: flows, and hosts to decrypt
    Patterns,       \* the patterns of conditions, with field and strategy
    Holds(_, _)     \* the field of a target matches a pattern

Conditions == [pattern : Patterns, negate : BOOLEAN]

\* Condition.Match.
Satisfies(t, c) == IF c.negate THEN ~ Holds(t, c.pattern) ELSE Holds(t, c.pattern)

Actions == {"include", "exclude"}

Rules == [action : Actions, enabled : BOOLEAN, conditions : Seq(Conditions)]

\* Rule.Match: a rule without conditions matches everything.
Match(r, t) ==
    /\ r.enabled
    /\ \A i \in DOMAIN r.conditions : Satisfies(t, r.conditions[i])

Sets == [rules : Seq(Rules), default : Actions, lastWins : BOOLEAN]

Matching(set, t) == {i \in DOMAIN set.rules : Match(set.rules[i], t)}

\* The rule whose action is returned: the first match, or the last.
Decides(set, t, i) ==
    /\ i \in Matching(set, t)
    /\ \A j \in Matching(set, t) : IF set.lastWins THEN j <= i ELSE i <= j

\* Set.Eval.
Eval(set, t) ==
    IF Matching(set, t) = {} THEN set.default
    ELSE set.rules[CHOOSE i \in Matching(set, t) : Decides(set, t, i)].action

InScope(set, t) == Eval(set, t) = "include"

\* Rule1.
Rule1(action, c) == [action |-> action, enabled |-> TRUE, conditions |-> <<c>>]

\* Build: excludes first.
Build(includes, excludes, defaultAll) ==
    [rules |-> [i \in 1 .. Len(excludes) + Len(includes) |->
                   IF i <= Len(excludes) THEN Rule1("exclude", excludes[i])
                   ELSE Rule1("include", includes[i - Len(excludes)])],
     default |-> IF defaultAll THEN "include" ELSE "exclude",
     lastWins |-> FALSE]

\* buildScope: without includes everything is in scope that is not excluded.
BuildScope(includes, excludes, lastWins) ==
    [Build(includes, excludes, includes = <<>>) EXCEPT !.lastWins = lastWins]

Some(list, t) == \E i \in DOMAIN list : Satisfies(t, list[i])

==============================================================================
