------------------------------ MODULE MCIntercept ------------------------------
(* Intercept on small instances: calls of one flow and of another, as many   *)
(* tokens as calls, so that the counter wraps and tokens are reused, and     *)
(* resolvers that may race for one token.                                    *)
EXTENDS Intercept, TLC

CONSTANTS c1, c2, c3, f1, f2, r1, r2

MCFlows == {f1, f2}

\* Three calls, two of them of one flow.
MCCalls == {c1, c2, c3}
MCFlowOf == (c1 :> f1) @@ (c2 :> f1) @@ (c3 :> f2)
MCSymmetry == Permutations({c1, c2}) \cup Permutations({r1, r2})
MCScopes == {{f1, f2}}

==============================================================================
