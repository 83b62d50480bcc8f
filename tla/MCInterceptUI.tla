----------------------------- MODULE MCInterceptUI -----------------------------
(* InterceptUI with two calls of two flows, a pause channel that can fill,   *)
(* and every modal.                                                          *)
EXTENDS InterceptUI, TLC

CONSTANTS c1, c2, f1, f2, ui

MCFlows == {f1, f2}
MCScopes == {{f1, f2}}

MCTwo == {c1, c2}
MCFlowOf == (c1 :> f1) @@ (c2 :> f2)

==============================================================================
