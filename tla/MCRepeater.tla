------------------------------- MODULE MCRepeater -------------------------------
(***************************************************************************)
(* Three variables, two commands that may overlap, and on the side the     *)
(* pure computations behind them over small inputs: the jobs of an attack, *)
(* the body that is sent again, and the framing of gRPC messages.          *)
(***************************************************************************)
EXTENDS Repeater, RequestBody, Framing

ThreeNames == {"p", "q", "r"}
OneText == {[p |-> <<"a", "b">>, q |-> <<"c">>, r |-> <<"">>]}

\* The pure computations are checked once, in the initial state.

\* docs/repeater.md, "Attack modes": the jobs of every attack on up to three
\* positions are what the table says of its mode (attack.go, Jobs).
AttacksAsDocumented ==
    RepInit =>
    \A mode \in ToSet(Modes), n \in 0 .. 3 :
        \A lists \in [1 .. n -> {<<"a">>, <<"a", "b">>, <<"c", "a", "b">>}] :
            LET positions == SubSeq(<<"p", "q", "r">>, 1, n)
                base == [name \in ToSet(positions) |->
                            Head(lists[CHOOSE i \in 1 .. n : positions[i] = name])]
            IN  JobsAsDocumented([mode |-> mode, positions |-> positions,
                                  lists |-> lists, base |-> base])

\* A captured request is sent again with the body its server got, or refused; over
\* every protocol, encoding and way to capture (SentAgainAsMeant).
BodySentAgain ==
    RepInit =>
    \A s \in Scenarios(
            {<<>>, <<"gzip">>, <<"br">>, <<"gzip", "br">>},
            {<<>>, <<"m">>, <<"z">>, <<"m", "z">>, <<"m", "part">>},
            {<<>>, <<"identity">>, <<"gzip">>, <<"br", "gzip">>, <<"bad">>}) :
        SentAgainAsMeant(s)

\* gRPC messages are the same to the observer, the tampering reader and the decoder,
\* however the stream is cut (FramingAgreesOn).
FramingAgrees ==
    LET message == [compressed : BOOLEAN, data : {<<>>, <<1, 0>>}]
        verdict == {"keep", "drop", "edit"}
    IN  RepInit =>
        \A n \in 0 .. 2, tail \in {<<>>, <<0>>, <<0, 2, 1>>} :
            \A messages \in [1 .. n -> message], verdicts \in [1 .. n -> verdict] :
                FramingAgreesOn(messages, tail, verdicts)
================================================================================
