--------------------------------- MODULE Proxy ---------------------------------
(***************************************************************************)
(* The front of the proxy (internal/proxy/proxy.go and conn.go): what      *)
(* happens to an accepted connection before bytes are passed on.  It comes *)
(* as a CONNECT, as a plain proxy request or, redirected by the kernel,    *)
(* with its original destination.  The proxy reads the head of a CONNECT   *)
(* or looks at a request line or a ClientHello, decides by scope whether   *)
(* to decrypt, dials, and hands the connection to the pumps of Tunnel, to  *)
(* a protocol handler or to the HTTP/2 server.                             *)
(*                                                                         *)
(* The client's bytes are numbered from the first it sends: first the head *)
(* of a CONNECT, one byte here, then its ClientHello, then what is for the *)
(* server.  A byte of the ClientHello stands for a part that arrives at    *)
(* once.                                                                   *)
(***************************************************************************)
EXTENDS Tunnel

CONSTANTS
    HelloLimit,   \* maxClientHelloPeek
    Payload,      \* bound on the bytes the client sends for the server
    ServerBytes,  \* bound on the bytes of the server
    EarlyData     \* a client may go on before its CONNECT is answered

ASSUME ProxyAssumption ==
    /\ HelloLimit \in Nat \ {0} /\ Payload \in Nat /\ ServerBytes \in 0 .. MaxBytes
    /\ EarlyData \in BOOLEAN /\ HelloLimit + Payload + 2 <= MaxBytes

VARIABLES
    entry,      \* "connect", "plain" or "transparent"
    hello,      \* length of the client's ClientHello, 0 if it does not speak TLS
    sni,        \* the ClientHello of a redirected client names a server
    scope,      \* the names in scope, of "target" and "sni"
    stage,      \* of handle or HandleTransparent
    host,       \* the name the policy goes by
    pos,        \* bytes of the client that nothing after the front will read
    probed,     \* bytes of the ClientHello in the probe's prefix
    deadline,   \* the connection has the probe's read deadline
    decrypted   \* TLS was terminated

clientVars == <<entry, hello, sni, scope>>
frontVars == <<stage, host, pos, probed, deadline, decrypted>>
vars == <<tunnelVars, clientVars, frontVars>>

HeadSize == IF entry = "connect" THEN 1 ELSE 0

\* Clients as they come: one that CONNECTs speaks TLS then, a plain request
\* does not, a redirected connection may do either.
Init ==
    /\ TunnelInit
    /\ entry \in {"connect", "plain", "transparent"}
    /\ hello \in CASE entry = "connect" -> {2}
                   [] entry = "plain" -> {0}
                   [] OTHER -> {0, 2, HelloLimit + 1}
    /\ sni \in (IF entry = "transparent" /\ hello > 0 THEN BOOLEAN ELSE {FALSE})
    /\ scope \in (IF hello = 0 THEN {{}}
                  ELSE IF sni THEN SUBSET {"target", "sni"} ELSE SUBSET {"target"})
    /\ stage = "head" /\ host = "target" /\ pos = 0 /\ probed = 0
    /\ deadline = FALSE /\ decrypted = FALSE

-----------------------------------------------------------------------------
(* The peers.  A client that was not told of early data waits for the answer *)
(* to its CONNECT.                                                          *)

MaySend(p) ==
    IF p = "server" THEN sent[p] < ServerBytes
    ELSE /\ sent[p] < HeadSize + hello + Payload
         /\ entry = "connect" /\ stage = "head" /\ ~EarlyData => sent[p] < HeadSize

Peer(p) ==
    /\ (MaySend(p) /\ SendBytes(p)) \/ HangUp(p)
    /\ UNCHANGED <<clientVars, frontVars>>

-----------------------------------------------------------------------------
(* The front.                                                               *)

front == <<kind, own, peerVars, flowVars, pump, hand, got, withheld>>

\* A return before there is a flow: the deferred Close hangs up on the client.
GiveUp ==
    /\ pc' = "returned" /\ stage' = "over"
    /\ UNCHANGED <<front, read, clientVars, host, pos, probed, deadline, decrypted>>

Goto(next) == pc = "front" /\ stage' = next /\ UNCHANGED <<pc, front, read, clientVars>>

\* The client hung up with less than the proxy waits for.
Missing(n) == "client" \in gone /\ sent["client"] < n

\* handleConnect reads the head and answers 200.  Its buffered reader may have
\* taken more; interceptTLS gets the connection and not the reader.
ReadConnect(taken) ==
    /\ stage = "head" /\ entry = "connect"
    /\ taken \in HeadSize .. sent["client"]
    /\ pc = "front" /\ stage' = "policy"
    /\ own' = HeadSize /\ pos' = taken
    /\ UNCHANGED <<kind, pc, peerVars, flowVars, pump, hand, got, withheld, read,
                   clientVars, host, probed, deadline, decrypted>>

\* handlePlain peeks at the request line and finds its target.
PeekRequestLine ==
    /\ stage = "head" /\ entry = "plain" /\ sent["client"] >= 1
    /\ Goto("dial")
    /\ UNCHANGED <<host, pos, probed, deadline, decrypted>>

\* A head that ends early, that names no target, or that cannot be answered.
BadHead ==
    /\ stage = "head"
    /\ \/ Missing(1)
       \/ entry # "transparent" /\ sent["client"] >= 1
    /\ GiveUp

\* HandleTransparent looks at the first byte and starts the probe, or dials.
PeekFirst ==
    /\ stage = "head" /\ entry = "transparent" /\ sent["client"] >= 1
    /\ Goto(IF hello > 0 THEN "probe" ELSE "dial")
    /\ deadline' = (hello > 0)
    /\ UNCHANGED <<host, pos, probed, decrypted>>

\* clientHelloProbe.Read records what it reads, up to its limit.
ProbeReads(n) ==
    /\ stage = "probe" /\ probed < hello
    /\ n \in probed + 1 .. sent["client"] /\ n <= HelloLimit
    /\ Goto("probe") /\ probed' = n
    /\ UNCHANGED <<host, pos, deadline, decrypted>>

\* Mutation: what the probe read is not replayed.
ProbeEats ==
    /\ stage = "probe" /\ probed >= hello
    /\ Goto("policy")
    /\ host' = (IF sni THEN "sni" ELSE "target") /\ deadline' = FALSE
    /\ pos' = probed
    /\ UNCHANGED <<probed, decrypted>>

\* Mutation: the policy goes by the destination, whatever the ClientHello names.
ProbeIgnoresName ==
    /\ stage = "probe" /\ probed >= hello
    /\ Goto("policy") /\ deadline' = FALSE
    /\ UNCHANGED <<host, pos, probed, decrypted>>

\* The ClientHello is parsed.  Its bytes are replayed, so none is taken, and the
\* deadline is lifted.
ProbeDone ==
    /\ stage = "probe" /\ probed >= hello
    /\ Goto("policy")
    /\ host' = (IF sni THEN "sni" ELSE "target") /\ deadline' = FALSE
    /\ UNCHANGED <<pos, probed, decrypted>>

\* The ClientHello is longer than the limit, or the client hung up within it.
ProbeFails ==
    /\ stage = "probe" /\ probed < hello
    /\ probed = HelloLimit \/ Missing(hello)
    /\ GiveUp

\* Mutation: the probe has no deadline.
NeverPasses == FALSE /\ GiveUp

\* The read deadline passes: a probe gives up, and so would any later read.
DeadlinePasses ==
    /\ deadline
    /\ IF stage = "probe" THEN GiveUp
       ELSE /\ pc = "pump" /\ pump["c2s"] = "read"
            /\ pump' = [pump EXCEPT !["c2s"] = "done"]
            /\ UNCHANGED <<kind, pc, own, peerVars, flowVars, read, hand, got, withheld,
                           clientVars, frontVars>>

\* shouldMITM: a host that is not in scope is tunneled blind.
Policy ==
    /\ stage = "policy"
    /\ Goto(IF host \in scope THEN "handshake" ELSE "dial")
    /\ UNCHANGED <<host, pos, probed, deadline, decrypted>>

\* The TLS handshake with the client takes its ClientHello.  A client that speaks
\* h2 goes to the HTTP/2 server, any other gets a connection upstream.
Handshake(alpn) ==
    /\ stage = "handshake" /\ sent["client"] >= pos + hello
    /\ pc = "front"
    /\ decrypted' = TRUE
    /\ own' = HeadSize + hello /\ pos' = pos + hello
    /\ pc' = (IF alpn = "h2" THEN "handed" ELSE pc)
    /\ stage' = (IF alpn = "h2" THEN "over" ELSE "dial")
    /\ UNCHANGED <<kind, peerVars, flowVars, pump, hand, got, withheld, read,
                   clientVars, host, probed, deadline>>

\* The client hangs up or does not trust the certificate.
HandshakeFails ==
    /\ stage = "handshake"
    /\ "client" \in gone \/ sent["client"] >= pos + hello
    /\ GiveUp

\* The server is dialed, for TLS with its certificate verified.  What follows
\* reads the client where the front left it.
Dial ==
    /\ stage = "dial" /\ pc = "front"
    /\ kind' = IF hello > 0 /\ ~decrypted THEN "blind" ELSE "raw"
    /\ pc' = IF hello > 0 /\ ~decrypted THEN "pump" ELSE "detect"
    /\ read' = [read EXCEPT !["c2s"] = pos]
    /\ stage' = "over"
    /\ UNCHANGED <<own, peerVars, flowVars, pump, hand, got, withheld, clientVars,
                   host, pos, probed, deadline, decrypted>>

DialFails == stage = "dial" /\ GiveUp

-----------------------------------------------------------------------------
FrontSteps ==
    \/ \E n \in 1 .. MaxBytes : ReadConnect(n) \/ ProbeReads(n)
    \/ PeekRequestLine \/ BadHead \/ PeekFirst
    \/ ProbeDone \/ ProbeFails \/ DeadlinePasses \/ Policy
    \/ \E alpn \in {"h2", "http/1.1"} : Handshake(alpn)
    \/ HandshakeFails \/ Dial \/ DialFails

Later(A) == A /\ UNCHANGED <<clientVars, frontVars>>

Next ==
    \/ \E p \in Peers : Peer(p)
    \/ FrontSteps
    \/ Later(Detect) \/ Later(Return)
    \/ \E d \in Pumps : Later(ReadAny(d)) \/ Later(Answer(d)) \/ Later(Write(d))
                          \/ Later(ReadFails(d))

\* The proxy's goroutines run, the operator answers, and a deadline that is set
\* passes.  The peers owe nothing.
Spec ==
    /\ Init /\ [][Next]_vars
    /\ WF_vars(FrontSteps) /\ WF_vars(Later(Detect)) /\ WF_vars(Later(Return))
    /\ \A d \in Pumps :
          /\ WF_vars(Later(ReadAny(d) \/ ReadFails(d)))
          /\ WF_vars(Later(Answer(d))) /\ WF_vars(Later(Write(d)))

-----------------------------------------------------------------------------
(* Properties.                                                              *)

TypeOK ==
    /\ stage \in {"head", "probe", "policy", "handshake", "dial", "over"}
    /\ host \in {"target", "sni"} /\ pos \in 0 .. MaxBytes /\ probed \in 0 .. HelloLimit
    /\ deadline \in BOOLEAN /\ decrypted \in BOOLEAN

\* The name a client asks for: of its CONNECT, or of a redirected ClientHello
\* when that has one (proxy.go:145-148).
Asked == IF entry = "transparent" /\ sni THEN "sni" ELSE "target"

\* TLS is terminated only for a name in scope, and one in scope is never tunneled
\* blind; a byte that reaches the server of a host not in scope is the client's own
\* (proxy.go:150-154).
DecryptedInScope ==
    /\ TypeOK
    /\ decrypted => Asked \in scope
    /\ kind = "blind" => Asked \notin scope /\ own = HeadSize

\* The probe ends although the client says no more (conn.go:27-30), and an accepted
\* connection whose client has sent its head and its ClientHello is passed on or
\* closed.
FrontEnds ==
    /\ stage = "probe" ~> stage # "probe"
    /\ pc = "front" /\ sent["client"] >= HeadSize + hello + 1 ~> pc # "front"

\* No connection stays: its front ends, and with its peers the whole handler.
ConnectionEnds == FrontEnds /\ EndsWithPeers

\* Nothing the proxy peeked is lost when the next reader takes over (conn.go:12-15,
\* proxy.go:346-347).
PeekedIsKept == pos = own
================================================================================
