---------------------------- MODULE LifecycleProofs ----------------------------
(***************************************************************************)
(* Proofs about Lifecycle, for any number of runs, one after another, on a *)
(* machine with either firewall tool, with a signal or a crash anywhere,   *)
(* and any firewall command failing.                                       *)
(***************************************************************************)
EXTENDS Lifecycle, SequenceTheorems, TLAPS

USE LifecycleAssumption DEF LifecycleAssumption, Backends, NewestFirst, AskToQuit, kernelVars

-----------------------------------------------------------------------------
(* The inductive invariant.                                                *)

\* The resources of a run in the order it acquires them.
OrderOf(m) ==
    CASE m = "proxy" -> <<"proxy", "target", "terminal">>
      [] m = "transparent" -> <<"proxy", "listener", "target", "terminal">>
      [] OTHER -> <<"proxy", "listener", "redirect", "signals", "target", "terminal">>

Order == OrderOf(mode)

\* How many of them it has at each place of the main goroutine.
Height ==
    CASE pc \in {"off", "proxy"} -> 0
      [] pc = "listen" -> 1
      [] pc \in {"flush", "apply", "rollback", "teardown"} -> 2
      [] pc = "notify" -> 3
      [] pc = "target" -> Len(Order) - 2
      [] pc = "terminal" -> Len(Order) - 1
      [] pc \in {"run", "join"} -> Len(Order)
      [] OTHER -> Len(stack)

StackInOrder ==
    /\ Len(stack) = Height /\ Len(stack) <= Len(Order)
    /\ \A i \in 1 .. Len(stack) : stack[i] = Order[i]

ModeFits ==
    /\ pc = "listen" => mode # "proxy"
    /\ pc \in {"flush", "apply", "rollback", "notify", "teardown"} => mode = "apply"
    /\ pc \notin {"flush", "apply", "rollback", "teardown"} => step = 1
    /\ pc \in {"flush", "rollback", "teardown"} => step <= Len(Flush(backend))

\* The commands of a flush that ran had their effect, or one was refused.
Clearing ==
    pc \in {"flush", "rollback", "teardown"} /\ backend = "iptables" /\ ~ refused =>
        /\ step >= 2 => "jump" \notin pieces
        /\ step = 3 => "rule" \notin pieces

\* What iptables has of the rules hangs on their chain: what is refused to go keeps a
\* later run from adding anything.
ChainFirst == backend = "iptables" /\ pieces # {} => "chain" \in pieces

Prefix(n) == {Parts(backend)[i] : i \in 1 .. n}

\* The first parts are in the kernel, by this run, or what was refused to go and, with
\* nft, the first parts as well.
Applying ==
    pc = "apply" =>
        \/ pieces = Prefix(step - 1) /\ ("rule" \in pieces => redirectsTo = runs)
        \/ refused /\ step = 1
        \/ refused /\ backend = "nft" /\ Prefix(step - 1) \subseteq pieces

Redirected ==
    /\ pieces = Installed
    /\ redirectsTo = runs \/ (backend = "nft" /\ refused)

\* What is in the kernel, at each place: what was there before, the first parts,
\* all of them, or nothing, unless a flush was refused.
RulesSound ==
    /\ mode # "apply" => pieces = before
    /\ mode = "apply" /\ Len(stack) >= 3 => Redirected
    /\ pc \in {"proxy", "listen"} \/ (pc = "flush" /\ step = 1) => pieces = before
    /\ Clearing /\ ChainFirst /\ Applying
    /\ (pc = "unwind" /\ Len(stack) <= 2) \/ EndedByItself
       => pieces = {} \/ pieces = before \/ refused

\* A run that says it went well has no signal left to report.
OkSettled ==
    status = "ok" =>
        HandlerGone /\ ~ interrupted /\ pc \in {"unwind", "teardown", "off"}

LInv == TypeOK /\ StackInOrder /\ ModeFits /\ RulesSound /\ OkSettled

-----------------------------------------------------------------------------
(* Facts about the operators of the model.                                 *)

LEMMA OrderCases ==
    ASSUME TypeOK
    PROVE  /\ mode = "proxy" =>
                 /\ Len(Order) = 3
                 /\ Order[1] = "proxy" /\ Order[2] = "target" /\ Order[3] = "terminal"
           /\ mode = "transparent" =>
                 /\ Len(Order) = 4
                 /\ Order[1] = "proxy" /\ Order[2] = "listener"
                 /\ Order[3] = "target" /\ Order[4] = "terminal"
           /\ mode = "apply" =>
                 /\ Len(Order) = 6
                 /\ Order[1] = "proxy" /\ Order[2] = "listener" /\ Order[3] = "redirect"
                 /\ Order[4] = "signals" /\ Order[5] = "target" /\ Order[6] = "terminal"
BY DEF TypeOK, Order, OrderOf

LEMMA RuleCases ==
    ASSUME TypeOK
    PROVE  /\ backend = "nft" =>
                 /\ Len(Parts(backend)) = 3 /\ Len(Flush(backend)) = 1
                 /\ Parts(backend)[1] = "table" /\ Parts(backend)[2] = "chain"
                 /\ Parts(backend)[3] = "rule"
                 /\ Flush(backend)[1] = "table"
                 /\ Installed = {"table", "chain", "rule"}
           /\ backend = "iptables" =>
                 /\ Len(Parts(backend)) = 3 /\ Len(Flush(backend)) = 3
                 /\ Parts(backend)[1] = "chain" /\ Parts(backend)[2] = "rule"
                 /\ Parts(backend)[3] = "jump"
                 /\ Flush(backend)[1] = "jump" /\ Flush(backend)[2] = "rule"
                 /\ Flush(backend)[3] = "chain"
                 /\ Installed = {"chain", "rule", "jump"}
<1>1. CASE backend = "nft"
  <2>1. Parts(backend) = <<"table", "chain", "rule">> /\ Flush(backend) = <<"table">>
    BY <1>1 DEF Parts, Flush
  <2>2. ToSet(<<"table", "chain", "rule">>) = {"table", "chain", "rule"}
    BY DEF ToSet
  <2> QED
    BY <1>1, <2>1, <2>2 DEF Installed
<1>2. CASE backend = "iptables"
  <2>1. /\ Parts(backend) = <<"chain", "rule", "jump">>
        /\ Flush(backend) = <<"jump", "rule", "chain">>
    BY <1>2 DEF Parts, Flush
  <2>2. ToSet(<<"chain", "rule", "jump">>) = {"chain", "rule", "jump"}
    BY DEF ToSet
  <2> QED
    BY <1>2, <2>1, <2>2 DEF Installed
<1> QED
  BY <1>1, <1>2 DEF TypeOK

\* The places of the resources that a rule is about.
LEMMA OrderPlaces ==
    ASSUME TypeOK, NEW i \in 1 .. Len(Order)
    PROVE  /\ Order[i] = "redirect" => mode = "apply" /\ i = 3
           /\ Order[i] = "target" /\ mode = "apply" => i = 5
<1>1. mode \in {"proxy", "transparent", "apply"}
  BY DEF TypeOK
<1>2. CASE mode = "apply"
  <2>1. i \in 1 .. 6
    BY <1>2, OrderCases
  <2>2. i = 1 \/ i = 2 \/ i = 3 \/ i = 4 \/ i = 5 \/ i = 6
    BY <2>1
  <2> QED
    BY <1>2, <2>2, OrderCases
<1>3. CASE mode = "transparent"
  <2>1. i \in 1 .. 4
    BY <1>3, OrderCases
  <2>2. i = 1 \/ i = 2 \/ i = 3 \/ i = 4
    BY <2>1
  <2> QED
    BY <1>3, <2>2, OrderCases
<1>4. CASE mode = "proxy"
  <2>1. i \in 1 .. 3
    BY <1>4, OrderCases
  <2>2. i = 1 \/ i = 2 \/ i = 3
    BY <2>1
  <2> QED
    BY <1>4, <2>2, OrderCases
<1> QED
  BY <1>1, <1>2, <1>3, <1>4

\* A run holds no resource twice.
LEMMA OrderInjective ==
    ASSUME NEW m \in {"proxy", "transparent", "apply"}, NEW s \in Seq(Resources),
           Len(s) <= Len(OrderOf(m)),
           \A i \in 1 .. Len(s) : s[i] = OrderOf(m)[i]
    PROVE  IsInjective(s)
<1>1. \A i, j \in 1 .. Len(OrderOf(m)) : OrderOf(m)[i] = OrderOf(m)[j] => i = j
  BY DEF OrderOf
<1>2. Len(OrderOf(m)) \in Nat /\ Len(s) \in Nat /\ DOMAIN s = 1 .. Len(s)
  BY LenProperties DEF OrderOf
<1> QED
  BY <1>1, <1>2 DEF IsInjective

\* What is held, by the height of the stack.
LEMMA HeldCases ==
    ASSUME TypeOK, StackInOrder, NEW r
    PROVE  Holds(r) <=> \E i \in 1 .. Len(stack) : Order[i] = r
BY LenProperties DEF StackInOrder, TypeOK, Holds, ToSet

\* Acquiring a resource puts it on top ...
LEMMA Acquired ==
    ASSUME TypeOK, StackInOrder, NEW r \in Resources,
           Len(stack) < Len(Order), r = Order[Len(stack) + 1]
    PROVE  /\ Append(stack, r) \in Seq(Resources)
           /\ Len(Append(stack, r)) = Len(stack) + 1
           /\ \A i \in 1 .. Len(stack) + 1 : Append(stack, r)[i] = Order[i]
BY AppendProperties, LenProperties DEF TypeOK, StackInOrder

\* ... and the deferred call that runs next takes the top away.
LEMMA Released ==
    ASSUME TypeOK, StackInOrder, stack # <<>>
    PROVE  /\ RemoveAt(stack, Len(stack)) \in Seq(Resources)
           /\ Len(RemoveAt(stack, Len(stack))) = Len(stack) - 1
           /\ \A i \in 1 .. Len(stack) - 1 : RemoveAt(stack, Len(stack))[i] = Order[i]
<1> DEFINE n == Len(stack)
<1>1. n \in Nat \ {0} /\ stack \in Seq(Resources) /\ \A i \in 1 .. n : stack[i] \in Resources
  BY LenProperties, EmptySeq, ElementOfSeq DEF TypeOK
<1>2. SubSeq(stack, n + 1, n) = <<>>
  BY <1>1, SubSeqEmpty
<1>3. /\ SubSeq(stack, 1, n - 1) \in Seq(Resources)
      /\ Len(SubSeq(stack, 1, n - 1)) = n - 1
      /\ \A i \in 1 .. n - 1 : SubSeq(stack, 1, n - 1)[i] = stack[i]
  <2>1. PICK m \in Int : m = n - 1
    BY <1>1
  <2>2. \A i \in 1 .. m : stack[i] \in Resources
    BY <1>1, <2>1
  <2>3. /\ SubSeq(stack, 1, m) \in Seq(Resources)
        /\ Len(SubSeq(stack, 1, m)) = IF 1 <= m THEN m - 1 + 1 ELSE 0
        /\ \A i \in 1 .. m - 1 + 1 : SubSeq(stack, 1, m)[i] = stack[1 + i - 1]
    BY <2>2, SubSeqProperties
  <2> QED
    BY <1>1, <2>1, <2>3
<1>4. RemoveAt(stack, n) = SubSeq(stack, 1, n - 1)
  BY <1>2, <1>3, ConcatEmptySeq DEF RemoveAt
<1> QED
  BY <1>1, <1>3, <1>4 DEF StackInOrder

\* The rules are removed when the redirection is on top of the stack: third.
LEMMA RedirectReleased ==
    ASSUME TypeOK, StackInOrder, Release, pc' = "teardown"
    PROVE  Len(stack) = 3 /\ mode = "apply"
<1>1. Len(stack) \in Nat \ {0} /\ pc = "unwind" /\ stack[Len(stack)] = "redirect"
  BY LenProperties, EmptySeq DEF Release, TypeOK
<1>2. stack[Len(stack)] = Order[Len(stack)] /\ Len(stack) \in 1 .. Len(Order)
  <2>1. Len(Order) \in Nat
    BY DEF Order, OrderOf
  <2> QED
    BY <1>1, <2>1 DEF StackInOrder
<1> QED
  BY <1>1, <1>2, OrderPlaces

-----------------------------------------------------------------------------
(* The stack of deferred calls.                                            *)

\* The steps of the main goroutine that acquire and release nothing.
Idle == UNCHANGED <<stack, mode>>

LEMMA StackStep ==
    ASSUME LInv, [Next]_vars
    PROVE  StackInOrder' /\ stack' \in Seq(Resources)
<1>0. /\ TypeOK /\ StackInOrder /\ ModeFits
      /\ stack \in Seq(Resources) /\ Len(stack) \in Nat
      /\ mode \in {"proxy", "transparent", "apply"}
  BY LenProperties DEF LInv, TypeOK
\* An unchanged stack must have the height of the next place.
<1>1. ASSUME Idle, Len(stack) = Height' PROVE StackInOrder' /\ stack' \in Seq(Resources)
  BY <1>0, <1>1 DEF Idle, StackInOrder, Order, OrderOf
\* A resource is acquired in its turn.
<1>2. ASSUME NEW r \in Resources, stack' = Append(stack, r), mode' = mode,
             Len(stack) < Len(Order), r = Order[Len(stack) + 1], Height' = Len(stack) + 1
      PROVE  StackInOrder' /\ stack' \in Seq(Resources)
  <2>1. Order' = Order
    BY <1>2 DEF Order
  <2> QED
    BY <1>0, <1>2, <2>1, Acquired DEF StackInOrder
\* The heights between which a run acquires.
<1>h. ASSUME mode' = mode
       PROVE  /\ pc = "proxy" => Len(stack) = 0
              /\ pc = "listen" => Len(stack) = 1
              /\ pc = "apply" => Len(stack) = 2
              /\ pc = "notify" => Len(stack) = 3
              /\ pc = "target" => Len(stack) = Len(Order) - 2
              /\ pc = "terminal" => Len(stack) = Len(Order) - 1
              /\ pc' = "listen" => Height' = 1
              /\ pc' = "flush" => Height' = 2
              /\ pc' = "notify" => Height' = 3
              /\ pc' = "target" => Height' = Len(Order) - 2
              /\ pc' = "terminal" => Height' = Len(Order) - 1
              /\ pc' = "run" => Height' = Len(Order)
  <2>1. Order' = Order
    BY <1>h DEF Order
  <2> QED
    BY <1>0, <2>1 DEF StackInOrder, Height
\* A process that is not there holds nothing.
<1>3. ASSUME stack' = <<>>, pc' = "off" PROVE StackInOrder' /\ stack' \in Seq(Resources)
  <2>1. Len(stack') = 0 /\ stack' \in Seq(Resources)
    BY <1>3, EmptySeq
  <2>2. Len(Order') \in Nat /\ Height' = 0
    BY <1>3 DEF Order, Height
  <2> QED
    BY <2>1, <2>2 DEF StackInOrder
<1>4. ASSUME NEW m \in {"proxy", "transparent", "apply"}, Launch(m)
      PROVE  StackInOrder' /\ stack' \in Seq(Resources)
  <2>1. Len(stack) = 0 /\ stack' = stack /\ Height' = 0
    BY <1>0, <1>4 DEF Launch, StackInOrder, Height
  <2>2. Len(Order') \in Nat
    BY DEF Order
  <2> QED
    BY <1>0, <2>1, <2>2 DEF StackInOrder
<1>5. CASE Startup
  <2>1. CASE StartProxy
    <3>1. /\ pc = "proxy" /\ pc' = IF mode = "proxy" THEN "target" ELSE "listen"
          /\ stack' = Append(stack, "proxy") /\ mode' = mode
      BY <2>1 DEF StartProxy, Acquire, runVars
    <3>2. /\ Len(Order) \in {3, 4, 6} /\ Order[1] = "proxy"
          /\ pc' = "target" => Len(Order) - 2 = 1
      BY <1>0, <3>1, OrderCases
    <3>3. Len(stack) = 0 /\ Height' = 1
      BY <1>0, <1>h, <3>1, <3>2, OrderCases
    <3>4. Len(stack) < Len(Order) /\ Height' = Len(stack) + 1 /\ Order[Len(stack) + 1] = "proxy"
      BY <3>2, <3>3
    <3> QED
      BY <1>2, <3>1, <3>4 DEF Resources
  <2>2. CASE Listen
    <3>1. /\ pc = "listen" /\ pc' = IF mode = "apply" THEN "flush" ELSE "target"
          /\ stack' = Append(stack, "listener") /\ mode' = mode /\ mode # "proxy"
      BY <1>0, <2>2 DEF Listen, Acquire, runVars, ModeFits
    <3>2. /\ Len(Order) \in {4, 6} /\ Order[2] = "listener"
          /\ pc' = "target" => Len(Order) - 2 = 2
      BY <1>0, <3>1, OrderCases
    <3>3. Len(stack) = 1 /\ Height' = 2
      BY <1>0, <1>h, <3>1, <3>2, OrderCases
    <3>4. Len(stack) < Len(Order) /\ Height' = Len(stack) + 1 /\ Order[Len(stack) + 1] = "listener"
      BY <3>2, <3>3
    <3> QED
      BY <1>2, <3>1, <3>4 DEF Resources
  <2>3. CASE FlushStale \/ Rollback
    BY <1>0, <1>1, <2>3
       DEF FlushStale, Rollback, FlushStep, runVars, Idle, StackInOrder, Height
  <2>4. CASE ApplyStep
    <3>1. CASE step < Len(Parts(backend))
      BY <1>0, <1>1, <2>4, <3>1 DEF ApplyStep, runVars, Idle, StackInOrder, Height
    <3>2. CASE ~ (step < Len(Parts(backend)))
      <4>1. /\ pc = "apply" /\ pc' = "notify"
            /\ stack' = Append(stack, "redirect") /\ mode' = mode /\ mode = "apply"
        BY <1>0, <2>4, <3>2 DEF ApplyStep, runVars, ModeFits
      <4>2. Len(Order) = 6 /\ Order[3] = "redirect"
        BY <1>0, <4>1, OrderCases
      <4>3. Len(stack) = 2 /\ Height' = 3
        BY <1>0, <1>h, <4>1, <4>2, OrderCases
      <4>4. Len(stack) < Len(Order) /\ Height' = Len(stack) + 1 /\ Order[Len(stack) + 1] = "redirect"
        BY <4>2, <4>3
      <4> QED
        BY <1>2, <4>1, <4>4 DEF Resources
    <3> QED
      BY <3>1, <3>2
  <2>5. CASE Notify
    <3>1. /\ pc = "notify" /\ pc' = "target"
          /\ stack' = Append(stack, "signals") /\ mode' = mode /\ mode = "apply"
      BY <1>0, <2>5 DEF Notify, Acquire, runVars, ModeFits
    <3>2. Len(Order) = 6 /\ Order[4] = "signals"
      BY <1>0, <3>1, OrderCases
    <3>3. Len(stack) = 3 /\ Height' = 4
      BY <1>0, <1>h, <3>1, <3>2, OrderCases
    <3>4. Len(stack) < Len(Order) /\ Height' = Len(stack) + 1 /\ Order[Len(stack) + 1] = "signals"
      BY <3>2, <3>3
    <3> QED
      BY <1>2, <3>1, <3>4 DEF Resources
  <2>6. CASE StartTarget
    <3>1. /\ pc = "target" /\ pc' = "terminal"
          /\ stack' = Append(stack, "target") /\ mode' = mode
      BY <2>6 DEF StartTarget, Acquire, runVars
    <3>2. /\ Len(stack) < Len(Order) /\ Height' = Len(stack) + 1
          /\ Order[Len(stack) + 1] = "target"
      BY <1>0, <1>h, <3>1, OrderCases
    <3> QED
      BY <1>2, <3>1, <3>2 DEF Resources
  <2>7. CASE StartTerminal
    <3>1. /\ pc = "terminal" /\ pc' = "run"
          /\ stack' = Append(stack, "terminal") /\ mode' = mode
      BY <2>7 DEF StartTerminal, runVars
    <3>2. /\ Len(stack) < Len(Order) /\ Height' = Len(stack) + 1
          /\ Order[Len(stack) + 1] = "terminal"
      BY <1>0, <1>h, <3>1, OrderCases
    <3> QED
      BY <1>2, <3>1, <3>2 DEF Resources
  <2> QED
    BY <1>5, <2>1, <2>2, <2>3, <2>4, <2>5, <2>6, <2>7 DEF Startup
<1>6. CASE StartFails \/ ApplyFails \/ Join
  BY <1>0, <1>1, <1>6
     DEF StartFails, Fail, ApplyFails, Join, runVars, Idle, StackInOrder, Height, Order
<1>7. CASE Release
  <2>1. stack' = RemoveAt(stack, Len(stack)) /\ mode' = mode /\ pc' \in {"unwind", "teardown"}
    BY <1>7 DEF Release, runVars
  <2>2. Order' = Order
    BY <2>1 DEF Order
  <2>3. stack # <<>> /\ Len(stack) # 0
    BY <1>0, <1>7, EmptySeq DEF Release
  <2>4. /\ stack' \in Seq(Resources) /\ Len(stack') = Len(stack) - 1
        /\ \A i \in 1 .. Len(stack') : stack'[i] = Order'[i]
    BY <1>0, <2>1, <2>2, <2>3, Released
  <2>5. pc' = "teardown" => Len(stack) = 3
    BY <1>0, <1>7, RedirectReleased
  <2>6. Len(stack') = Height'
    BY <1>0, <2>1, <2>4, <2>5 DEF Height
  <2> QED
    BY <1>0, <2>2, <2>4, <2>6 DEF StackInOrder
<1>8. CASE Teardown
  BY <1>0, <1>1, <1>8 DEF Teardown, FlushStep, runVars, Idle, StackInOrder, Height
<1>9. CASE Exit
  BY <1>3, <1>9 DEF Exit
<1>10. CASE Handler \/ UNCHANGED vars
  BY <1>0, <1>1, <1>10
     DEF Handler, TakeSignal, Quit, ReportSignal, Dismiss, vars, runVars, ruleVars, Idle,
         StackInOrder, Height, Order
<1>11. ASSUME NEW how, RunEnds(how) PROVE StackInOrder' /\ stack' \in Seq(Resources)
  BY <1>0, <1>1, <1>11 DEF RunEnds, runVars, Idle, StackInOrder, Height, Order
<1>12. CASE Signal
  BY <1>0, <1>1, <1>3, <1>12 DEF Signal, Die, runVars, Idle, StackInOrder, Height, Order
<1>13. CASE Crash
  BY <1>3, <1>13 DEF Crash, Die
<1> QED
  BY <1>4, <1>5, <1>6, <1>7, <1>8, <1>9, <1>10, <1>11, <1>12, <1>13 DEF Next, Main

-----------------------------------------------------------------------------
(* Types, places and rules.                                                *)

\* One command of a flush: the last one leaves nothing, whatever there was, unless one
\* was refused.
LEMMA FlushCases ==
    ASSUME TypeOK, ModeFits, Clearing, ChainFirst, backend' = backend,
           NEW here \in {"flush", "rollback", "teardown"},
           NEW next \in {"apply", "unwind"}, FlushStep(here, next)
    PROVE  /\ pc = here /\ pieces' \subseteq pieces /\ Clearing' /\ ChainFirst'
           /\ refused' \in BOOLEAN /\ redirectsTo' \in 0 .. MaxRuns
           /\ \/ pc' = here /\ step' = step + 1 /\ step' <= Len(Flush(backend))
              \/ pc' = next /\ step' = 1 /\ (pieces' = {} \/ refused')
<1> DEFINE removed == Removed(Flush(backend)[step])
<1>1. /\ pc = here /\ step \in 1 .. 3 /\ step <= Len(Flush(backend))
      /\ step' = IF step < Len(Flush(backend)) THEN step + 1 ELSE 1
      /\ pc' = IF step < Len(Flush(backend)) THEN here ELSE next
      /\ \/ pieces' = removed /\ refused' = (step > 1 /\ refused)
         \/ pieces' = pieces /\ refused' = TRUE
  BY DEF FlushStep, TypeOK, ModeFits
<1>2. refused' \in BOOLEAN /\ redirectsTo' \in 0 .. MaxRuns
  <2>1. refused' \in BOOLEAN
    BY <1>1
  <2>2. redirectsTo' \in {0, redirectsTo, runs}
    BY DEF FlushStep, FirstRule
  <2> QED
    BY <2>1, <2>2 DEF TypeOK
<1>3. CASE pieces' = pieces /\ refused' = TRUE
  BY <1>1, <1>2, <1>3 DEF Clearing, ChainFirst
<1>4. CASE pieces' = removed /\ refused' = (step > 1 /\ refused)
  <2>1. CASE backend = "nft"
    <3>1. Len(Flush(backend)) = 1 /\ Flush(backend)[1] = "table"
      BY <2>1, RuleCases
    <3>2. step = 1
      BY <1>1, <3>1
    <3>3. pieces' = {} /\ step' = 1 /\ pc' = next
      BY <1>1, <1>4, <3>1, <3>2 DEF Removed
    <3> QED
      BY <1>1, <1>2, <2>1, <3>3 DEF Clearing, ChainFirst
  <2>2. CASE backend = "iptables"
    <3>0. /\ Len(Flush(backend)) = 3
          /\ Flush(backend)[1] = "jump" /\ Flush(backend)[2] = "rule"
          /\ Flush(backend)[3] = "chain"
      BY <2>2, RuleCases
    <3>1. CASE step = 1
      <4>1. pieces' = pieces \ {"jump"} /\ step' = 2 /\ pc' = here
        BY <1>1, <1>4, <3>0, <3>1 DEF Removed
      <4> QED
        BY <1>1, <1>2, <2>2, <3>0, <3>1, <4>1 DEF Clearing, ChainFirst
    <3>2. CASE step = 2
      <4>1. pieces' = pieces \ {"rule"} /\ step' = 3 /\ pc' = here /\ refused' = refused
        BY <1>1, <1>4, <3>0, <3>2 DEF Removed, TypeOK
      <4> QED
        BY <1>1, <1>2, <2>2, <3>0, <3>2, <4>1 DEF Clearing, ChainFirst
    <3>3. CASE step = 3
      <4>1. /\ pieces' = IF {"rule", "jump"} \cap pieces = {} THEN {} ELSE pieces
            /\ step' = 1 /\ pc' = next /\ refused' = refused
        BY <1>1, <1>4, <3>0, <3>3 DEF Removed, TypeOK
      <4>2. ~ refused => {"rule", "jump"} \cap pieces = {}
        BY <1>1, <2>2, <3>3 DEF Clearing
      <4> QED
        BY <1>1, <1>2, <2>2, <4>1, <4>2 DEF Clearing, ChainFirst
    <3> QED
      BY <1>1, <3>1, <3>2, <3>3
  <2> QED
    BY <2>1, <2>2 DEF TypeOK
<1> QED
  BY <1>1, <1>3, <1>4

LEMMA TypeStep ==
    ASSUME LInv, [Next]_vars
    PROVE  TypeOK' /\ ModeFits'
<1>0. /\ TypeOK /\ StackInOrder /\ ModeFits /\ Clearing /\ ChainFirst
      /\ StackInOrder' /\ stack' \in Seq(Resources)
  BY StackStep DEF LInv, RulesSound
\* The stack is typed; the other variables are.
<1>1. ASSUME mode' \in {"proxy", "transparent", "apply"} PROVE IsInjective(stack')
  BY <1>0, <1>1, OrderInjective DEF StackInOrder, Order
<1> USE DEF TypeOK, ModeFits, runVars, ruleVars, signalVars
<1>2. ASSUME NEW m \in {"proxy", "transparent", "apply"}, Launch(m) PROVE TypeOK' /\ ModeFits'
  <2>0. IsInjective(stack')
    BY <1>1, <1>2 DEF Launch
  <2>1. TypeOK'
    <3>0. runs' \in 0 .. MaxRuns
      BY <1>0, <1>2 DEF Launch
    <3>1. {queued', asked', interrupted'} \subseteq BOOLEAN
      BY <1>2 DEF Launch
    <3>2. pieces' \subseteq Installed' /\ before' \subseteq Installed' /\ backend' \in Backends
      BY <1>0, <1>2 DEF Launch, Installed
    <3> QED
      BY <1>0, <1>2, <2>0, <3>0, <3>1, <3>2 DEF Launch
  <2>2. ModeFits'
    BY <1>0, <1>2 DEF Launch
  <2> QED
    BY <2>1, <2>2
<1>3. CASE StartProxy \/ Listen \/ StartFails \/ Notify \/ StartTarget
  <2>1. TypeOK'
    BY <1>0, <1>1, <1>3
       DEF StartProxy, Listen, StartFails, Notify, StartTarget, Acquire, Fail, Installed
  <2>2. Len(Flush(backend)) \in {1, 3}
    BY <1>0, RuleCases
  <2>3. ModeFits'
    <3>1. step = 1 /\ step' = step /\ backend' = backend /\ mode' = mode
      BY <1>0, <1>3
         DEF StartProxy, Listen, StartFails, Notify, StartTarget, Acquire, Fail
    <3>2. /\ pc' \in {"listen", "target", "flush", "unwind", "terminal"}
          /\ pc' = "listen" => mode # "proxy"
          /\ pc' = "flush" => mode = "apply"
      BY <1>3 DEF StartProxy, Listen, StartFails, Notify, StartTarget, Acquire, Fail
    <3> QED
      BY <2>2, <3>1, <3>2
  <2> QED
    BY <2>1, <2>3
<1>4. ASSUME NEW here \in {"flush", "rollback", "teardown"},
             NEW next \in {"apply", "unwind"}, FlushStep(here, next),
             UNCHANGED <<runVars, signalVars, result, status>>
      PROVE  TypeOK' /\ ModeFits'
  <2>1. /\ pc = here /\ pieces' \subseteq pieces
        /\ refused' \in BOOLEAN /\ redirectsTo' \in 0 .. MaxRuns
        /\ \/ pc' = here /\ step' = step + 1 /\ step' <= Len(Flush(backend))
           \/ pc' = next /\ step' = 1
    BY <1>0, <1>4, FlushCases
  <2>2. Len(Flush(backend)) \in {1, 3}
    BY <1>0, RuleCases
  <2>3. step' \in 1 .. 3 /\ (pc' \in {"flush", "rollback", "teardown"} => step' <= Len(Flush(backend)))
    <3>1. step \in 1 .. 3
      BY <1>0
    <3>2. CASE step' = step + 1 /\ step' <= Len(Flush(backend))
      <4>1. PICK n \in 1 .. 3 : n = Len(Flush(backend))
        BY <2>2
      <4> QED
        BY <3>1, <3>2, <4>1
    <3>3. CASE pc' = next /\ step' = 1
      BY <3>3
    <3> QED
      BY <2>1, <3>2, <3>3
  <2> QED
    BY <1>0, <1>1, <1>4, <2>1, <2>3 DEF Installed
<1>5. CASE FlushStale \/ Rollback \/ Teardown
  BY <1>4, <1>5 DEF FlushStale, Rollback, Teardown
<1>6. CASE ApplyStep
  <2>1. Len(Parts(backend)) = 3 /\ Parts(backend)[step] \in Installed
    BY <1>0, RuleCases
  <2>2. pieces' \subseteq Installed'
    BY <1>0, <1>6, <2>1 DEF ApplyStep, Installed
  <2>3. /\ before' \subseteq Installed' /\ backend' = backend
        /\ redirectsTo' \in {0, redirectsTo, runs}
    BY <1>0, <1>6 DEF ApplyStep, FirstRule, Installed
  <2> QED
    BY <1>0, <1>1, <1>6, <2>1, <2>2, <2>3 DEF ApplyStep
<1>7. CASE ApplyFails
  <2>1. 1 <= Len(Flush(backend))
    BY <1>0, RuleCases
  <2> QED
    BY <1>0, <1>1, <1>7, <2>1 DEF ApplyFails, Installed
<1>8. CASE Release
  <2>1. pc' = "teardown" => mode = "apply"
    BY <1>0, <1>8, RedirectReleased
  <2>2. 1 <= Len(Flush(backend))
    BY <1>0, RuleCases
  <2> QED
    BY <1>0, <1>1, <1>8, <2>1, <2>2 DEF Release, Installed
<1>9. CASE StartTerminal \/ Join \/ Exit
  BY <1>0, <1>1, <1>9 DEF StartTerminal, Join, Exit, Installed
<1>10. CASE Handler
  BY <1>0, <1>1, <1>10 DEF Handler, TakeSignal, Quit, ReportSignal, Dismiss, Installed
<1>11. ASSUME NEW how \in {"ok", "error"}, RunEnds(how) PROVE TypeOK' /\ ModeFits'
  BY <1>0, <1>1, <1>11 DEF RunEnds, Installed
<1>12. CASE Signal \/ Crash
  <2>0. UNCHANGED <<runVars, kernelVars, refused, result, interrupted, handler>>
    BY <1>12 DEF Signal, Crash, Die
  <2>1. TypeOK'
    <3>0. step' \in 1 .. 3
      BY <1>0, <1>12 DEF Signal, Crash, Die
    <3>1. {queued', asked', interrupted'} \subseteq BOOLEAN
      BY <1>0, <1>12 DEF Signal, Crash, Die
    <3>2. pc' \in {pc, "off"} /\ status' \in {status, "signalled", "crashed"}
      BY <1>12 DEF Signal, Crash, Die
    <3> QED
      BY <1>0, <1>1, <2>0, <3>0, <3>1, <3>2 DEF Installed
  <2>2. ModeFits'
    BY <1>0, <1>12 DEF Signal, Crash, Die
  <2> QED
    BY <2>1, <2>2
<1>13. CASE UNCHANGED vars
  BY <1>0, <1>13 DEF vars, Installed
<1> QED
  BY <1>2, <1>3, <1>5, <1>6, <1>7, <1>8, <1>9, <1>10, <1>11, <1>12, <1>13
     DEF Next, Main, Startup

\* A step that leaves the rules alone, and goes to no place where more is known
\* of them than at the place it comes from.
LEMMA RulesKept ==
    ASSUME LInv, TypeOK', StackInOrder', UNCHANGED <<runVars, ruleVars>>,
           Len(stack') >= 3 => Len(stack) >= 3,
           pc' \in {"proxy", "listen", "flush", "rollback", "teardown", "apply"} => pc' = pc,
           (pc' = "unwind" /\ Len(stack') <= 2)
              \/ (pc' = "off" /\ status' \in {"ok", "error", "interrupted"})
           => pieces = {} \/ pieces = before \/ refused
    PROVE  RulesSound'
BY DEF LInv, RulesSound, Clearing, ChainFirst, Applying, Prefix, Redirected, EndedByItself,
       Installed, runVars, ruleVars

LEMMA RulesStep ==
    ASSUME LInv, [Next]_vars
    PROVE  RulesSound'
<1> USE DEF ChainFirst, Applying, Redirected, EndedByItself
<1>0. /\ TypeOK /\ StackInOrder /\ ModeFits /\ RulesSound /\ Clearing /\ ChainFirst
      /\ TypeOK' /\ StackInOrder' /\ ModeFits'
      /\ stack \in Seq(Resources) /\ Len(stack) \in Nat
  BY TypeStep, StackStep, LenProperties DEF LInv, RulesSound, TypeOK
<1>1. ASSUME NEW m \in {"proxy", "transparent", "apply"}, Launch(m) PROVE RulesSound'
  <2>1. /\ Len(stack) = 0 /\ stack' = stack /\ pc' = "proxy" /\ before' = pieces
        /\ UNCHANGED <<backend, pieces>>
    BY <1>0, <1>1 DEF Launch, StackInOrder, Height
  <2> QED
    BY <1>0, <2>1 DEF RulesSound, Clearing
<1>2. CASE StartProxy
  <2>1. pieces = before /\ Len(stack) = 0 /\ Len(stack') = 1
    BY <1>0, <1>2, AppendProperties
       DEF StartProxy, Acquire, RulesSound, StackInOrder, Height, Resources
  <2> QED
    BY <1>0, <1>2, <2>1
       DEF StartProxy, Acquire, RulesSound, Clearing, runVars, ruleVars
<1>3. CASE Listen
  <2>1. pieces = before /\ Len(stack) = 1 /\ Len(stack') = 2
    <3>1. pc = "listen" /\ stack' = Append(stack, "listener") /\ "listener" \in Resources
      BY <1>3 DEF Listen, Acquire, Resources
    <3>2. Len(stack) = 1 /\ pieces = before
      BY <1>0, <3>1 DEF StackInOrder, Height, RulesSound
    <3>3. Len(Append(stack, "listener")) = Len(stack) + 1
      BY <1>0, <3>1, AppendProperties
    <3> QED
      BY <3>1, <3>2, <3>3
  <2>2. step = 1
    BY <1>0, <1>3 DEF Listen, ModeFits
  <2>3. /\ UNCHANGED <<backend, pieces, before, mode>> /\ step' = 1
        /\ pc' \in {"flush", "target"}
    BY <1>3, <2>2 DEF Listen, Acquire, runVars, ruleVars
  <2> QED
    BY <1>0, <2>1, <2>3 DEF RulesSound, Clearing
<1>4. ASSUME NEW here \in {"flush", "rollback", "teardown"},
             NEW next \in {"apply", "unwind"}, FlushStep(here, next),
             UNCHANGED <<runVars, stack, status>>
      PROVE  RulesSound'
  <2>1. /\ pc = here /\ Clearing' /\ ChainFirst'
        /\ \/ pc' = here /\ step' = step + 1 /\ step' <= Len(Flush(backend))
           \/ pc' = next /\ step' = 1 /\ (pieces' = {} \/ refused')
    BY <1>0, <1>4, FlushCases DEF runVars
  <2>2. mode' = "apply" /\ Len(stack') = 2 /\ step \in 1 .. 3
    BY <1>0, <1>4, <2>1 DEF ModeFits, StackInOrder, Height, runVars, TypeOK
  <2>3. CASE pc' = here /\ step' = step + 1
    <3>1. step' # 1
      BY <2>2, <2>3
    <3> QED
      BY <2>1, <2>2, <2>3, <3>1 DEF RulesSound
  <2>4. CASE pc' = next /\ step' = 1 /\ (pieces' = {} \/ refused')
    <3>1. Prefix(step - 1)' = {}
      BY <2>4 DEF Prefix
    <3>2. Applying'
      BY <2>4, <3>1
    <3> QED
      BY <2>1, <2>2, <2>4, <3>2 DEF RulesSound
  <2> QED
    BY <2>1, <2>3, <2>4
<1>5. CASE FlushStale \/ Rollback \/ Teardown
  BY <1>4, <1>5 DEF FlushStale, Rollback, Teardown
<1>6. CASE ApplyStep
  <2>1. /\ pc = "apply" /\ mode = "apply" /\ Len(stack) = 2 /\ step \in 1 .. 3
        /\ Len(Parts(backend)) = 3 /\ Installed = Prefix(3)
    <3>1. Len(Parts(backend)) = 3
          /\ Installed = {Parts(backend)[1], Parts(backend)[2], Parts(backend)[3]}
      BY <1>0, RuleCases DEF TypeOK
    <3>2. 1 .. 3 = {1, 2, 3}
      OBVIOUS
    <3> QED
      BY <1>0, <1>6, <3>1, <3>2
         DEF ApplyStep, ModeFits, StackInOrder, Height, Prefix, TypeOK
  <2>2. /\ pieces' = pieces \cup {Parts(backend)[step]}
        /\ Prefix(step) = Prefix(step - 1) \cup {Parts(backend)[step]}
        /\ redirectsTo' = FirstRule(pieces')
        /\ mode' = "apply" /\ UNCHANGED <<backend, before, runs, refused>>
    <3>1. 1 .. step = (1 .. step - 1) \cup {step}
      BY <2>1
    <3> QED
      BY <1>6, <2>1, <3>1 DEF ApplyStep, Prefix, runVars
  <2>3. ChainFirst'
    <3> SUFFICES ASSUME backend = "iptables" PROVE "chain" \in pieces'
      BY <2>2
    <3>1. Parts(backend)[step] = "chain" \/ "chain" \in pieces
      BY <1>0, <1>6, <2>1, RuleCases DEF ApplyStep, Installable
    <3> QED
      BY <2>2, <3>1
  \* What the step makes of what there was.
  <2>4. \/ pieces' = Prefix(step) /\ ("rule" \in pieces' => redirectsTo' = runs)
        \/ refused /\ backend = "nft" /\ Prefix(step) \subseteq pieces'
    <3>1. CASE pieces = Prefix(step - 1) /\ ("rule" \in pieces => redirectsTo = runs)
      BY <2>2, <3>1 DEF FirstRule
    <3>2. CASE refused /\ backend = "nft" /\ Prefix(step - 1) \subseteq pieces
      BY <2>2, <3>2
    <3>3. CASE refused /\ step = 1
      <4>1. Prefix(step - 1) = {}
        BY <3>3 DEF Prefix
      <4>2. CASE backend = "nft"
        BY <3>2, <3>3, <4>1, <4>2
      <4>3. CASE backend = "iptables"
        <5>1. "chain" \notin pieces
          <6>1. Parts(backend)[step] = "chain"
            BY <1>0, <3>3, <4>3, RuleCases
          <6> QED
            BY <1>6, <4>3, <6>1 DEF ApplyStep, Installable
        <5>2. pieces = {}
          BY <1>0, <4>3, <5>1
        <5> QED
          BY <3>1, <4>1, <5>2
      <4> QED
        BY <1>0, <4>2, <4>3 DEF TypeOK
    <3> QED
      BY <1>0, <2>1, <3>1, <3>2, <3>3 DEF RulesSound
  <2>5. CASE step < 3
    <3>1. step' = step + 1 /\ pc' = "apply" /\ stack' = stack
      BY <1>6, <2>1, <2>5 DEF ApplyStep
    <3>2. Prefix(step - 1)' = Prefix(step)
      BY <2>1, <2>2, <3>1 DEF Prefix
    <3>3. Applying'
      BY <2>2, <2>4, <3>1, <3>2
    <3>4. Len(stack') = 2
      BY <2>1, <3>1
    <3> QED
      BY <2>2, <2>3, <3>1, <3>3, <3>4 DEF RulesSound, Clearing
  <2>6. CASE step = 3
    <3>1. step' = 1 /\ pc' = "notify"
      BY <1>6, <2>1, <2>6 DEF ApplyStep
    <3>2. Installed' = Installed
      BY <2>2 DEF Installed
    <3>3. pieces' = Installed
      BY <1>0, <2>1, <2>4, <2>6, <3>2 DEF TypeOK
    <3>4. "rule" \in Installed
      BY <1>0, RuleCases DEF TypeOK
    <3>5. Redirected'
      BY <2>1, <2>2, <2>4, <2>6, <3>2, <3>3, <3>4
    <3> QED
      BY <2>2, <2>3, <3>1, <3>5 DEF RulesSound, Clearing
  <2> QED
    BY <2>1, <2>5, <2>6
<1>7. CASE ApplyFails
  <2>1. mode = "apply" /\ Len(stack) = 2 /\ stack' = stack
    BY <1>0, <1>7 DEF ApplyFails, ModeFits, StackInOrder, Height
  <2>2. UNCHANGED <<backend, mode, pieces>> /\ pc' = "rollback" /\ step' = 1
    BY <1>7 DEF ApplyFails, runVars
  <2>3. Len(stack') = 2 /\ mode' = "apply"
    BY <2>1, <2>2
  <2> QED
    BY <1>0, <2>2, <2>3 DEF RulesSound, Clearing
<1>8. CASE StartFails
  <2>1. /\ pc' = "unwind" /\ stack' = stack /\ UNCHANGED <<runVars, ruleVars>>
        /\ pc \in {"proxy", "listen", "flush", "target"} /\ (pc = "flush" => step = 1)
    BY <1>8 DEF StartFails, Fail
  <2>2. pc = "target" /\ Len(stack) <= 2 => mode # "apply"
    BY <1>0, OrderCases DEF StackInOrder, Height
  <2>3. Len(stack) <= 2 => pieces = before
    BY <1>0, <2>1, <2>2 DEF RulesSound
  <2> QED
    BY <1>0, <2>1, <2>3, RulesKept
<1>9. CASE Notify \/ StartTarget \/ StartTerminal
  <2>1. /\ UNCHANGED <<runVars, ruleVars>> /\ pc' \in {"target", "terminal", "run"}
    BY <1>9 DEF Notify, StartTarget, StartTerminal, Acquire
  <2>2. mode = "apply" => Redirected
    <3>1. ASSUME mode = "apply" PROVE Len(stack) >= 3
      <4>1. pc \in {"notify", "target", "terminal"}
        BY <1>9 DEF Notify, StartTarget, StartTerminal
      <4>2. Len(Order) = 6
        BY <1>0, <3>1, OrderCases
      <4>3. Len(stack) = 3 \/ Len(stack) = 4 \/ Len(stack) = 5
        BY <1>0, <4>1, <4>2 DEF StackInOrder, Height
      <4>4. \A n \in {3, 4, 5} : n >= 3
        OBVIOUS
      <4> QED
        BY <4>3, <4>4
    <3> QED
      BY <1>0, <3>1 DEF RulesSound
  <2> QED
    BY <1>0, <2>1, <2>2 DEF RulesSound, Clearing, Installed, runVars, ruleVars
<1>10. CASE Join
  <2>1. /\ pc = "join" /\ pc' = "unwind" /\ stack' = stack
        /\ UNCHANGED <<runVars, ruleVars>>
    BY <1>10 DEF Join
  <2>2. Len(stack) >= 3
    BY <1>0, <2>1, OrderCases DEF StackInOrder, Height, TypeOK
  <2> QED
    BY <1>0, <2>1, <2>2, RulesKept
<1>11. CASE Release
  <2>1. /\ pc = "unwind" /\ stack # <<>> /\ Len(stack') = Len(stack) - 1
        /\ UNCHANGED <<runVars, ruleVars>>
    BY <1>0, <1>11, Released DEF Release
  <2>2. CASE pc' = "teardown"
    <3>1. /\ step' = 1 /\ Len(stack') = 2 /\ mode' = "apply"
          /\ UNCHANGED <<backend, pieces>>
      <4>1. Len(stack) = 3 /\ mode = "apply"
        BY <1>0, <1>11, <2>2, RedirectReleased
      <4>2. step = 1
        BY <1>0, <2>1 DEF ModeFits
      <4> QED
        BY <2>1, <4>1, <4>2 DEF ruleVars, runVars
    <3> QED
      BY <1>0, <2>2, <3>1 DEF RulesSound, Clearing
  <2>3. CASE pc' = "unwind"
    <3>1. Len(stack) = 3 => mode # "apply"
      <4> SUFFICES ASSUME Len(stack) = 3, mode = "apply" PROVE FALSE
        OBVIOUS
      <4>1. stack[Len(stack)] = "redirect"
        BY <1>0, OrderCases DEF StackInOrder
      <4> QED
        BY <1>11, <2>3, <4>1 DEF Release
    <3>2. Len(stack') <= 2 => pieces = {} \/ pieces = before \/ refused
      BY <1>0, <2>1, <3>1 DEF RulesSound
    <3> QED
      BY <1>0, <2>1, <2>3, <3>2, RulesKept
  <2> QED
    BY <1>11, <2>2, <2>3 DEF Release
<1>12. CASE Exit
  <2>1. /\ pc = "unwind" /\ pc' = "off" /\ Len(stack) = 0 /\ stack' = stack
        /\ UNCHANGED <<runVars, ruleVars>>
    BY <1>12, EmptySeq DEF Exit
  <2> QED
    BY <1>0, <2>1, RulesKept DEF RulesSound
<1>13. CASE Handler \/ UNCHANGED vars
  <2>1. UNCHANGED <<runVars, ruleVars, pc, stack, status>>
    BY <1>13 DEF Handler, TakeSignal, Quit, ReportSignal, Dismiss, vars
  <2> QED
    BY <1>0, <2>1, RulesKept DEF RulesSound
<1>14. ASSUME NEW how, RunEnds(how) PROVE RulesSound'
  <2>1. UNCHANGED <<runVars, ruleVars, stack>> /\ pc' = "join"
    BY <1>14 DEF RunEnds
  <2> QED
    BY <1>0, <2>1, RulesKept
<1>15. CASE Signal \/ Crash
  <2>1. CASE UNCHANGED <<runVars, ruleVars, pc, stack, status>>
    BY <1>0, <2>1, RulesKept DEF RulesSound
  <2>2. ASSUME NEW how \in {"signalled", "crashed"}, Die(how) PROVE RulesSound'
    <3>1. /\ pc' = "off" /\ Len(stack') = 0 /\ status' = how
          /\ UNCHANGED <<runVars, pieces>>
      BY <2>2, EmptySeq DEF Die
    <3> QED
      BY <1>0, <2>2, <3>1 DEF RulesSound, Clearing, runVars
  <2> QED
    BY <1>15, <2>1, <2>2 DEF Signal, Crash
<1> QED
  BY <1>1, <1>2, <1>3, <1>5, <1>6, <1>7, <1>8, <1>9, <1>10, <1>11, <1>12, <1>13,
     <1>14, <1>15 DEF Next, Main, Startup

LEMMA OkStep ==
    ASSUME LInv, [Next]_vars
    PROVE  OkSettled'
<1>0. OkSettled /\ ModeFits
  BY DEF LInv
<1> USE DEF OkSettled, HandlerGone, runVars, ruleVars, signalVars
<1>1. ASSUME NEW m, Launch(m) PROVE OkSettled'
  BY <1>1 DEF Launch
<1>2. CASE StartProxy \/ Listen \/ StartFails \/ Notify \/ StartTarget \/ StartTerminal
  BY <1>0, <1>2
     DEF StartProxy, Listen, StartFails, Notify, StartTarget, StartTerminal, Acquire, Fail
<1>3. CASE FlushStale \/ Rollback
  BY <1>0, <1>3 DEF FlushStale, Rollback, FlushStep
<1>4. CASE Teardown
  BY <1>0, <1>4 DEF Teardown, FlushStep
<1>5. CASE ApplyStep \/ ApplyFails
  BY <1>0, <1>5 DEF ApplyStep, ApplyFails
<1>6. CASE Join
  BY <1>6 DEF Join
<1>7. CASE Release \/ Exit
  BY <1>0, <1>7 DEF Release, Exit
<1>8. CASE Handler
  BY <1>0, <1>8 DEF Handler, TakeSignal, Quit, ReportSignal, Dismiss
<1>9. ASSUME NEW how, RunEnds(how) PROVE OkSettled'
  BY <1>0, <1>9 DEF RunEnds
<1>10. CASE Signal \/ Crash
  BY <1>0, <1>10 DEF Signal, Crash, Die
<1>11. CASE UNCHANGED vars
  BY <1>0, <1>11 DEF vars
<1> QED
  BY <1>1, <1>2, <1>3, <1>4, <1>5, <1>6, <1>7, <1>8, <1>9, <1>10, <1>11
     DEF Next, Main, Startup

LEMMA LInitInvariant == Init => LInv
<1> SUFFICES ASSUME Init PROVE LInv
  OBVIOUS
<1>1. stack \in Seq(Resources) /\ Len(stack) = 0 /\ DOMAIN stack = 1 .. 0
  BY EmptySeq, LenProperties DEF Init
<1>2. TypeOK
  <2>1. IsInjective(stack)
    BY <1>1 DEF IsInjective
  <2>2. {queued, asked, interrupted} \subseteq BOOLEAN
    BY DEF Init
  <2>3. runs \in 0 .. MaxRuns /\ redirectsTo \in 0 .. MaxRuns /\ step \in 1 .. 3
    BY DEF Init
  <2>4. /\ backend \in Backends /\ mode \in {"proxy", "transparent", "apply"}
        /\ pieces \subseteq Installed /\ before \subseteq Installed /\ refused \in BOOLEAN
    BY DEF Init
  <2>5. /\ pc = "off" /\ handler = "none" /\ result = "none" /\ status = "none"
    BY DEF Init
  <2> QED
    BY <1>1, <2>1, <2>2, <2>3, <2>4, <2>5 DEF TypeOK
<1>3. StackInOrder
  <2>1. Len(Order) = 3
    BY <1>2, OrderCases DEF Init
  <2> QED
    BY <1>1, <2>1 DEF Init, StackInOrder, Height
<1> QED
  BY <1>1, <1>2, <1>3
     DEF Init, LInv, ModeFits, RulesSound, Clearing, ChainFirst, Applying, EndedByItself,
         OkSettled

-----------------------------------------------------------------------------
(* The theorems.                                                           *)

\* The inductive invariant: what a run holds is a prefix of one order, given back
\* from the end (the defers of executeCapture), and at each place of the main
\* goroutine it is known which parts of the rule set are in the kernel, what a refused
\* flush leaves included.
THEOREM LInvariance == Spec => []LInv
<1>1. LInv /\ [Next]_vars => LInv'
  BY TypeStep, StackStep, RulesStep, OkStep DEF LInv
<1> QED
  BY LInitInvariant, <1>1, PTL DEF Spec

\* A run that ends by itself leaves no rule of its own, whichever command of an apply
\* failed and wherever, unless one of its last flush was refused; rules are only added
\* to a clean table, unless one of the flush before was; and a signal the handler took
\* is not reported as success.
THEOREM RunsEnd == Spec => []RunsEndClean
<1>1. LInv => RunsEndClean
  <2> SUFFICES ASSUME LInv PROVE RunsEndClean
    OBVIOUS
  <2>1. CleanExit
    BY DEF LInv, RulesSound, CleanExit
  <2>2. StaleRulesFlushed
    <3> SUFFICES ASSUME pc = "apply", step = 1 PROVE pieces = {} \/ refused
      BY DEF StaleRulesFlushed
    <3>1. Prefix(step - 1) = {}
      BY DEF Prefix
    <3> QED
      BY <3>1 DEF LInv, RulesSound, Applying
  <2>3. SignalIsReported
    BY DEF LInv, OkSettled, SignalIsReported
  <2> QED
    BY <2>1, <2>2, <2>3 DEF RunsEndClean
<1> QED
  BY LInvariance, <1>1, PTL

\* The target never runs with a part of the redirection missing, or before the
\* proxy, the listener and the signal handling it depends on, nor after any of
\* them went (executeCapture's order of acquisition and of its defers).
THEOREM CapturedWhole == Spec => []TargetIsCaptured
<1>1. LInv => TargetIsCaptured
  <2> SUFFICES ASSUME LInv, mode = "apply", Holds("target")
               PROVE  /\ Redirected
                      /\ Holds("proxy") /\ Holds("listener") /\ Holds("signals")
    BY DEF TargetIsCaptured, Redirected
  <2>1. TypeOK /\ StackInOrder /\ Len(stack) \in Nat /\ Len(Order) = 6
    BY OrderCases, LenProperties DEF LInv, TypeOK
  <2>2. PICK i \in 1 .. Len(stack) : Order[i] = "target"
    BY <2>1, HeldCases
  <2>3. i \in 1 .. Len(Order) /\ Len(stack) >= i
    BY <2>1, <2>2 DEF StackInOrder
  <2>4. i = 5
    BY <2>1, <2>2, <2>3, OrderPlaces
  <2>5. {1, 2, 4} \subseteq 1 .. Len(stack) /\ Len(stack) >= 3
    BY <2>1, <2>3, <2>4
  <2>6. Order[1] = "proxy" /\ Order[2] = "listener" /\ Order[4] = "signals"
    BY <2>1, OrderCases
  <2>7. Holds("proxy") /\ Holds("listener") /\ Holds("signals")
    BY <2>1, <2>5, <2>6, HeldCases
  <2>8. Redirected
    BY <2>5 DEF LInv, RulesSound
  <2> QED
    BY <2>7, <2>8
<1> QED
  BY LInvariance, <1>1, PTL

==============================================================================
