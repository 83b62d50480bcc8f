-------------------------------- MODULE Lifecycle --------------------------------
(***************************************************************************)
(* One run of the program after another on one machine: the resources      *)
(* executeCapture acquires and gives back, the firewall rules of           *)
(* transparent mode (internal/transparent), the signals and the handler of *)
(* runProgram (cmd/cli-capture/main.go).                                   *)
(*                                                                         *)
(* The rules live in the kernel and survive a process that is killed.  Any *)
(* firewall command may fail for a reason of its own, as when another      *)
(* program holds the lock of xtables; flush commands fail unnoticed.       *)
(***************************************************************************)
EXTENDS Naturals, SequencesExt

CONSTANT MaxRuns \* bound on the runs of the program

ASSUME LifecycleAssumption == MaxRuns \in Nat

VARIABLES
    backend,    \* the firewall tool of the machine: "nft" or "iptables"
    mode,       \* "proxy", "transparent" (-transparent), "apply" (-transparent-apply)
    runs,       \* how often the program was started
    pc,         \* where the main goroutine is
    step,       \* the firewall command it is at
    pieces,     \* the parts of the rule set that are in the kernel
    redirectsTo,\* the run whose listener the first rule there names, 0 without a rule
    refused,    \* history variable: a command of the run's last flush failed for a
                \* reason of its own, and what it should have removed stayed
    before,     \* those that were there when the run began
    stack,      \* the deferred releases, the last acquired resource last
    handler,    \* where the signal handler's goroutine is
    queued,     \* a signal is in sigCh
    asked,      \* the TUI was asked to quit
    result,     \* how the TUI ended
    interrupted,\* the handler reported a signal
    status      \* how the last run ended

kernelVars == <<pieces, redirectsTo>>
ruleVars == <<step, kernelVars, refused>>
signalVars == <<handler, queued, asked, interrupted>>
runVars == <<backend, mode, runs, before>>
vars == <<runVars, pc, ruleVars, stack, signalVars, result, status>>

Backends == {"nft", "iptables"}

\* The parts in the order Backend.Redirect installs them.
Parts(b) == IF b = "nft" THEN <<"table", "chain", "rule">> ELSE <<"chain", "rule", "jump">>

\* What the commands of Backend.Flush remove, in order.
Flush(b) == IF b = "nft" THEN <<"table">> ELSE <<"jump", "rule", "chain">>

Installed == ToSet(Parts(backend))

\* The kernel accepts the installation of x ("add" of nft may be repeated, a
\* chain of iptables may not), ...
Installable(x) ==
    CASE x = "table" -> TRUE
      [] x = "chain" -> IF backend = "nft" THEN "table" \in pieces ELSE "chain" \notin pieces
      [] OTHER       -> "chain" \in pieces

\* ... and its removal: a chain of iptables that is in use stays, and a table
\* of nft takes everything with it.
Removed(x) ==
    CASE x = "table" -> {}
      [] x = "chain" -> IF {"rule", "jump"} \cap pieces = {} THEN {} ELSE pieces
      [] OTHER       -> pieces \ {x}

\* nft appends a rule behind one that is there, and the first one counts.
FirstRule(installed) ==
    IF "rule" \notin installed THEN 0
    ELSE IF "rule" \in pieces THEN redirectsTo ELSE runs

Holds(r) == r \in ToSet(stack)

Init ==
    /\ backend \in Backends
    /\ mode = "proxy" /\ runs = 0
    /\ pc = "off" /\ step = 1
    /\ pieces = {} /\ redirectsTo = 0 /\ refused = FALSE /\ before = {}
    /\ stack = <<>>
    /\ handler = "none" /\ queued = FALSE /\ asked = FALSE /\ interrupted = FALSE
    /\ result = "none" /\ status = "none"

-----------------------------------------------------------------------------
(* Starting up (executeCapture).                                           *)

Launch(m) ==
    /\ pc = "off" /\ runs < MaxRuns
    /\ pc' = "proxy" /\ mode' = m /\ runs' = runs + 1
    /\ before' = pieces /\ refused' = FALSE
    /\ handler' = "none" /\ queued' = FALSE /\ asked' = FALSE /\ interrupted' = FALSE
    /\ result' = "none" /\ status' = "none"
    /\ UNCHANGED <<backend, step, kernelVars, stack>>

Acquire(r, next) ==
    /\ stack' = Append(stack, r)
    /\ pc' = next
    /\ UNCHANGED <<runVars, ruleVars, signalVars, result, status>>

\* An error is returned: what was deferred so far is released.
Fail ==
    /\ pc' = "unwind"
    /\ status' = "error"
    /\ UNCHANGED <<runVars, ruleVars, stack, signalVars, result>>

StartProxy ==
    /\ pc = "proxy"
    /\ Acquire("proxy", IF mode = "proxy" THEN "target" ELSE "listen")

Listen ==
    /\ pc = "listen"
    /\ Acquire("listener", IF mode = "apply" THEN "flush" ELSE "target")

\* A resource cannot be had: an address in use, no root, no firewall tool, no
\* such target.
StartFails ==
    /\ pc \in {"proxy", "listen", "flush", "target"}
    /\ pc = "flush" => step = 1
    /\ Fail

-----------------------------------------------------------------------------
(* The rules (ApplyRedirect).                                              *)

\* runAll: one command after the other, whose failures are not looked at.
FlushStep(here, next) ==
    /\ pc = here
    /\ step' = IF step < Len(Flush(backend)) THEN step + 1 ELSE 1
    /\ pc' = IF step < Len(Flush(backend)) THEN here ELSE next
    /\ LET removed == Removed(Flush(backend)[step])
           earlier == step > 1 /\ refused
       IN  \/ pieces' = removed /\ refused' = earlier
           \/ removed # pieces /\ pieces' = pieces /\ refused' = TRUE
    /\ redirectsTo' = FirstRule(pieces')

FlushStale ==
    /\ FlushStep("flush", "apply")
    /\ UNCHANGED <<runVars, stack, signalVars, result, status>>

ApplyStep ==
    /\ pc = "apply"
    /\ Installable(Parts(backend)[step])
    /\ pieces' = pieces \cup {Parts(backend)[step]}
    /\ redirectsTo' = FirstRule(pieces')
    /\ IF step < Len(Parts(backend))
          THEN step' = step + 1 /\ UNCHANGED <<pc, stack>>
          ELSE step' = 1 /\ pc' = "notify" /\ stack' = Append(stack, "redirect")
    /\ UNCHANGED <<runVars, refused, signalVars, result, status>>

\* Mutation: a partial rule set is left alone.
NoRollback ==
    /\ pc = "apply"
    /\ pc' = "unwind" /\ step' = 1
    /\ status' = "error"
    /\ UNCHANGED <<runVars, kernelVars, refused, stack, signalVars, result>>

\* A command fails, because the kernel refuses it or for a reason of its own.
ApplyFails ==
    /\ pc = "apply"
    /\ pc' = "rollback" /\ step' = 1
    /\ status' = "error"
    /\ UNCHANGED <<runVars, kernelVars, refused, stack, signalVars, result>>

Rollback ==
    /\ FlushStep("rollback", "unwind")
    /\ UNCHANGED <<runVars, stack, signalVars, result, status>>

\* Only now are the signals caught.
Notify ==
    /\ pc = "notify"
    /\ Acquire("signals", "target")

StartTarget ==
    /\ pc = "target"
    /\ Acquire("target", "terminal")

\* startTerminal, and the start of runProgram, which handles signals itself
\* only when it was given a channel.
StartTerminal ==
    /\ pc = "terminal"
    /\ stack' = Append(stack, "terminal")
    /\ pc' = "run"
    /\ handler' = IF mode = "apply" THEN "waiting" ELSE "none"
    /\ UNCHANGED <<runVars, ruleVars, queued, asked, interrupted, result, status>>

-----------------------------------------------------------------------------
(* Running and ending (runProgram).                                        *)

\* The TUI ends: it was asked to, the operator quits, the target exits, the
\* TUI's own handling of a signal ends it, or it fails.
RunEnds(how) ==
    /\ pc = "run"
    /\ result' = how
    /\ pc' = "join"
    /\ UNCHANGED <<runVars, ruleVars, stack, signalVars, status>>

TakeSignal ==
    /\ handler = "waiting" /\ queued /\ pc # "off"
    /\ queued' = FALSE
    /\ handler' = "quit"
    /\ UNCHANGED <<runVars, pc, ruleVars, stack, asked, interrupted, result, status>>

\* Mutation: the signal is reported and the TUI is left running.
ForgetQuit == asked

AskToQuit == TRUE

Quit ==
    /\ handler = "quit" /\ pc # "off"
    /\ asked' = AskToQuit
    /\ handler' = "report"
    /\ UNCHANGED <<runVars, pc, ruleVars, stack, queued, interrupted, result, status>>

ReportSignal ==
    /\ handler = "report" /\ pc # "off"
    /\ interrupted' = TRUE
    /\ handler' = "done"
    /\ UNCHANGED <<runVars, pc, ruleVars, stack, queued, asked, result, status>>

\* done is closed: the handler need not wait for a signal any more.
Dismiss ==
    /\ handler = "waiting" /\ pc = "join"
    /\ handler' = "done"
    /\ UNCHANGED <<runVars, pc, ruleVars, stack, queued, asked, interrupted, result, status>>

HandlerGone == handler \in {"none", "done"}

\* The handler is waited for before its report is looked at.
Join ==
    /\ pc = "join"
    /\ HandlerGone
    /\ status' = IF result = "error" THEN "error"
                 ELSE IF interrupted THEN "interrupted" ELSE "ok"
    /\ pc' = "unwind"
    /\ UNCHANGED <<runVars, ruleVars, stack, signalVars, result>>

\* Mutation: resources are released in the order they were acquired.
OldestFirst == 1

NewestFirst == Len(stack)

\* The deferred calls, the last one first.
Release ==
    /\ pc = "unwind" /\ stack # <<>>
    /\ IF stack[NewestFirst] = "redirect" THEN pc' = "teardown" ELSE UNCHANGED pc
    /\ stack' = RemoveAt(stack, NewestFirst)
    /\ UNCHANGED <<runVars, ruleVars, signalVars, result, status>>

Teardown ==
    /\ FlushStep("teardown", "unwind")
    /\ UNCHANGED <<runVars, stack, signalVars, result, status>>

Exit ==
    /\ pc = "unwind" /\ stack = <<>>
    /\ pc' = "off"
    /\ UNCHANGED <<runVars, ruleVars, stack, signalVars, result, status>>

-----------------------------------------------------------------------------
(* Signals and crashes.                                                    *)

\* The process is gone; the kernel closes its sockets and its terminal.
Die(how) ==
    /\ pc' = "off" /\ step' = 1 /\ stack' = <<>>
    /\ status' = how
    /\ UNCHANGED <<runVars, kernelVars, refused, signalVars, result>>

\* SIGINT or SIGTERM.  It is queued once signal.Notify ran, otherwise left to
\* the TUI while that runs, and otherwise deadly.
Signal ==
    /\ pc # "off"
    /\ IF Holds("signals")
          THEN /\ queued' = TRUE
               /\ UNCHANGED <<runVars, pc, ruleVars, stack, handler, asked, interrupted,
                              result, status>>
          ELSE IF pc = "run"
          THEN /\ asked' = TRUE
               /\ UNCHANGED <<runVars, pc, ruleVars, stack, handler, queued, interrupted,
                              result, status>>
          ELSE Die("signalled")

\* SIGKILL, or a fatal error of the runtime.
Crash == pc # "off" /\ Die("crashed")

-----------------------------------------------------------------------------
Startup ==
    \/ StartProxy \/ Listen \/ FlushStale \/ ApplyStep \/ Rollback
    \/ Notify \/ StartTarget \/ StartTerminal

Main == Startup \/ StartFails \/ ApplyFails \/ Join \/ Release \/ Teardown \/ Exit

Handler == TakeSignal \/ Quit \/ ReportSignal \/ Dismiss

Next ==
    \/ \E m \in {"proxy", "transparent", "apply"} : Launch(m)
    \/ Main \/ Handler
    \/ \E how \in {"ok", "error"} : RunEnds(how)
    \/ Signal \/ Crash

Spec == Init /\ [][Next]_vars

\* Both goroutines run, and a TUI that was asked to quit does.
FairSpec ==
    /\ Spec
    /\ WF_vars(Main) /\ WF_vars(Handler)
    /\ WF_vars(asked /\ RunEnds("ok"))

-----------------------------------------------------------------------------
(* Properties.                                                             *)

Resources == {"proxy", "listener", "redirect", "signals", "target", "terminal"}

TypeOK ==
    /\ backend \in Backends
    /\ mode \in {"proxy", "transparent", "apply"}
    /\ runs \in 0 .. MaxRuns
    /\ pc \in {"off", "proxy", "listen", "flush", "apply", "rollback", "notify", "target",
               "terminal", "run", "join", "unwind", "teardown"}
    /\ step \in 1 .. 3
    /\ pieces \subseteq Installed /\ before \subseteq Installed
    /\ redirectsTo \in 0 .. MaxRuns /\ refused \in BOOLEAN
    /\ stack \in Seq(Resources) /\ IsInjective(stack)
    /\ handler \in {"none", "waiting", "quit", "report", "done"}
    /\ {queued, asked, interrupted} \subseteq BOOLEAN
    /\ result \in {"none", "ok", "error"}
    /\ status \in {"none", "ok", "error", "interrupted", "signalled", "crashed"}

\* The run ended by returning from executeCapture.
EndedByItself == pc = "off" /\ status \in {"ok", "error", "interrupted"}

\* The state is well typed, and a run that ends by itself leaves no rule of its own,
\* unless the kernel refused to remove one: either it removed what is there, remains of
\* an earlier crash included, or it never got to touch it
\* (ApplyRedirect: "a partially-applied ruleset is rolled back on error", the
\* deferred teardown of executeCapture).
CleanExit ==
    /\ TypeOK
    /\ EndedByItself => pieces = {} \/ pieces = before \/ refused

\* With -transparent-apply the target only ever runs while its traffic is
\* redirected, completely, to a listener that serves it, and signals cannot
\* kill the process over it (the order of executeCapture and of its defers).  The
\* listener is that of this run, unless nft refused to remove an earlier rule, which
\* then goes before; iptables adds nothing to a chain that is still there.
TargetIsCaptured ==
    mode = "apply" /\ Holds("target") =>
        /\ pieces = Installed
        /\ redirectsTo = runs \/ (backend = "nft" /\ refused)
        /\ Holds("proxy") /\ Holds("listener") /\ Holds("signals")

\* Rules are only ever added to a clean table, whatever an earlier run left
\* behind ("Any stale cli_capture rules are flushed first"), unless the kernel
\* refused to remove them.
StaleRulesFlushed == pc = "apply" /\ step = 1 => pieces = {} \/ refused

\* A signal the handler took is what the run reports, unless the TUI failed
\* (runProgram waits for handlerDone before it looks at interrupted).
SignalIsReported == interrupted => status # "ok"

\* A run ends as it says it does, and leaves what it found or less.
RunsEndClean == CleanExit /\ StaleRulesFlushed /\ SignalIsReported

\* A signal ends the program, whatever else ends it meanwhile: the goroutines
\* of runProgram never wait for each other in vain.
SignalEnds == queued ~> pc = "off"

\* A run that ends by itself leaves all of the rules or none, or what it found
\* ("a partially-applied ruleset is rolled back on error - so the firewall is never left
\* half-configured").  The code does not keep this: a command of the roll back may fail
\* as the one before it did, and its error is dropped.
NeverHalfConfigured == EndedByItself => pieces \in {{}, before, Installed}

\* The target's traffic goes to the listener of its own run (ApplyRedirect redirects
\* "uid -> proxyPort").  The code does not keep this: a rule that the kernel refused to
\* remove stays before the new one.
RedirectedHere == mode = "apply" /\ Holds("target") => redirectsTo = runs

\* After a signal no rules are left ("removes the rules on exit (including
\* SIGINT/SIGTERM)").  The code does not keep this: signals are caught only
\* after the rules were applied and are released before they are removed.
SignalRemovesRules ==
    pc = "off" /\ status \in {"interrupted", "signalled"} =>
        pieces = {} \/ pieces = before \/ refused

==============================================================================
