-------------------------------- MODULE Repeater --------------------------------
(***************************************************************************)
(* The Repeater modal and plain resend (internal/tui/repeater.go, the      *)
(* result handlers of model.go, internal/repeater/send.go,                 *)
(* internal/replay/replay.go).                                             *)
(*                                                                         *)
(* Ctrl+S starts a command, a goroutine that sends one request or all jobs *)
(* of an attack and adds every exchange to the store; when it is through,  *)
(* its report is a message to the UI.  The modal may be closed, opened on  *)
(* another flow and used again meanwhile.  Resend (x) asks the server from *)
(* the UI's own goroutine.                                                 *)
(***************************************************************************)
EXTENDS Attack

CONSTANTS
    Names,         \* the variables of the template
    Texts,         \* what the payload editor may hold: functions from names to lists
    MaxSends,      \* bound on the commands started
    MaxOpens,      \* bound on opening the modal
    MaxResends,    \* bound on plain resends
    MaxUnbuilt     \* bound on the jobs whose request cannot be built

ASSUME RepeaterAssumption ==
    /\ {MaxSends, MaxOpens, MaxResends, MaxUnbuilt} \subseteq Nat
    /\ \A text \in Texts :
          DOMAIN text = Names /\ \A name \in Names : text[name] \in Seq(STRING)

VARIABLES
    rep,        \* the modal: open, opened (how often), mode, resp, result
    commands,   \* the commands started
    store,      \* for each author, the flows it added, in order
    ui          \* "idle", "resending" (until the exchange is over), "quit"

repVars == <<rep, commands, store, ui>>

Nobody == 0        \* the author of a resent flow
NoFlow == Nobody   \* resp is the command of the flow shown

Commands == DOMAIN commands

\* A list of the payload editor that inserts nothing.
Unfilled(list) == list \in {<<>>, <<"">>}

RepInit ==
    /\ rep = [open |-> FALSE, opened |-> 0, mode |-> "single", resp |-> NoFlow, result |-> ""]
    /\ commands = <<>>
    /\ store = [author \in Nobody .. MaxSends |-> <<>>]
    /\ ui = "idle"

-----------------------------------------------------------------------------
(* Keys.                                                                   *)

OpenRepeater ==
    /\ ui = "idle" /\ ~rep.open /\ rep.opened < MaxOpens
    /\ rep' = [open |-> TRUE, opened |-> rep.opened + 1,
               mode |-> "single", resp |-> NoFlow, result |-> ""]
    /\ UNCHANGED <<commands, store, ui>>

CloseRepeater ==
    /\ ui = "idle" /\ rep.open
    /\ rep' = [rep EXCEPT !.open = FALSE]
    /\ UNCHANGED <<commands, store, ui>>

NextMode(mode) == Modes[CHOOSE i \in DOMAIN Modes :
                            Modes[IF i = 1 THEN Len(Modes) ELSE i - 1] = mode]

CycleMode ==
    /\ ui = "idle" /\ rep.open
    /\ rep' = [rep EXCEPT !.mode = NextMode(@)]
    /\ UNCHANGED <<commands, store, ui>>

\* The values of single mode.
SingleJob(text) == [name \in {n \in Names : text[n] # <<>>} |-> Head(text[name])]

\* The attack: the variables with a list, in the order the template names them.
AttackOf(mode, text, order) ==
    LET positions == SelectSeq(order, LAMBDA name : ~Unfilled(text[name]))
    IN  [mode |-> mode, positions |-> positions,
         lists |-> [i \in DOMAIN positions |-> text[positions[i]]],
         base |-> [name \in ToSet(positions) |-> Head(text[name])]]

Command(kind, text, positions, jobs) ==
    [kind |-> kind, from |-> rep.opened, text |-> text, positions |-> positions, jobs |-> jobs,
     next |-> 1, at |-> IF jobs = <<>> THEN "reporting" ELSE "sending",
     count |-> 0, unbuilt |-> {}, failed |-> TRUE]

\* runRepeater.  The order of the names is the code's choice: those in headers
\* come in the order of a map.
SendKey ==
    /\ ui = "idle" /\ rep.open /\ Len(commands) < MaxSends
    /\ \E text \in Texts, order \in SetToSeqs(Names) :
          LET attack == AttackOf(rep.mode, text, order)
          IN  commands' = Append(commands,
                  IF rep.mode = "single"
                  THEN Command("single", text, <<>>, <<SingleJob(text)>>)
                  ELSE Command("attack", text, attack.positions, Jobs(attack)))
    /\ rep' = [rep EXCEPT !.result = "sending"]
    /\ UNCHANGED <<store, ui>>

\* The edited text is no request.
SendNothing ==
    /\ ui = "idle" /\ rep.open
    /\ rep' = [rep EXCEPT !.result = "parse error"]
    /\ UNCHANGED <<commands, store, ui>>

QuitKey ==
    /\ ui = "idle"
    /\ ui' = "quit"
    /\ UNCHANGED <<rep, commands, store>>

-----------------------------------------------------------------------------
(* A command: build the request of a job, send it, add the flow.           *)

Running(c) == ui # "quit" /\ c \in Commands

Unbuilt == SumFunction([c \in Commands |-> Cardinality(commands[c].unbuilt)])

\* Where a command is after the job at hand.
After(command) ==
    [command EXCEPT !.next = @ + 1,
                    !.at = IF command.next = Len(command.jobs) THEN "reporting" ELSE "sending"]

\* The template does not render: there is no flow, and an attack goes on.
BuildFails(c) ==
    /\ Running(c) /\ commands[c].at = "sending" /\ Unbuilt < MaxUnbuilt
    /\ commands' = [commands EXCEPT ![c] =
                        [After(commands[c]) EXCEPT !.unbuilt = @ \cup {commands[c].next}]]
    /\ UNCHANGED <<rep, store, ui>>

\* jobLabel: the values of the positions; a single request has none.
Label(command, job) == [i \in DOMAIN command.positions |-> job[command.positions[i]]]

\* Mutation: the label is made when the map already holds the next job.
LabelledLate(c, index) ==
    LET last == Last(commands[c].jobs)
    IN  [job |-> index, values |-> commands[c].jobs[index],
         label |-> Label(commands[c], last)]

Recorded(c, index) ==
    LET job == commands[c].jobs[index]
    IN  [job |-> index, values |-> job, label |-> Label(commands[c], job)]

Over(c, failed) ==
    /\ Running(c) /\ commands[c].at = "sending"
    /\ store' = [store EXCEPT ![c] = Append(@, Recorded(c, commands[c].next))]
    /\ commands' = [commands EXCEPT ![c] =
                        [After(commands[c]) EXCEPT !.count = @ + 1,
                                                   !.failed = failed /\ commands[c].kind = "single"]]
    /\ UNCHANGED <<rep, ui>>

Answered(c) == Over(c, FALSE)

\* The request fails, at the latest when the client's 30 seconds are over.
Fails(c) == Over(c, TRUE)

-----------------------------------------------------------------------------
(* The report reaches the UI.                                              *)

\* The flow of a single request, if there is one.
FlowOf(c) ==
    IF commands[c].count = 0 THEN NoFlow ELSE c

Shown(c) ==
    IF commands[c].kind = "attack" THEN [rep EXCEPT !.result = "attack complete"]
    ELSE [rep EXCEPT !.resp = FlowOf(c),
                     !.result = IF commands[c].failed THEN "error" ELSE "sent"]

\* Mutation: an attack without a job has nothing to report.
ReportsSome(c) ==
    /\ ui = "idle" /\ c \in Commands /\ commands[c].at = "reporting"
    /\ commands' = [commands EXCEPT ![c].at = "through"]
    /\ rep' = IF commands[c].count = 0 THEN rep ELSE Shown(c)
    /\ UNCHANGED <<store, ui>>

Report(c) ==
    /\ ui = "idle" /\ c \in Commands /\ commands[c].at = "reporting"
    /\ commands' = [commands EXCEPT ![c].at = "through"]
    /\ rep' = Shown(c)
    /\ UNCHANGED <<store, ui>>

-----------------------------------------------------------------------------
(* Plain resend: the UI waits.                                             *)

ResendKey ==
    /\ ui = "idle" /\ ~rep.open /\ Len(store[Nobody]) < MaxResends
    /\ ui' = "resending"
    /\ UNCHANGED <<rep, commands, store>>

\* The answer, or the error, is in the flow.
ResendOver ==
    /\ ui = "resending"
    /\ ui' = "idle"
    /\ store' = [store EXCEPT ![Nobody] = Append(@, [values |-> <<>>, label |-> <<>>])]
    /\ UNCHANGED <<rep, commands>>

ResendAnswered == ResendOver

ResendFails == ResendOver

-----------------------------------------------------------------------------
CommandStep(c) == BuildFails(c) \/ Answered(c) \/ Fails(c) \/ Report(c)

\* The program ends.
Stopped == ui = "quit" /\ UNCHANGED repVars

RepNext ==
    \/ OpenRepeater \/ CloseRepeater \/ CycleMode \/ SendKey \/ SendNothing \/ QuitKey
    \/ \E c \in 1 .. MaxSends : CommandStep(c)
    \/ ResendKey \/ ResendAnswered \/ ResendFails
    \/ Stopped

\* The goroutines run, the client gives up after its 30 seconds, and the UI takes
\* the messages it is sent.  Servers and the operator owe nothing.
Fairness ==
    /\ \A c \in 1 .. MaxSends : WF_repVars(Fails(c)) /\ WF_repVars(Report(c))
    /\ WF_repVars(ResendFails)

RepSpec == RepInit /\ [][RepNext]_repVars /\ Fairness

-----------------------------------------------------------------------------
(* Safety.                                                                 *)

RepTypeOK ==
    /\ rep \in [open : BOOLEAN, opened : 0 .. MaxOpens, mode : ToSet(Modes),
                resp : {NoFlow} \cup Commands,
                result : {"", "sending", "parse error", "attack complete", "sent", "error"}]
    /\ ui \in {"idle", "resending", "quit"}
    /\ \A c \in Commands :
          commands[c].at \in {"sending", "reporting", "through"}

\* Whatever else is sent meanwhile, an attack leaves one flow for each job whose
\* request could be built, in the order of the jobs and labelled with the payloads
\* that were in it, and it reports their number when it is through with all
\* (runRepeater, jobLabel).
AttackRecorded ==
    /\ RepTypeOK
    /\ \A c \in Commands :
          LET command == commands[c]
              flows == store[c]
          IN  /\ command.at # "sending" => command.next = Len(command.jobs) + 1
              /\ Len(flows) = command.count
              /\ {flows[i].job : i \in DOMAIN flows} = (1 .. command.next - 1) \ command.unbuilt
              /\ \A i, j \in DOMAIN flows : i < j => flows[i].job < flows[j].job
              /\ \A i \in DOMAIN flows :
                    LET job == command.jobs[flows[i].job]
                    IN  /\ flows[i].values = job
                        /\ flows[i].label = [k \in DOMAIN command.positions |->
                                                job[command.positions[k]]]

\* docs/repeater.md: "An unfilled variable is left as the literal {{name}} rather
\* than becoming empty".  It does become empty in single mode, where the line
\* "name =" of the payload editor is the list of one empty payload.
UnfilledStaysVisible ==
    \A c \in Commands : \A i \in DOMAIN store[c] : \A name \in Names :
        Unfilled(commands[c].text[name]) => name \notin DOMAIN store[c][i].values

\* repeater.go: resp is the "last sent flow".  This fails: a result that arrives
\* when the modal shows another request, or after that of a later request, is
\* shown all the same.
ShownIsLastSent ==
    rep.resp # NoFlow =>
        /\ commands[rep.resp].from = rep.opened
        /\ \A c \in Commands :
              commands[c].kind = "single" /\ commands[c].at = "through" => c <= rep.resp

-----------------------------------------------------------------------------
(* Liveness.                                                               *)

\* "sending" gives way to a result, also when nothing was sent, the modal was
\* closed or a server never answers (send.go's client.Timeout); and a plain resend
\* gives the UI back (replay.go's).
ResultArrives ==
    /\ rep.result = "sending" ~> (rep.result # "sending" \/ ui = "quit")
    /\ ui = "resending" ~> ui = "idle"
================================================================================
