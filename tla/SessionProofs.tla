------------------------------ MODULE SessionProofs ------------------------------
(***************************************************************************)
(* Proofs about what a session adds and keeps.  The Repeater: what its     *)
(* commands leave in the store, for any template, payload lists and number *)
(* of commands.  The data directory: the CA's files and the saved session, *)
(* for any number of programs, pairs and saves, and kills and power        *)
(* failures anywhere.  That the CA's files stay a pair, for who holds a    *)
(* key that no program failed to read, needs that programs do not start at *)
(* a time and that a power failure spares the files (NoFaults); the        *)
(* session needs neither.  The bodies that Repeater and    *)
(* replay send again, for any encodings, layers and messages.  The framing *)
(* of gRPC messages, for any messages and any cut into chunks.  And the    *)
(* jobs of an attack, for any positions and lists of payloads.             *)
(***************************************************************************)
EXTENDS MCRepeater, DataDir, SequenceTheorems, FiniteSetTheorems,
        WellFoundedInduction, TLAPS

-----------------------------------------------------------------------------
(* The Repeater: the inductive invariant.                                  *)

\* What a command can be given.
Attacks ==
    {AttackOf(mode, text, order) : mode \in ToSet(Modes), text \in Texts, order \in SetToSeqs(Names)}

JobLists == {Jobs(a) : a \in Attacks} \cup {<<SingleJob(text)>> : text \in Texts}

PositionLists == {a.positions : a \in Attacks} \cup {<<>>}

CommandType ==
    [kind : {"single", "attack"}, from : 0 .. MaxOpens, text : Texts,
     positions : PositionLists, jobs : JobLists, next : Nat \ {0},
     at : {"sending", "reporting", "through"}, count : Nat, unbuilt : SUBSET Nat,
     failed : BOOLEAN]

\* What a command or a resend adds to the store.
RecordedFlows ==
    {[job |-> i, values |-> command.jobs[i], label |-> Label(command, command.jobs[i])] :
        command \in CommandType, i \in Nat}

ResentFlow == [values |-> <<>>, label |-> <<>>]

CommandsTyped ==
    /\ commands \in Seq(CommandType)
    /\ Len(commands) <= MaxSends
    /\ store \in [0 .. MaxSends -> Seq(RecordedFlows \cup {ResentFlow})]

\* One job after the other: those before the next one were sent or could not be
\* built, and a command that is through with its jobs does not go on.
JobsInTurn(command, flows) ==
    /\ command.unbuilt \subseteq 1 .. command.next - 1
    /\ command.at # "sending" => command.next = Len(command.jobs) + 1
    /\ Len(flows) = command.count
    /\ {flows[i].job : i \in DOMAIN flows} = (1 .. command.next - 1) \ command.unbuilt
    /\ \A i, j \in DOMAIN flows : i < j => flows[i].job < flows[j].job
    /\ \A i \in DOMAIN flows :
          /\ flows[i].values = command.jobs[flows[i].job]
          /\ flows[i].label = Label(command, command.jobs[flows[i].job])

RepInv ==
    /\ RepTypeOK /\ CommandsTyped
    /\ \A c \in Commands : JobsInTurn(commands[c], store[c])
    /\ \A c \in 1 .. MaxSends : c \notin Commands => store[c] = <<>>

-----------------------------------------------------------------------------
(* The Repeater: one command.                                              *)

LEMMA RepConstants ==
    /\ MaxSends \in Nat /\ MaxOpens \in Nat /\ MaxResends \in Nat
    /\ 0 \in 0 .. MaxSends /\ 0 \in 0 .. MaxOpens /\ 1 .. MaxSends \subseteq 0 .. MaxSends
BY RepeaterAssumption DEF RepeaterAssumption

LEMMA OneMoreOpen ==
    \A k \in 0 .. MaxOpens : k < MaxOpens => k + 1 \in 0 .. MaxOpens
BY RepConstants

LEMMA SingleIsAMode == "single" \in ToSet(Modes)
<1>1. 1 \in DOMAIN Modes /\ Modes[1] = "single"
  BY DEF Modes
<1> QED
  BY <1>1 DEF ToSet

LEMMA ModesCycle ==
    ASSUME NEW mode \in ToSet(Modes)
    PROVE  NextMode(mode) \in ToSet(Modes)
<1>1. Len(Modes) = 5 /\ DOMAIN Modes = 1 .. 5
  BY DEF Modes
<1>2. PICK k \in 1 .. 5 : Modes[k] = mode
  BY <1>1 DEF ToSet
<1>3. \E i \in DOMAIN Modes : Modes[IF i = 1 THEN Len(Modes) ELSE i - 1] = mode
  <2>1. CASE k = 5
    BY <1>1, <1>2, <2>1
  <2>2. CASE k # 5
    <3>1. k + 1 \in 1 .. 5 /\ k + 1 # 1 /\ (k + 1) - 1 = k
      BY <2>2
    <3> QED
      BY <1>1, <1>2, <3>1
  <2> QED
    BY <2>1, <2>2
<1> QED
  BY <1>1, <1>3 DEF NextMode, ToSet

\* A new command has sent nothing.
LEMMA NewCommand ==
    ASSUME NEW kind \in {"single", "attack"}, NEW text \in Texts,
           NEW positions \in PositionLists, NEW jobs \in JobLists, rep.opened \in 0 .. MaxOpens
    PROVE  /\ Command(kind, text, positions, jobs) \in CommandType
           /\ JobsInTurn(Command(kind, text, positions, jobs), <<>>)
<1>1. Command(kind, text, positions, jobs) \in CommandType
  BY DEF Command, CommandType
<1>2. jobs = <<>> => Len(jobs) = 0
  OBVIOUS
<1> QED
  BY <1>1, <1>2 DEF Command, JobsInTurn

LEMMA NextJob ==
    ASSUME NEW command \in CommandType
    PROVE  LET after == After(command)
           IN  /\ after \in CommandType
               /\ after.next = command.next + 1 /\ after.count = command.count
               /\ after.unbuilt = command.unbuilt /\ after.jobs = command.jobs
               /\ after.positions = command.positions
               /\ after.at # "sending" => command.next = Len(command.jobs)
<1> DEFINE at == IF command.next = Len(command.jobs) THEN "reporting" ELSE "sending"
           after == [command EXCEPT !.next = command.next + 1, !.at = at]
<1>1. after = After(command)
  BY DEF After
<1>2. at \in {"sending", "reporting", "through"} /\ command.next + 1 \in Nat \ {0}
  BY DEF CommandType
<1>3. at # "sending" => command.next = Len(command.jobs)
  OBVIOUS
<1> HIDE DEF at
<1>4. after \in CommandType
  BY <1>2 DEF CommandType
<1>5. /\ after.next = command.next + 1 /\ after.at = at /\ after.count = command.count
      /\ after.unbuilt = command.unbuilt /\ after.jobs = command.jobs
      /\ after.positions = command.positions
  BY DEF CommandType
<1> QED
  BY <1>1, <1>3, <1>4, <1>5

\* The job at hand is through: its flow is there, or its request could not be built.
LEMMA JobSent ==
    ASSUME NEW command \in CommandType, NEW flows \in Seq(RecordedFlows \cup {ResentFlow}),
           JobsInTurn(command, flows), command.at = "sending", NEW failed \in BOOLEAN,
           NEW flow, flow = [job |-> command.next, values |-> command.jobs[command.next],
                             label |-> Label(command, command.jobs[command.next])]
    PROVE  LET new == [After(command) EXCEPT !.count = @ + 1, !.failed = failed]
           IN  /\ new \in CommandType
               /\ flow \in RecordedFlows /\ Append(flows, flow) \in Seq(RecordedFlows \cup {ResentFlow})
               /\ JobsInTurn(new, Append(flows, flow))
<1> DEFINE new == [After(command) EXCEPT !.count = @ + 1, !.failed = failed]
           more == Append(flows, flow)
           n == command.next
<1>1. /\ n \in Nat \ {0} /\ new \in CommandType
      /\ new.next = n + 1 /\ new.count = command.count + 1
      /\ new.unbuilt = command.unbuilt /\ new.jobs = command.jobs
      /\ new.positions = command.positions
      /\ new.at # "sending" => n = Len(command.jobs)
  <2>1. command.next \in Nat \ {0} /\ command.count \in Nat /\ command.unbuilt \in SUBSET Nat
    BY DEF CommandType
  <2> DEFINE after == After(command)
  <2>2. /\ after \in CommandType
        /\ after.next = n + 1 /\ after.count = command.count
        /\ after.unbuilt = command.unbuilt /\ after.jobs = command.jobs
        /\ after.positions = command.positions
        /\ after.at # "sending" => n = Len(command.jobs)
    BY NextJob
  <2> HIDE DEF after
  <2>3. new = [after EXCEPT !.count = @ + 1, !.failed = failed]
    BY DEF after
  <2>4. after.count + 1 \in Nat
    BY <2>1, <2>2
  <2>5. new \in CommandType
    BY <2>2, <2>3, <2>4 DEF CommandType
  <2>6. /\ new.next = after.next /\ new.count = after.count + 1
        /\ new.unbuilt = after.unbuilt /\ new.jobs = after.jobs
        /\ new.positions = after.positions /\ new.at = after.at
    BY <2>2, <2>3 DEF CommandType
  <2> QED
    BY <2>1, <2>2, <2>5, <2>6
<1>2. flow \in RecordedFlows
  BY <1>1 DEF RecordedFlows
<1>3. /\ more \in Seq(RecordedFlows \cup {ResentFlow}) /\ Len(flows) \in Nat
      /\ Len(more) = Len(flows) + 1 /\ more[Len(flows) + 1] = flow
      /\ \A i \in 1 .. Len(flows) : more[i] = flows[i]
      /\ DOMAIN flows = 1 .. Len(flows) /\ DOMAIN more = 1 .. Len(flows) + 1
  BY <1>2, AppendProperties, LenProperties
<1>4. \A job : Label(new, job) = Label(command, job)
  BY <1>1 DEF Label
<1> HIDE DEF new, more
<1>5. \A i \in DOMAIN flows : flows[i].job \in 1 .. n - 1
  BY DEF JobsInTurn
<1>6. /\ flow.job = n /\ flow.values = new.jobs[n] /\ flow.label = Label(new, new.jobs[n])
  BY <1>1, <1>4
<1>7. \A i \in DOMAIN more :
         \/ i \in DOMAIN flows /\ more[i] = flows[i]
         \/ i = Len(flows) + 1 /\ more[i] = flow
  BY <1>3
<1>8. {more[i].job : i \in DOMAIN more} = (1 .. new.next - 1) \ new.unbuilt
  <2> DEFINE all == {more[i].job : i \in DOMAIN more}
             sent == {flows[i].job : i \in DOMAIN flows}
  <2>1. all = sent \cup {n}
    <3>1. ASSUME NEW x \in all PROVE x \in sent \cup {n}
      BY <1>6, <1>7
    <3>2. ASSUME NEW x \in sent PROVE x \in all
      <4>1. PICK i \in DOMAIN flows : x = flows[i].job
        OBVIOUS
      <4>2. i \in DOMAIN more /\ more[i] = flows[i]
        BY <1>3
      <4> QED
        BY <4>1, <4>2
    <3>3. n \in all
      <4>1. Len(flows) + 1 \in DOMAIN more /\ more[Len(flows) + 1].job = n
        BY <1>3, <1>6
      <4> QED
        BY <4>1
    <3> HIDE DEF all, sent
    <3> QED
      BY <3>1, <3>2, <3>3
  <2>2. sent = (1 .. n - 1) \ command.unbuilt
    BY DEF JobsInTurn
  <2>3. command.unbuilt \subseteq 1 .. n - 1
    BY DEF JobsInTurn
  <2> HIDE DEF sent
  <2>4. all = (1 .. new.next - 1) \ new.unbuilt
    <3> HIDE DEF all
    <3> QED
      BY <1>1, <2>1, <2>2, <2>3
  <2> QED
    BY <2>4
<1>9. \A i, j \in DOMAIN more : i < j => more[i].job < more[j].job
  BY <1>1, <1>3, <1>5, <1>6, <1>7 DEF JobsInTurn
<1>10. \A i \in DOMAIN more :
          /\ more[i].values = new.jobs[more[i].job]
          /\ more[i].label = Label(new, new.jobs[more[i].job])
  BY <1>1, <1>4, <1>6, <1>7 DEF JobsInTurn
<1>11. new.unbuilt \subseteq 1 .. new.next - 1 /\ Len(more) = new.count
  BY <1>1, <1>3 DEF JobsInTurn
<1>12. new.at # "sending" => new.next = Len(new.jobs) + 1
  BY <1>1
<1>13. JobsInTurn(new, more)
  BY <1>8, <1>9, <1>10, <1>11, <1>12 DEF JobsInTurn
<1> QED
  BY <1>1, <1>2, <1>3, <1>13 DEF new, more

LEMMA JobSkipped ==
    ASSUME NEW command \in CommandType, NEW flows \in Seq(RecordedFlows \cup {ResentFlow}),
           JobsInTurn(command, flows), command.at = "sending"
    PROVE  LET new == [After(command) EXCEPT !.unbuilt = @ \cup {command.next}]
           IN  new \in CommandType /\ JobsInTurn(new, flows)
<1> DEFINE new == [After(command) EXCEPT !.unbuilt = @ \cup {command.next}]
           n == command.next
<1>1. /\ n \in Nat \ {0} /\ new \in CommandType
      /\ new.next = n + 1 /\ new.count = command.count
      /\ new.unbuilt = command.unbuilt \cup {n} /\ new.jobs = command.jobs
      /\ new.positions = command.positions
      /\ new.at # "sending" => n = Len(command.jobs)
  <2>1. command.next \in Nat \ {0} /\ command.count \in Nat /\ command.unbuilt \in SUBSET Nat
    BY DEF CommandType
  <2> QED
    BY <2>1, NextJob DEF CommandType
<1>2. \A job : Label(new, job) = Label(command, job)
  BY <1>1 DEF Label
<1> HIDE DEF new
<1>3. command.unbuilt \subseteq 1 .. n - 1
  BY DEF JobsInTurn
<1>4. (1 .. n - 1) \ command.unbuilt = (1 .. new.next - 1) \ new.unbuilt
  BY <1>1, <1>3
<1>5. new.unbuilt \subseteq 1 .. new.next - 1
  BY <1>1, <1>3
<1>6. JobsInTurn(new, flows)
  BY <1>1, <1>2, <1>4, <1>5 DEF JobsInTurn
<1> QED
  BY <1>1, <1>6 DEF new

-----------------------------------------------------------------------------
(* The Repeater: the steps.                                                *)

\* Only the program's end, the modal or nothing changes.
LEMMA ModalKeeps ==
    ASSUME RepInv,
           \/ OpenRepeater \/ CloseRepeater \/ CycleMode \/ SendNothing \/ QuitKey
           \/ ResendKey \/ UNCHANGED repVars
    PROVE  RepInv'
<1> USE DEF RepInv
<1>1. UNCHANGED <<commands, store>>
  BY DEF OpenRepeater, CloseRepeater, CycleMode, SendNothing, QuitKey, ResendKey, repVars
<1>2. CommandsTyped' /\ Commands' = Commands
  BY <1>1 DEF CommandsTyped, Commands
<1>3. RepTypeOK'
  <2> USE RepConstants, <1>2 DEF RepTypeOK
  <2>0. "single" \in ToSet(Modes)
    BY SingleIsAMode
  <2>1. CASE OpenRepeater
    <3>1. /\ rep' = [open |-> TRUE, opened |-> rep.opened + 1,
                     mode |-> "single", resp |-> NoFlow, result |-> ""]
          /\ rep.opened < MaxOpens /\ rep.opened \in 0 .. MaxOpens /\ UNCHANGED ui
      BY <2>1 DEF OpenRepeater
    <3>2. rep.opened + 1 \in 0 .. MaxOpens
      BY <3>1, OneMoreOpen
    <3> QED
      BY <1>1, <2>0, <3>1, <3>2
  <2>2. CASE CycleMode
    BY <1>1, <2>2, ModesCycle DEF CycleMode
  <2>3. CASE CloseRepeater \/ SendNothing
    BY <1>1, <2>3 DEF CloseRepeater, SendNothing
  <2>4. CASE QuitKey \/ ResendKey \/ UNCHANGED repVars
    BY <1>1, <2>4 DEF QuitKey, ResendKey, repVars
  <2> QED
    BY <2>1, <2>2, <2>3, <2>4
<1>4. \A c \in Commands : JobsInTurn(commands'[c], store'[c])
  BY <1>1
<1> QED
  BY <1>1, <1>2, <1>3, <1>4

LEMMA ResendKeeps ==
    ASSUME RepInv, ResendOver
    PROVE  RepInv'
<1> USE DEF RepInv, ResendOver
<1>1. /\ store \in [0 .. MaxSends -> Seq(RecordedFlows \cup {ResentFlow})]
      /\ store' = [store EXCEPT ![0] = Append(@, ResentFlow)] /\ 0 \in 0 .. MaxSends
  BY RepConstants DEF CommandsTyped, Nobody, ResentFlow
<1>2. Append(store[0], ResentFlow) \in Seq(RecordedFlows \cup {ResentFlow})
  BY <1>1, AppendProperties
<1>3. /\ store' \in [0 .. MaxSends -> Seq(RecordedFlows \cup {ResentFlow})]
      /\ \A c \in 1 .. MaxSends : store'[c] = store[c]
  BY <1>1, <1>2
<1>4. Commands' = Commands /\ Commands \subseteq 1 .. MaxSends
  BY RepConstants, LenProperties DEF Commands, CommandsTyped
<1> QED
  BY <1>3, <1>4 DEF CommandsTyped, RepTypeOK

LEMMA SendKeeps ==
    ASSUME RepInv, SendKey
    PROVE  RepInv'
<1> USE DEF RepInv
<1>1. PICK new \in CommandType :
         /\ commands' = Append(commands, new)
         /\ JobsInTurn(new, <<>>)
  <2>1. PICK text \in Texts, order \in SetToSeqs(Names) :
           LET attack == AttackOf(rep.mode, text, order)
           IN  commands' = Append(commands,
                  IF rep.mode = "single"
                  THEN Command("single", text, <<>>, <<SingleJob(text)>>)
                  ELSE Command("attack", text, attack.positions, Jobs(attack)))
    BY DEF SendKey
  <2> DEFINE attack == AttackOf(rep.mode, text, order)
  <2>2. rep.opened \in 0 .. MaxOpens /\ rep.mode \in ToSet(Modes)
    BY DEF RepTypeOK
  <2>3. attack \in Attacks
    BY <2>2 DEF Attacks
  <2> HIDE DEF attack
  <2>4. attack.positions \in PositionLists /\ Jobs(attack) \in JobLists
    BY <2>3 DEF PositionLists, JobLists
  <2>5. <<>> \in PositionLists /\ <<SingleJob(text)>> \in JobLists
    BY DEF PositionLists, JobLists
  <2>6. CASE rep.mode = "single"
    BY <2>1, <2>2, <2>5, <2>6, NewCommand
  <2>7. CASE rep.mode # "single"
    <3>1. commands' = Append(commands, Command("attack", text, attack.positions, Jobs(attack)))
      BY <2>1, <2>7 DEF attack
    <3> QED
      BY <2>2, <2>4, <3>1, NewCommand
  <2> QED
    BY <2>6, <2>7
<1>2. UNCHANGED <<store, ui>> /\ rep' = [rep EXCEPT !.result = "sending"] /\ Len(commands) < MaxSends
  BY DEF SendKey
<1>3. /\ commands' \in Seq(CommandType) /\ Len(commands) \in Nat
      /\ Len(commands') = Len(commands) + 1 /\ commands'[Len(commands) + 1] = new
      /\ \A c \in 1 .. Len(commands) : commands'[c] = commands[c]
      /\ Commands = 1 .. Len(commands) /\ Commands' = 1 .. Len(commands) + 1
  BY <1>1, AppendProperties, LenProperties DEF CommandsTyped, Commands
<1>4. CommandsTyped'
  BY <1>2, <1>3, RepConstants DEF CommandsTyped
<1>5. store[Len(commands) + 1] = <<>>
  BY <1>2, <1>3, RepConstants
<1>6. \A c \in Commands' : JobsInTurn(commands'[c], store'[c])
  BY <1>1, <1>2, <1>3, <1>5
<1>7. new.at \in {"sending", "reporting", "through"}
  BY DEF CommandType
<1>8. RepTypeOK'
  <2>0. RepTypeOK
    OBVIOUS
  <2>1. Commands \subseteq Commands'
    BY <1>3
  <2>2. \A c \in Commands' : commands'[c].at \in {"sending", "reporting", "through"}
    <3> SUFFICES ASSUME NEW c \in Commands'
                 PROVE  commands'[c].at \in {"sending", "reporting", "through"}
      OBVIOUS
    <3>1. CASE c = Len(commands) + 1
      BY <1>3, <1>7, <3>1
    <3>2. CASE c # Len(commands) + 1
      <4>1. c \in 1 .. Len(commands)
        BY <1>3, <3>2
      <4> QED
        BY <1>3, <4>1, <2>0 DEF RepTypeOK
    <3> QED
      BY <3>1, <3>2
  <2>3. rep' \in [open : BOOLEAN, opened : 0 .. MaxOpens, mode : ToSet(Modes),
                   resp : {NoFlow} \cup Commands',
                   result : {"", "sending", "parse error", "attack complete", "sent", "error"}]
    BY <1>2, <2>0, <2>1 DEF RepTypeOK
  <2> QED
    BY <1>2, <2>0, <2>2, <2>3 DEF RepTypeOK
<1> QED
  BY <1>2, <1>3, <1>4, <1>6, <1>8

LEMMA OneOfThem ==
    ASSUME RepInv, NEW c \in Commands
    PROVE  /\ c \in 1 .. MaxSends /\ c \in 0 .. MaxSends
           /\ commands[c] \in CommandType
           /\ store[c] \in Seq(RecordedFlows \cup {ResentFlow}) /\ JobsInTurn(commands[c], store[c])
<1>1. c \in 1 .. Len(commands) /\ Len(commands) \in Nat /\ Len(commands) <= MaxSends
  BY LenProperties DEF RepInv, CommandsTyped, Commands
<1>2. c \in 1 .. MaxSends /\ c \in 0 .. MaxSends
  BY <1>1, RepConstants
<1> QED
  BY <1>1, <1>2 DEF RepInv, CommandsTyped, Commands

\* A step of one command: the others and their flows stay.
LEMMA CommandGoesOn ==
    ASSUME RepInv, NEW c \in Commands, NEW new \in CommandType, UNCHANGED ui,
           commands' = [commands EXCEPT ![c] = new], JobsInTurn(new, store'[c]),
           store' \in [0 .. MaxSends -> Seq(RecordedFlows \cup {ResentFlow})],
           \A d \in (0 .. MaxSends) \ {c} : store'[d] = store[d],
           rep' \in [open : BOOLEAN, opened : 0 .. MaxOpens, mode : ToSet(Modes),
                     resp : {NoFlow} \cup Commands,
                     result : {"", "sending", "parse error", "attack complete", "sent", "error"}]
    PROVE  RepInv'
<1>1. /\ commands \in Seq(CommandType) /\ Len(commands) \in Nat /\ Len(commands) <= MaxSends
      /\ Commands = 1 .. Len(commands)
  BY LenProperties DEF RepInv, CommandsTyped, Commands
<1>2. /\ commands' \in Seq(CommandType) /\ Len(commands') = Len(commands)
      /\ Commands' = Commands /\ commands'[c] = new
      /\ \A d \in Commands : d # c => commands'[d] = commands[d]
  BY <1>1, ExceptSeq DEF Commands
<1>3. CommandsTyped'
  BY <1>1, <1>2 DEF CommandsTyped
<1>4. new.at \in {"sending", "reporting", "through"}
  BY DEF CommandType
<1>5. RepTypeOK'
  <2>1. \A d \in Commands' : commands'[d].at \in {"sending", "reporting", "through"}
    BY <1>2, <1>4 DEF RepInv, RepTypeOK
  <2> QED
    BY <1>2, <2>1 DEF RepInv, RepTypeOK
<1>6. \A d \in Commands' : JobsInTurn(commands'[d], store'[d])
  <2> SUFFICES ASSUME NEW d \in Commands
               PROVE  JobsInTurn(commands'[d], store'[d])
    BY <1>2
  <2>1. CASE d = c
    BY <1>2, <2>1
  <2>2. CASE d # c
    BY <1>2, <2>2, OneOfThem
  <2> QED
    BY <2>1, <2>2
<1>7. \A d \in 1 .. MaxSends : d \notin Commands' => store'[d] = <<>>
  <2> SUFFICES ASSUME NEW d \in 1 .. MaxSends, d \notin Commands
               PROVE  store'[d] = <<>>
    BY <1>2
  <2>1. d \in 0 .. MaxSends
    BY RepConstants
  <2>2. d \in (0 .. MaxSends) \ {c}
    BY <2>1
  <2> QED
    BY <2>2 DEF RepInv
<1> QED
  BY <1>3, <1>5, <1>6, <1>7 DEF RepInv

LEMMA SkipKeeps ==
    ASSUME RepInv, NEW c \in 1 .. MaxSends, BuildFails(c)
    PROVE  RepInv'
<1> DEFINE new == [After(commands[c]) EXCEPT !.unbuilt = @ \cup {commands[c].next}]
<1>1. /\ c \in Commands /\ commands[c].at = "sending"
      /\ commands' = [commands EXCEPT ![c] = new] /\ UNCHANGED <<rep, store, ui>>
  BY DEF BuildFails, Running
<1>2. /\ commands \in Seq(CommandType) /\ commands[c] \in CommandType
      /\ store[c] \in Seq(RecordedFlows \cup {ResentFlow}) /\ JobsInTurn(commands[c], store[c])
  BY <1>1, OneOfThem DEF RepInv, CommandsTyped
<1>3. new \in CommandType /\ JobsInTurn(new, store[c])
  BY <1>1, <1>2, JobSkipped
<1> HIDE DEF new
<1>4. store' \in [0 .. MaxSends -> Seq(RecordedFlows \cup {ResentFlow})] /\ store'[c] = store[c]
  BY <1>1 DEF RepInv, CommandsTyped
<1>5. \A d \in (0 .. MaxSends) \ {c} : store'[d] = store[d]
  BY <1>1
<1>6. rep' \in [open : BOOLEAN, opened : 0 .. MaxOpens, mode : ToSet(Modes),
                resp : {NoFlow} \cup Commands,
                result : {"", "sending", "parse error", "attack complete", "sent", "error"}]
  BY <1>1 DEF RepInv, RepTypeOK
<1> QED
  BY <1>1, <1>3, <1>4, <1>5, <1>6, CommandGoesOn

LEMMA OverKeeps ==
    ASSUME RepInv, NEW c \in 1 .. MaxSends, NEW failed \in BOOLEAN, Over(c, failed)
    PROVE  RepInv'
<1> DEFINE given == failed /\ commands[c].kind = "single"
           new == [After(commands[c]) EXCEPT !.count = @ + 1, !.failed = given]
           flow == Recorded(c, commands[c].next)
<1>1. /\ c \in Commands /\ commands[c].at = "sending"
      /\ commands' = [commands EXCEPT ![c] = new] /\ UNCHANGED <<rep, ui>>
      /\ store' = [store EXCEPT ![c] = Append(@, flow)]
  BY DEF Over, Running
<1>2. /\ commands \in Seq(CommandType) /\ commands[c] \in CommandType
      /\ store[c] \in Seq(RecordedFlows \cup {ResentFlow}) /\ JobsInTurn(commands[c], store[c])
  BY <1>1, OneOfThem DEF RepInv, CommandsTyped
<1>3. given \in BOOLEAN
  OBVIOUS
<1>4. flow = [job |-> commands[c].next, values |-> commands[c].jobs[commands[c].next],
              label |-> Label(commands[c], commands[c].jobs[commands[c].next])]
  BY DEF Recorded
<1> HIDE DEF given, flow
<1>5. /\ new \in CommandType /\ JobsInTurn(new, Append(store[c], flow))
      /\ Append(store[c], flow) \in Seq(RecordedFlows \cup {ResentFlow})
  BY <1>1, <1>2, <1>3, <1>4, JobSent
<1> HIDE DEF new
<1>6. /\ store' \in [0 .. MaxSends -> Seq(RecordedFlows \cup {ResentFlow})]
      /\ store'[c] = Append(store[c], flow)
      /\ \A d \in (0 .. MaxSends) \ {c} : store'[d] = store[d]
  BY <1>1, <1>5, RepConstants DEF RepInv, CommandsTyped
<1>7. rep' \in [open : BOOLEAN, opened : 0 .. MaxOpens, mode : ToSet(Modes),
                resp : {NoFlow} \cup Commands,
                result : {"", "sending", "parse error", "attack complete", "sent", "error"}]
  BY <1>1 DEF RepInv, RepTypeOK
<1>8. JobsInTurn(new, store'[c])
  BY <1>5, <1>6
<1> QED
  BY <1>1, <1>5, <1>6, <1>7, <1>8, CommandGoesOn

LEMMA ReportKeeps ==
    ASSUME RepInv, NEW c \in 1 .. MaxSends, Report(c)
    PROVE  RepInv'
<1> DEFINE new == [commands[c] EXCEPT !.at = "through"]
<1>1. /\ c \in Commands /\ commands[c].at = "reporting"
      /\ commands' = [commands EXCEPT ![c] = new] /\ UNCHANGED <<store, ui>>
      /\ rep' = Shown(c)
  BY DEF Report
<1>2. /\ commands \in Seq(CommandType) /\ commands[c] \in CommandType
      /\ store \in [0 .. MaxSends -> Seq(RecordedFlows \cup {ResentFlow})]
      /\ JobsInTurn(commands[c], store[c])
  BY <1>1, OneOfThem DEF RepInv, CommandsTyped
<1>3. /\ new \in CommandType /\ new.next = commands[c].next /\ new.count = commands[c].count
      /\ new.unbuilt = commands[c].unbuilt /\ new.jobs = commands[c].jobs
      /\ new.positions = commands[c].positions
  BY <1>2 DEF CommandType
<1>4. \A job : Label(new, job) = Label(commands[c], job)
  BY <1>3 DEF Label
<1> HIDE DEF new
<1>5. JobsInTurn(new, store[c])
  BY <1>1, <1>2, <1>3, <1>4 DEF JobsInTurn
<1>6. rep' \in [open : BOOLEAN, opened : 0 .. MaxOpens, mode : ToSet(Modes),
                resp : {NoFlow} \cup Commands,
                result : {"", "sending", "parse error", "attack complete", "sent", "error"}]
  BY <1>1 DEF RepInv, RepTypeOK, Shown, FlowOf
<1> QED
  BY <1>1, <1>2, <1>3, <1>5, <1>6, CommandGoesOn

-----------------------------------------------------------------------------
LEMMA RepStart ==
    ASSUME RepInit
    PROVE  RepInv
<1>1. commands = <<>> /\ Len(commands) = 0 /\ Commands = {}
  <2>1. commands = <<>>
    BY DEF RepInit
  <2>2. Len(<<>>) = 0 /\ DOMAIN <<>> = {}
    OBVIOUS
  <2> QED
    BY <2>1, <2>2 DEF Commands
<1>2. store \in [0 .. MaxSends -> Seq(RecordedFlows \cup {ResentFlow})]
      /\ \A c \in 1 .. MaxSends : store[c] = <<>>
  BY RepConstants, EmptySeq DEF RepInit, Nobody
<1>3. RepTypeOK
  <2>1. "single" \in ToSet(Modes)
    BY SingleIsAMode
  <2>2. rep \in [open : BOOLEAN, opened : 0 .. MaxOpens, mode : ToSet(Modes),
                 resp : {NoFlow} \cup Commands,
                 result : {"", "sending", "parse error", "attack complete", "sent", "error"}]
    BY <2>1, RepConstants DEF RepInit
  <2> QED
    BY <1>1, <2>2 DEF RepInit, RepTypeOK
<1>4. CommandsTyped
  BY <1>1, <1>2, RepConstants, EmptySeq DEF CommandsTyped
<1> QED
  BY <1>1, <1>2, <1>3, <1>4 DEF RepInv

LEMMA RepStep ==
    ASSUME RepInv, [RepNext]_repVars
    PROVE  RepInv'
<1>1. CASE OpenRepeater \/ CloseRepeater \/ CycleMode \/ SendNothing \/ QuitKey
  BY <1>1, ModalKeeps
<1>2. CASE SendKey
  BY <1>2, SendKeeps
<1>3. CASE \E c \in 1 .. MaxSends : CommandStep(c)
  <2>1. PICK c \in 1 .. MaxSends : CommandStep(c)
    BY <1>3
  <2>2. CASE BuildFails(c)
    BY <2>2, SkipKeeps
  <2>3. CASE Answered(c)
    BY <2>3, OverKeeps DEF Answered
  <2>4. CASE Fails(c)
    BY <2>4, OverKeeps DEF Fails
  <2>5. CASE Report(c)
    BY <2>5, ReportKeeps
  <2> QED
    BY <2>1, <2>2, <2>3, <2>4, <2>5 DEF CommandStep
<1>4. CASE ResendKey \/ UNCHANGED repVars
  BY <1>4, ModalKeeps
<1>5. CASE ResendAnswered \/ ResendFails
  BY <1>5, ResendKeeps DEF ResendAnswered, ResendFails
<1>6. CASE Stopped
  BY <1>6, ModalKeeps DEF Stopped
<1> QED
  BY <1>1, <1>2, <1>3, <1>4, <1>5, <1>6 DEF RepNext

\* Every command goes through its jobs one after the other and leaves a flow for
\* each whose request could be built; a key, a report or another command cannot
\* disturb it (runRepeater, repeaterResultMsg).
THEOREM RepInvariance == RepSpec => []RepInv
<1>1. RepInit => RepInv
  BY RepStart
<1>2. RepInv /\ [RepNext]_repVars => RepInv'
  BY RepStep
<1> QED
  BY <1>1, <1>2, PTL DEF RepSpec

\* AttackRecorded for any template, payload lists and number of commands: an attack
\* leaves one flow for each job whose request could be built, in their order, with
\* the payloads that were in it, and is through when all its jobs are (runRepeater,
\* jobLabel).
THEOREM AttacksRecorded == RepSpec => []AttackRecorded
<1>1. RepInv => AttackRecorded
  BY DEF RepInv, AttackRecorded, JobsInTurn, Label
<1> QED
  BY <1>1, RepInvariance, PTL

-----------------------------------------------------------------------------
NoFaults == Faults = {}

-----------------------------------------------------------------------------
(* The data directory: the inductive invariants.                           *)

\* One program at a time is loading.
OneLoads ==
    \A p, q \in Programs : pc[p] \in Loading /\ pc[q] \in Loading => p = q

\* A key that can be read is that of the certificate, or one that was not read when it
\* was there to be.
KeyBelongs == Whole(key) => key = cert \/ key \in unread

\* While a pair is being created the file of the key holds none, or such a one.
Creating == {"generate", "writeCert", "truncKey", "writeKey"}

NoKeyYet == \A p \in Programs : pc[p] \in Creating => ~ Whole(key) \/ key \in unread

\* What a program has in memory of what it read or generated.
InMemory ==
    \A p \in Programs :
        /\ pc[p] = "readKey" => mine[p].cert = cert
        /\ pc[p] \in {"writeCert", "truncKey", "writeKey"} => mine[p].key = mine[p].cert
        /\ pc[p] \in {"truncKey", "writeKey"} => cert = mine[p].cert
        /\ pc[p] = "writeKey" => Whole(mine[p].key)
        /\ pc[p] \in {"writeCert", "truncKey"} => Whole(mine[p].key)

\* A program that is up holds what is in the files, unless that was replaced unread.
Holds ==
    \A p \in Programs : Up(p) /\ mine[p].key \notin unread =>
        /\ Whole(key)
        /\ mine[p].key = key /\ mine[p].cert = cert

CAInv == TypeOK /\ OneLoads /\ KeyBelongs /\ NoKeyYet /\ InMemory /\ Holds

\* A file about to be put in place was synced; saves are numbered upwards.
SaveInv ==
    /\ TypeOK
    /\ session \in found
    /\ \A p \in Programs : pc[p] = "rename" => temp[p] = "synced"
    /\ \A p \in Programs : pc[p] = "syncDir" => commit[p] <= session.save
    /\ \A x \in found : x.whole /\ acked <= x.save /\ x.save <= session.save

-----------------------------------------------------------------------------
\* What any step leaves well typed.
LEMMA TypeStep == TypeOK /\ [Next]_vars => TypeOK'
<1> SUFFICES ASSUME TypeOK, [Next]_vars PROVE TypeOK'
  OBVIOUS
<1> USE DEF TypeOK, Goto, SetTemp, Loading, Saving, caVars, saveVars
<1>1. ASSUME NEW p \in Programs, Load(p) PROVE TypeOK'
  <2>0. CASE ReadFails(p)
    <3>1. unread' \subseteq Int
      BY <2>0 DEF ReadFails
    <3> QED
      BY <2>0, <3>1 DEF ReadFails
  <2>1. CASE Start(p) \/ ReadCert(p) \/ ReadKey(p)
    <3>1. UNCHANGED <<cert, key, pairs, unread, temp, commit, session, found, acked>>
      BY <2>1 DEF Start, ReadCert, ReadKey
    <3>2. mine' \in [Programs -> [cert : Int, key : Int]]
      BY <2>1 DEF Start, ReadCert, ReadKey
    <3>3. pc' \in [Programs -> {"down", "up"} \cup Loading \cup Saving]
      BY <2>1 DEF Start, ReadCert, ReadKey
    <3> QED
      BY <3>1, <3>2, <3>3
  <2>2. CASE Generate(p)
    <3>1. cert' \in Int /\ pairs' \in Nat /\ pairs' \in Int
      BY <2>2 DEF Generate, Partial
    <3>2. mine' \in [Programs -> [cert : Int, key : Int]]
      BY <2>2, <3>1 DEF Generate
    <3> QED
      BY <2>2, <3>1, <3>2 DEF Generate
  <2>3. CASE WriteCert(p) \/ TruncKey(p) \/ WriteKey(p)
    <3>1. cert' \in Int /\ key' \in Int
      BY <2>3 DEF WriteCert, TruncKey, WriteKey, Partial
    <3>2. pc' \in [Programs -> {"down", "up"} \cup Loading \cup Saving]
      BY <2>3 DEF WriteCert, TruncKey, WriteKey
    <3>3. UNCHANGED <<pairs, mine, unread, temp, commit, session, found, acked>>
      BY <2>3 DEF WriteCert, TruncKey, WriteKey
    <3> QED
      BY <3>1, <3>2, <3>3
  <2> QED
    BY <1>1, <2>0, <2>1, <2>2, <2>3 DEF Load
<1>2. ASSUME NEW p \in Programs, Save(p) PROVE TypeOK'
  <2>1. CASE BeginSave(p) \/ WriteTemp(p) \/ SyncTemp(p) \/ SaveFails(p)
    BY <2>1 DEF BeginSave, WriteTemp, SyncTemp, SaveFails
  <2>2. CASE Rename(p)
    <3>1. session' \in [save : Nat, whole : BOOLEAN]
      BY <2>2 DEF Rename
    <3>2. [session' EXCEPT !.whole = (temp[p] = "synced")] \in [save : Nat, whole : BOOLEAN]
      BY <3>1
    <3>3. found' \subseteq [save : Nat, whole : BOOLEAN]
      BY <2>2, <3>2 DEF Rename
    <3> QED
      BY <2>2, <3>1, <3>3 DEF Rename
  <2>3. CASE SyncDir(p)
    BY <2>3 DEF SyncDir, Kept
  <2> QED
    BY <1>2, <2>1, <2>2, <2>3 DEF Save
<1>3. ASSUME NEW p \in Programs, Crash(p) PROVE TypeOK'
  BY <1>3 DEF Crash
<1>4. CASE PowerFails
  BY <1>4 DEF PowerFails, Partial
<1>5. CASE UNCHANGED vars
  BY <1>5 DEF vars
<1> QED
  BY <1>1, <1>2, <1>3, <1>4, <1>5 DEF Next

-----------------------------------------------------------------------------
(* The CA.                                                                 *)

LEMMA CAInit == Init => CAInv
BY DEF Init, CAInv, TypeOK, OneLoads, KeyBelongs, NoKeyYet, InMemory, Holds,
       Up, Whole, Absent, Loading, Saving, Creating

\* Steps of a save move a program between places that are all up.
LEMMA CASaves ==
    ASSUME CAInv, NEW p \in Programs, Save(p) PROVE CAInv'
<1>1. TypeOK'
  BY TypeStep DEF CAInv, Next
<1>2. /\ UNCHANGED caVars
      /\ Up(p) /\ Up(p)'
      /\ pc' = [pc EXCEPT ![p] = pc'[p]]
  BY DEF CAInv, TypeOK, Save, BeginSave, WriteTemp, SyncTemp, Rename, SyncDir,
         SaveFails, Goto, Up, Saving
<1> QED
  BY <1>1, <1>2 DEF CAInv, TypeOK, OneLoads, KeyBelongs, NoKeyYet, InMemory, Holds,
                    Up, Whole, Loading, Saving, Creating, caVars

\* A start, a read or a write keeps the invariant: a pair is only generated
\* when no key can be read, so that no program is up that holds it, or when one was
\* not read and is counted so.
LEMMA CALoads ==
    ASSUME NoFaults, CAInv, NEW p \in Programs, Load(p) PROVE CAInv'
<1>1. TypeOK'
  BY TypeStep DEF CAInv, Next
<1> USE <1>1 DEF CAInv, TypeOK, OneLoads, KeyBelongs, NoKeyYet, InMemory, Holds,
                 Up, Whole, Loading, Saving, Creating, Goto
<1>2. CASE Start(p)
  BY <1>2 DEF Start, caVars, NoFaults
<1>3. CASE ReadCert(p)
  BY <1>3 DEF ReadCert, Absent
<1>4. CASE ReadKey(p)
  BY <1>4 DEF ReadKey
<1>5. CASE Generate(p)
  BY <1>5 DEF Generate, Partial
<1>6. CASE WriteCert(p)
  BY <1>6 DEF WriteCert
<1>7. CASE TruncKey(p)
  BY <1>7 DEF TruncKey, Partial
<1>8. CASE WriteKey(p)
  BY <1>8 DEF WriteKey
<1>9. CASE ReadFails(p)
  BY <1>9 DEF ReadFails
<1> QED
  BY <1>2, <1>3, <1>4, <1>5, <1>6, <1>7, <1>8, <1>9 DEF Load

LEMMA CAStep == NoFaults /\ CAInv /\ [Next]_vars => CAInv'
<1> SUFFICES ASSUME NoFaults, CAInv, [Next]_vars PROVE CAInv'
  OBVIOUS
<1>1. TypeOK'
  BY TypeStep DEF CAInv
<1>2. ASSUME NEW p \in Programs, Load(p) PROVE CAInv'
  BY <1>2, CALoads
<1>3. ASSUME NEW p \in Programs, Save(p) PROVE CAInv'
  BY <1>3, CASaves
<1>4. ASSUME NEW p \in Programs, Crash(p) PROVE CAInv'
  BY <1>1, <1>4 DEF CAInv, TypeOK, OneLoads, KeyBelongs, NoKeyYet, InMemory, Holds,
                    Up, Whole, Loading, Saving, Creating, Crash, Goto, caVars
<1>5. CASE PowerFails
  BY <1>1, <1>5 DEF CAInv, TypeOK, OneLoads, KeyBelongs, NoKeyYet, InMemory, Holds,
                    Up, Whole, Loading, Saving, Creating, PowerFails, NoFaults
<1>6. CASE UNCHANGED vars
  BY <1>1, <1>6 DEF CAInv, TypeOK, OneLoads, KeyBelongs, NoKeyYet, InMemory, Holds,
                    Up, Whole, Loading, Saving, Creating, vars, caVars
<1> QED
  BY <1>2, <1>3, <1>4, <1>5, <1>6 DEF Next

\* Every program that is up signs with the key of the certificate in the file
\* that its child trusts (LoadOrCreate), unless a program failed to read that key or
\* the certificate beside it, and so replaced them.
THEOREM CAStaysAPair ==
    ASSUME NoFaults
    PROVE  Spec => []ChildTrusts
<1>1. CAInv => ChildTrusts
  BY DEF CAInv, KeyBelongs, Holds, ChildTrusts
<1>2. CAInv /\ [Next]_vars => CAInv'
  BY CAStep
<1> QED
  BY <1>1, <1>2, CAInit, PTL DEF Spec

-----------------------------------------------------------------------------
(* The session.                                                            *)

LEMMA SaveInit == Init => SaveInv
BY DEF Init, SaveInv, TypeOK, Absent, Loading, Saving

LEMMA SaveStep == SaveInv /\ [Next]_vars => SaveInv'
<1> SUFFICES ASSUME SaveInv, [Next]_vars PROVE SaveInv'
  OBVIOUS
<1>1. TypeOK'
  BY TypeStep DEF SaveInv
<1> USE <1>1 DEF SaveInv, TypeOK, Goto, SetTemp
<1>2. ASSUME NEW p \in Programs, Load(p) PROVE SaveInv'
  BY <1>2 DEF Load, Start, ReadCert, ReadKey, ReadFails, Generate, WriteCert, TruncKey, WriteKey,
                 saveVars
<1>3. ASSUME NEW p \in Programs, Save(p) PROVE SaveInv'
  <2>1. CASE BeginSave(p) \/ WriteTemp(p) \/ SyncTemp(p) \/ SaveFails(p)
    <3>1. UNCHANGED <<commit, session, found, acked>>
      BY <2>1 DEF BeginSave, WriteTemp, SyncTemp, SaveFails
    <3>2. \A q \in Programs : pc'[q] = "syncDir" => pc[q] = "syncDir"
      BY <2>1 DEF BeginSave, WriteTemp, SyncTemp, SaveFails
    <3>3. \A q \in Programs : pc'[q] = "rename" => temp'[q] = "synced"
      BY <2>1 DEF BeginSave, WriteTemp, SyncTemp, SaveFails
    <3> QED
      BY <3>1, <3>2, <3>3
  <2>2. CASE Rename(p)
    <3>1. temp[p] = "synced"
      BY <2>2 DEF Rename
    <3>2. session' = [save |-> session.save + 1, whole |-> TRUE]
      BY <2>2, <3>1 DEF Rename
    <3>3. [session' EXCEPT !.whole = (temp[p] = "synced")] = session'
      BY <3>1, <3>2
    <3>4. found' = found \cup {session'}
      BY <2>2, <3>3 DEF Rename
    <3>5. commit' = [commit EXCEPT ![p] = session'.save] /\ UNCHANGED acked
      BY <2>2, <3>2 DEF Rename
    <3>6. pc' = [pc EXCEPT ![p] = "syncDir"] /\ temp' = [temp EXCEPT ![p] = "none"]
      BY <2>2 DEF Rename
    <3>7. session.save \in Nat /\ session'.save = session.save + 1 /\ session'.whole
      BY <3>2
    <3>8. \A x \in found' : x.whole /\ acked' <= x.save /\ x.save <= session'.save
      BY <3>4, <3>5, <3>7
    <3>9. \A q \in Programs : pc'[q] = "syncDir" => commit'[q] <= session'.save
      BY <3>5, <3>6, <3>7
    <3> QED
      BY <3>4, <3>6, <3>8, <3>9
  <2>3. CASE SyncDir(p)
    BY <2>3 DEF SyncDir, Kept
  <2> QED
    BY <1>3, <2>1, <2>2, <2>3 DEF Save
<1>4. ASSUME NEW p \in Programs, Crash(p) PROVE SaveInv'
  BY <1>4 DEF Crash
<1>5. CASE PowerFails
  BY <1>5 DEF PowerFails
<1>6. CASE UNCHANGED vars
  BY <1>6 DEF vars, saveVars
<1> QED
  BY <1>2, <1>3, <1>4, <1>5, <1>6 DEF Next

\* Whatever is killed or fails, the session that is found is complete, and no
\* older than one that was reported as saved (WriteFunc).
THEOREM SavesSurvive == Spec => []SavedIsFound
<1>1. SaveInv => SavedIsFound
  BY DEF SaveInv, SavedIsFound, TypeOK
<1> QED
  BY <1>1, SaveInit, SaveStep, PTL DEF Spec

-----------------------------------------------------------------------------
(* Induction over the natural numbers, for what the code computes in a     *)
(* loop.  The library's theorems about it have a formula as a parameter,   *)
(* which is a set here.                                                    *)

LEMMA SetInduction ==
    ASSUME NEW S, 0 \in S, \A k \in Nat : k \in S => k + 1 \in S
    PROVE  Nat \subseteq S
<1> SUFFICES ASSUME Nat \ S # {} PROVE FALSE
  OBVIOUS
<1> DEFINE less == OpToRel(<, Nat)
<1>1. IsWellFoundedOn(less, Nat)
  BY NatLessThanWellFounded
<1>2. \A i, k \in Nat : i < k => <<i, k>> \in less
  BY DEF OpToRel
<1> HIDE DEF less
<1>3. PICK k \in Nat \ S : \A i \in Nat \ S : <<i, k>> \notin less
  BY <1>1, WFMin
<1>4. k # 0
  BY <1>3
<1>5. k - 1 \in Nat /\ (k - 1) + 1 = k /\ k - 1 < k
  BY <1>3, <1>4
<1>6. k - 1 \in S
  BY <1>2, <1>3, <1>5
<1> QED
  BY <1>3, <1>5, <1>6

\* The runs of a loop that goes n times.
Loops(S, base, n, step) ==
    {f \in [0 .. n -> S] : f[0] = base /\ \A i \in 1 .. n : f[i] = step[i][f[i - 1]]}

LEMMA Recursion ==
    ASSUME NEW S, NEW base \in S, NEW n \in Nat, NEW step \in [1 .. n -> [S -> S]]
    PROVE  Loops(S, base, n, step) # {}
<1> DEFINE Good(f, k) == f[0] = base /\ \A i \in 1 .. k : f[i] = step[i][f[i - 1]]
           T == {k \in Nat : k <= n => \E f \in [0 .. k -> S] : Good(f, k)}
<1>1. 0 \in T
  <2> DEFINE f == [i \in 0 .. 0 |-> base]
  <2>1. f \in [0 .. 0 -> S] /\ Good(f, 0)
    OBVIOUS
  <2> QED
    BY <2>1
<1>2. ASSUME NEW k \in Nat, k \in T PROVE k + 1 \in T
  <2> SUFFICES ASSUME k + 1 <= n PROVE \E f \in [0 .. k + 1 -> S] : Good(f, k + 1)
    OBVIOUS
  <2>1. PICK f \in [0 .. k -> S] : Good(f, k)
    BY <1>2
  <2>2. k \in 0 .. k /\ k + 1 \in 1 .. n
    OBVIOUS
  <2>3. f[k] \in S
    BY <2>2
  <2> DEFINE next == step[k + 1][f[k]]
             g == [i \in 0 .. k + 1 |-> IF i = k + 1 THEN next ELSE f[i]]
  <2>4. next \in S
    BY <2>2, <2>3
  <2> HIDE DEF next
  <2>5. \A i \in 0 .. k + 1 : i # k + 1 => i \in 0 .. k
    OBVIOUS
  <2>6. g \in [0 .. k + 1 -> S]
    BY <2>4, <2>5
  <2>7. g[k + 1] = next /\ \A i \in 0 .. k : g[i] = f[i]
    OBVIOUS
  <2> HIDE DEF g
  <2>8. g[0] = base
    BY <2>1, <2>7
  <2>9. ASSUME NEW i \in 1 .. k + 1 PROVE g[i] = step[i][g[i - 1]]
    <3>1. CASE i = k + 1
      <4>1. i - 1 = k /\ g[k] = f[k]
        BY <3>1, <2>7
      <4> QED
        BY <3>1, <4>1, <2>7 DEF next
    <3>2. CASE i # k + 1
      <4>1. i \in 1 .. k /\ i \in 0 .. k /\ i - 1 \in 0 .. k
        BY <3>2
      <4>2. f[i] = step[i][f[i - 1]]
        BY <2>1, <4>1
      <4> QED
        BY <4>1, <4>2, <2>7
    <3> QED
      BY <3>1, <3>2
  <2> QED
    BY <2>6, <2>8, <2>9
<1> HIDE DEF T
<1>3. n \in T
  BY <1>1, <1>2, SetInduction
<1> QED
  BY <1>3 DEF T, Loops

-----------------------------------------------------------------------------
(* Bodies behind their encodings.                                          *)

\* The names of encodings and of pieces.  No prover here knows that a literal is in
\* STRING.
Words == STRING \cup {"identity", "gzip", "br", "bad", "m", "z", "part"}

Bodies == [layers : Seq(Words), content : Seq(Words), chunked : BOOLEAN]
Results == [ok : BOOLEAN, body : Bodies]

LEMMA EmptyIsBody == Empty \in Bodies /\ Refused \in Results
BY DEF Empty, Body, Bodies, Refused, Results

LEMMA IfResult ==
    ASSUME NEW condition \in BOOLEAN, NEW body \in Bodies
    PROVE  /\ If(condition, body) \in Results
           /\ If(condition, body).ok = condition
           /\ condition => If(condition, body).body = body
BY EmptyIsBody DEF If, Refused, Results

LEMMA PeelKeeps ==
    ASSUME NEW result \in Results, NEW encoding \in Words
    PROVE  LET peeled == Peel(result, encoding)
           IN  /\ peeled \in Results
               /\ peeled.ok =>
                     /\ result.ok
                     /\ peeled.body.content = result.body.content
                     /\ peeled.body.chunked = result.body.chunked
                     /\ result.body.chunked => peeled.body = result.body
<1> DEFINE body == result.body
           inner == [body EXCEPT !.layers = IF body.layers = <<>> THEN body.layers ELSE Tail(body.layers)]
           fits == /\ result.ok /\ ~body.chunked
                   /\ body.layers # <<>> /\ Head(body.layers) = encoding
<1>1. body \in Bodies /\ result.ok \in BOOLEAN /\ body.layers \in Seq(Words)
  BY DEF Results, Bodies
<1>2. body.layers # <<>> => Tail(body.layers) \in Seq(Words)
  BY <1>1, HeadTailProperties
<1>3. inner \in Bodies /\ inner.content = body.content /\ inner.chunked = body.chunked
  BY <1>1, <1>2 DEF Bodies
<1>4. Peel(result, encoding) = IF encoding = "identity" THEN result ELSE If(fits, inner)
  BY DEF Peel
<1>5. CASE encoding = "identity"
  BY <1>4, <1>5
<1>6. CASE encoding # "identity"
  <2> HIDE DEF inner
  <2>1. fits \in BOOLEAN
    OBVIOUS
  <2>2. /\ If(fits, inner) \in Results
        /\ If(fits, inner).ok = fits /\ (fits => If(fits, inner).body = inner)
    BY <1>3, <2>1, IfResult
  <2>3. fits => result.ok /\ ~body.chunked
    OBVIOUS
  <2> HIDE DEF fits
  <2> QED
    BY <1>3, <1>4, <1>6, <2>2, <2>3
<1> QED
  BY <1>5, <1>6

\* The loop of DecodeContentEncodingStrict, run by run.
LEMMA UnwrapLoop ==
    ASSUME NEW body \in Bodies, NEW encodings \in Seq(Words)
    PROVE  \E peeled \in [0 .. Len(encodings) -> Results] :
              /\ peeled[0] = If(TRUE, body)
              /\ \A i \in 1 .. Len(encodings) :
                    peeled[i] = Peel(peeled[i - 1], encodings[Len(encodings) + 1 - i])
              /\ Unwrapped(body, encodings) = peeled[Len(encodings)]
<1> DEFINE n == Len(encodings)
           Is(f) == f = [i \in 0 .. n |->
                           IF i = 0 THEN If(TRUE, body) ELSE Peel(f[i - 1], encodings[n + 1 - i])]
           loop == CHOOSE f : Is(f)
<1>1. n \in Nat /\ \A i \in 1 .. n : encodings[n + 1 - i] \in Words
  <2>1. n \in Nat /\ \A i \in 1 .. n : n + 1 - i \in 1 .. n
    BY LenProperties
  <2> QED
    BY <2>1, ElementOfSeq
<1>2. Unwrapped(body, encodings) = loop[n]
  BY DEF Unwrapped
<1> HIDE DEF n
<1>3. PICK step \in [1 .. n -> [Results -> Results]] :
         \A i \in 1 .. n, result \in Results :
            step[i][result] = Peel(result, encodings[n + 1 - i])
  <2> DEFINE peel == [i \in 1 .. n |-> [result \in Results |-> Peel(result, encodings[n + 1 - i])]]
  <2>1. peel \in [1 .. n -> [Results -> Results]]
    BY <1>1, PeelKeeps
  <2> QED
    BY <2>1
<1>4. If(TRUE, body) \in Results
  BY IfResult
<1>5. PICK f \in [0 .. n -> Results] :
         f[0] = If(TRUE, body) /\ \A i \in 1 .. n : f[i] = step[i][f[i - 1]]
  <2>1. PICK base \in Results : base = If(TRUE, body)
    BY <1>4
  <2>2. Loops(Results, base, n, step) # {}
    BY <1>1, <1>3, Recursion
  <2> QED
    BY <2>1, <2>2 DEF Loops
<1>6. \A i \in 1 .. n : f[i] = Peel(f[i - 1], encodings[n + 1 - i])
  <2> SUFFICES ASSUME NEW i \in 1 .. n PROVE f[i] = Peel(f[i - 1], encodings[n + 1 - i])
    OBVIOUS
  <2>1. i - 1 \in 0 .. n
    BY <1>1
  <2>2. f[i - 1] \in Results
    BY <2>1
  <2> QED
    BY <1>3, <1>5, <2>2
<1>7. Is(f)
  <2>1. \A i \in 0 .. n : f[i] = IF i = 0 THEN If(TRUE, body)
                                 ELSE Peel(f[i - 1], encodings[n + 1 - i])
    <3>1. \A i \in 0 .. n : i = 0 \/ i \in 1 .. n
      BY <1>1
    <3> QED
      BY <1>5, <1>6, <3>1
  <2>2. f = [i \in 0 .. n |-> f[i]]
    OBVIOUS
  <2> QED
    BY <2>1, <2>2
<1>8. Is(loop)
  BY <1>7
<1> HIDE DEF loop
<1>9. /\ loop[0] = If(TRUE, body)
      /\ \A i \in 1 .. n : loop[i] = Peel(loop[i - 1], encodings[n + 1 - i])
  <2>1. \A i \in 1 .. n : i \in 0 .. n /\ i # 0
    BY <1>1
  <2>2. 0 \in 0 .. n
    BY <1>1
  <2> QED
    BY <1>8, <2>1, <2>2
<1>10. \A i \in Nat : i \in 0 .. n => loop[i] \in Results
  <2> DEFINE T == {i \in Nat : i \in 0 .. n => loop[i] \in Results}
  <2>1. 0 \in T
    BY <1>4, <1>9
  <2>2. ASSUME NEW i \in Nat, i \in T PROVE i + 1 \in T
    <3> SUFFICES ASSUME i + 1 \in 0 .. n PROVE loop[i + 1] \in Results
      OBVIOUS
    <3>1. i + 1 \in 1 .. n /\ (i + 1) - 1 = i /\ i \in 0 .. n
      BY <1>1
    <3> DEFINE encoding == encodings[n + 1 - (i + 1)]
    <3>2. loop[i + 1] = Peel(loop[i], encoding) /\ loop[i] \in Results
      BY <1>9, <2>2, <3>1
    <3>3. encoding \in Words
      BY <1>1, <3>1
    <3> HIDE DEF encoding
    <3> QED
      BY <3>2, <3>3, PeelKeeps
  <2> HIDE DEF T
  <2>3. Nat \subseteq T
    BY <2>1, <2>2, SetInduction
  <2> QED
    BY <2>3 DEF T
<1>11. loop \in [0 .. n -> Results]
  <2>1. \A i \in 0 .. n : loop[i] \in Results
    BY <1>1, <1>10
  <2>2. loop = [i \in 0 .. n |-> loop[i]]
    BY <1>8
  <2> QED
    BY <2>1, <2>2
<1> QED
  BY <1>2, <1>9, <1>11 DEF n

\* Undoing encodings leaves the content and the framing alone, and cannot look into chunks.
LEMMA UnwrappedKeeps ==
    ASSUME NEW body \in Bodies, NEW encodings \in Seq(Words)
    PROVE  LET result == Unwrapped(body, encodings)
           IN  /\ result \in Results
               /\ result.ok => /\ result.body.content = body.content
                               /\ result.body.chunked = body.chunked
                               /\ body.chunked => result.body = body
<1> DEFINE n == Len(encodings)
           Same(result) == result.ok => /\ result.body.content = body.content
                                        /\ result.body.chunked = body.chunked
                                        /\ body.chunked => result.body = body
<1>1. PICK peeled \in [0 .. n -> Results] :
         /\ peeled[0] = If(TRUE, body)
         /\ \A i \in 1 .. n : peeled[i] = Peel(peeled[i - 1], encodings[n + 1 - i])
         /\ Unwrapped(body, encodings) = peeled[n]
  BY UnwrapLoop
<1>2. n \in Nat /\ \A i \in 1 .. n : encodings[n + 1 - i] \in Words
  <2>1. n \in Nat /\ \A i \in 1 .. n : n + 1 - i \in 1 .. n
    BY LenProperties
  <2> QED
    BY <2>1, ElementOfSeq
<1> HIDE DEF n
<1> DEFINE T == {i \in Nat : i \in 0 .. n => Same(peeled[i])}
<1>3. 0 \in T
  BY <1>1, IfResult
<1>4. ASSUME NEW i \in Nat, i \in T PROVE i + 1 \in T
  <2> SUFFICES ASSUME i + 1 \in 0 .. n PROVE Same(peeled[i + 1])
    OBVIOUS
  <2>1. i + 1 \in 1 .. n /\ (i + 1) - 1 = i /\ i \in 0 .. n
    BY <1>2
  <2>2. peeled[i] \in Results /\ Same(peeled[i])
    BY <1>4, <2>1
  <2> DEFINE encoding == encodings[n + 1 - (i + 1)]
  <2>3. peeled[i + 1] = Peel(peeled[i], encoding)
    BY <1>1, <2>1
  <2>4. encoding \in Words
    BY <1>2, <2>1
  <2> HIDE DEF encoding
  <2> QED
    BY <2>2, <2>3, <2>4, PeelKeeps
<1> HIDE DEF T
<1>5. Nat \subseteq T
  BY <1>3, <1>4, SetInduction
<1>6. Same(peeled[n])
  BY <1>2, <1>5 DEF T
<1> QED
  BY <1>1, <1>2, <1>6

\* What decoding yields when nothing is left to undo.
Decoded(body) == [ok |-> TRUE, body |-> body]

LEMMA IfTrue == \A body : If(TRUE, body) = Decoded(body)
BY DEF If, Decoded

LEMMA PeelWrap ==
    ASSUME NEW body \in Bodies, NEW encoding \in Words, ~body.chunked
    PROVE  Peel(Decoded(Wrap(body, encoding)), encoding) = Decoded(body)
<1>1. CASE encoding = "identity"
  BY <1>1 DEF Peel, Wrap
<1>2. CASE encoding # "identity"
  <2> DEFINE outer == [body EXCEPT !.layers = <<encoding>> \o body.layers]
  <2>1. body.layers \in Seq(Words) /\ <<encoding>> \in Seq(Words)
    BY DEF Bodies
  <2>2. /\ <<encoding>> \o body.layers # <<>>
        /\ Head(<<encoding>> \o body.layers) = encoding
        /\ Tail(<<encoding>> \o body.layers) = body.layers
    BY <2>1
  <2>3. outer.layers = <<encoding>> \o body.layers /\ ~outer.chunked
    BY DEF Bodies
  <2>4. [outer EXCEPT !.layers = body.layers] = body
    BY DEF Bodies
  <2>5. Wrap(body, encoding) = outer
    BY <1>2 DEF Wrap
  <2> HIDE DEF outer
  <2>6. /\ Decoded(outer).ok /\ Decoded(outer).body = outer
    BY DEF Decoded
  <2> DEFINE inner == [outer EXCEPT !.layers =
                          IF outer.layers = <<>> THEN outer.layers ELSE Tail(outer.layers)]
  <2>7. inner = body
    BY <2>2, <2>3, <2>4
  <2>8. Peel(Decoded(outer), encoding)
          = If(/\ Decoded(outer).ok /\ ~outer.chunked
               /\ outer.layers # <<>> /\ Head(outer.layers) = encoding, inner)
    BY <1>2, <2>6 DEF Peel
  <2> HIDE DEF inner
  <2>9. /\ Decoded(outer).ok /\ ~outer.chunked
        /\ outer.layers # <<>> /\ Head(outer.layers) = encoding
    BY <2>2, <2>3, <2>6
  <2> QED
    BY <2>5, <2>7, <2>8, <2>9 DEF If, Decoded
<1> QED
  BY <1>1, <1>2

LEMMA WrapKeeps ==
    ASSUME NEW body \in Bodies, NEW encoding \in Words
    PROVE  LET wrapped == Wrap(body, encoding)
           IN  /\ wrapped \in Bodies /\ wrapped.chunked = body.chunked
               /\ body # Empty => wrapped # Empty
<1> DEFINE outer == [body EXCEPT !.layers = <<encoding>> \o body.layers]
<1>1. body.layers \in Seq(Words) /\ <<encoding>> \in Seq(Words)
  BY DEF Bodies
<1>2. <<encoding>> \o body.layers \in Seq(Words) /\ <<encoding>> \o body.layers # <<>>
  BY <1>1
<1>3. outer \in Bodies /\ outer.chunked = body.chunked /\ outer.layers # <<>>
  BY <1>2 DEF Bodies
<1>4. outer # Empty
  BY <1>3 DEF Empty, Body
<1> QED
  BY <1>3, <1>4 DEF Wrap

\* The loop of EncodeContentEncoding, run by run.
LEMMA WrapLoop ==
    ASSUME NEW body \in Bodies, NEW encodings \in Seq(Words)
    PROVE  \E wrapped \in [0 .. Len(encodings) -> Bodies] :
              /\ wrapped[0] = body
              /\ \A i \in 1 .. Len(encodings) : wrapped[i] = Wrap(wrapped[i - 1], encodings[i])
              /\ \A i \in 0 .. Len(encodings) :
                    wrapped[i].chunked = body.chunked /\ (body # Empty => wrapped[i] # Empty)
              /\ Wrapped(body, encodings) = wrapped[Len(encodings)]
<1> DEFINE n == Len(encodings)
           Is(f) == f = [i \in 0 .. n |->
                           IF i = 0 THEN body ELSE Wrap(f[i - 1], encodings[i])]
           loop == CHOOSE f : Is(f)
           Same(b) == b \in Bodies /\ b.chunked = body.chunked /\ (body # Empty => b # Empty)
<1>1. n \in Nat /\ \A i \in 1 .. n : encodings[i] \in Words
  BY LenProperties, ElementOfSeq
<1>2. Wrapped(body, encodings) = loop[n]
  BY DEF Wrapped
<1> HIDE DEF n
<1>3. PICK step \in [1 .. n -> [Bodies -> Bodies]] :
         \A i \in 1 .. n, b \in Bodies : step[i][b] = Wrap(b, encodings[i])
  <2> DEFINE wrap == [i \in 1 .. n |-> [b \in Bodies |-> Wrap(b, encodings[i])]]
  <2>1. wrap \in [1 .. n -> [Bodies -> Bodies]]
    BY <1>1, WrapKeeps
  <2> QED
    BY <2>1
<1>4. PICK f \in [0 .. n -> Bodies] :
         f[0] = body /\ \A i \in 1 .. n : f[i] = step[i][f[i - 1]]
  <2>1. Loops(Bodies, body, n, step) # {}
    BY <1>1, <1>3, Recursion
  <2> QED
    BY <2>1 DEF Loops
<1>5. \A i \in 1 .. n : f[i] = Wrap(f[i - 1], encodings[i])
  <2> SUFFICES ASSUME NEW i \in 1 .. n PROVE f[i] = Wrap(f[i - 1], encodings[i])
    OBVIOUS
  <2>1. i - 1 \in 0 .. n
    BY <1>1
  <2>2. f[i - 1] \in Bodies
    BY <2>1
  <2> QED
    BY <1>3, <1>4, <2>2
<1>6. Is(f)
  <2>1. \A i \in 0 .. n : f[i] = IF i = 0 THEN body ELSE Wrap(f[i - 1], encodings[i])
    <3>1. \A i \in 0 .. n : i = 0 \/ i \in 1 .. n
      BY <1>1
    <3> QED
      BY <1>4, <1>5, <3>1
  <2>2. f = [i \in 0 .. n |-> f[i]]
    OBVIOUS
  <2> QED
    BY <2>1, <2>2
<1>7. Is(loop)
  BY <1>6
<1> HIDE DEF loop
<1>8. loop[0] = body /\ \A i \in 1 .. n : loop[i] = Wrap(loop[i - 1], encodings[i])
  <2>1. \A i \in 1 .. n : i \in 0 .. n /\ i # 0
    BY <1>1
  <2>2. 0 \in 0 .. n
    BY <1>1
  <2> QED
    BY <1>7, <2>1, <2>2
<1>9. \A i \in Nat : i \in 0 .. n => Same(loop[i])
  <2> DEFINE T == {i \in Nat : i \in 0 .. n => Same(loop[i])}
  <2>1. 0 \in T
    BY <1>8
  <2>2. ASSUME NEW i \in Nat, i \in T PROVE i + 1 \in T
    <3> SUFFICES ASSUME i + 1 \in 0 .. n PROVE Same(loop[i + 1])
      OBVIOUS
    <3>1. i + 1 \in 1 .. n /\ (i + 1) - 1 = i /\ i \in 0 .. n
      BY <1>1
    <3>2. loop[i + 1] = Wrap(loop[i], encodings[i + 1]) /\ Same(loop[i])
      BY <1>8, <2>2, <3>1
    <3>3. encodings[i + 1] \in Words
      BY <1>1, <3>1
    <3> QED
      BY <3>2, <3>3, WrapKeeps
  <2> HIDE DEF T
  <2>3. Nat \subseteq T
    BY <2>1, <2>2, SetInduction
  <2> QED
    BY <2>3 DEF T
<1>10. \A i \in 0 .. n : Same(loop[i])
  BY <1>1, <1>9
<1>11. loop \in [0 .. n -> Bodies]
  <2>1. loop = [i \in 0 .. n |-> loop[i]]
    BY <1>7
  <2> QED
    BY <1>10, <2>1
<1> QED
  BY <1>2, <1>8, <1>10, <1>11 DEF n

\* What was encoded is decoded to what it was.
LEMMA RoundTrip ==
    ASSUME NEW body \in Bodies, NEW encodings \in Seq(Words), ~body.chunked
    PROVE  /\ Unwrapped(Wrapped(body, encodings), encodings) = Decoded(body)
           /\ Wrapped(body, encodings) \in Bodies
           /\ body # Empty => Wrapped(body, encodings) # Empty
<1> DEFINE n == Len(encodings)
<1>1. PICK wrapped \in [0 .. n -> Bodies] :
         /\ wrapped[0] = body
         /\ \A i \in 1 .. n : wrapped[i] = Wrap(wrapped[i - 1], encodings[i])
         /\ \A i \in 0 .. n : wrapped[i].chunked = body.chunked /\ (body # Empty => wrapped[i] # Empty)
         /\ Wrapped(body, encodings) = wrapped[n]
  BY WrapLoop
<1>2. n \in Nat /\ \A i \in 1 .. n : encodings[i] \in Words
  BY LenProperties, ElementOfSeq
<1>3. Wrapped(body, encodings) \in Bodies
  BY <1>1, <1>2
<1>4. PICK peeled \in [0 .. n -> Results] :
         /\ peeled[0] = Decoded(Wrapped(body, encodings))
         /\ \A i \in 1 .. n : peeled[i] = Peel(peeled[i - 1], encodings[n + 1 - i])
         /\ Unwrapped(Wrapped(body, encodings), encodings) = peeled[n]
  BY <1>3, UnwrapLoop, IfTrue
<1> HIDE DEF n
<1> DEFINE T == {i \in Nat : i \in 0 .. n => peeled[i] = Decoded(wrapped[n - i])}
<1>5. 0 \in T
  BY <1>1, <1>2, <1>4
<1>6. ASSUME NEW i \in Nat, i \in T PROVE i + 1 \in T
  <2> SUFFICES ASSUME i + 1 \in 0 .. n PROVE peeled[i + 1] = Decoded(wrapped[n - (i + 1)])
    OBVIOUS
  <2>1. PICK k \in 0 .. n : k = n - (i + 1)
    BY <1>2
  <2>2. /\ k + 1 \in 1 .. n /\ (k + 1) - 1 = k /\ n - i = k + 1 /\ n + 1 - (i + 1) = k + 1
        /\ i + 1 \in 1 .. n /\ (i + 1) - 1 = i /\ i \in 0 .. n
    BY <1>2, <2>1
  <2>3. peeled[i] = Decoded(wrapped[k + 1])
    BY <1>6, <2>2
  <2>4. wrapped[k + 1] = Wrap(wrapped[k], encodings[k + 1])
    BY <1>1, <2>2
  <2>5. peeled[i + 1] = Peel(Decoded(Wrap(wrapped[k], encodings[k + 1])), encodings[k + 1])
    BY <1>4, <2>2, <2>3, <2>4
  <2>6. wrapped[k] \in Bodies /\ ~wrapped[k].chunked /\ encodings[k + 1] \in Words
    BY <1>1, <1>2, <2>2
  <2> QED
    BY <2>1, <2>5, <2>6, PeelWrap
<1> HIDE DEF T
<1>7. Nat \subseteq T
  BY <1>5, <1>6, SetInduction
<1>8. n \in T /\ n \in 0 .. n /\ n - n = 0
  BY <1>2, <1>7
<1>9. peeled[n] = Decoded(body)
  BY <1>1, <1>8 DEF T
<1> QED
  BY <1>1, <1>2, <1>3, <1>4, <1>9

-----------------------------------------------------------------------------
(* What is sent again: decoding and encoding.                              *)

LEMMA StrictFacts ==
    ASSUME NEW body \in Bodies, NEW encodings \in Seq(Words)
    PROVE  LET result == DecodeStrict(body, encodings)
           IN  /\ result \in Results
               /\ result.ok => /\ Known(encodings)
                               /\ result.body.content = body.content
                               /\ result.body.chunked = body.chunked
                               /\ body.chunked => result.body = body
                               /\ body = Empty => result.body = Empty
               /\ body = Empty /\ Known(encodings) => result.ok
<1>1. CASE Known(encodings) /\ body # Empty
  BY <1>1, UnwrappedKeeps DEF DecodeStrict
<1>2. CASE Known(encodings) /\ body = Empty
  <2>1. DecodeStrict(body, encodings) = If(TRUE, body)
    BY <1>2 DEF DecodeStrict
  <2> QED
    BY <1>2, <2>1, IfResult
<1>3. CASE ~Known(encodings)
  <2>1. DecodeStrict(body, encodings) = Refused
    BY <1>3 DEF DecodeStrict, If
  <2> QED
    BY <1>3, <2>1, EmptyIsBody DEF Refused
<1> QED
  BY <1>1, <1>2, <1>3

LEMMA EncodeFacts ==
    ASSUME NEW body \in Bodies, NEW encodings \in Seq(Words), ~body.chunked, Known(encodings)
    PROVE  LET result == Encode(body, encodings)
           IN  /\ result.ok
               /\ DecodeStrict(result.body, encodings) = Decoded(body)
<1>1. CASE body = Empty
  <2>1. Encode(body, encodings) = Decoded(body)
    BY <1>1 DEF Encode, If, Decoded
  <2>2. DecodeStrict(body, encodings) = Decoded(body)
    BY <1>1, IfTrue DEF DecodeStrict, If, Decoded
  <2> QED
    BY <2>1, <2>2 DEF Decoded
<1>2. CASE body # Empty
  <2> DEFINE outer == Wrapped(body, encodings)
  <2>1. Encode(body, encodings) = Decoded(outer)
    BY <1>2 DEF Encode, If, Decoded
  <2>2. outer # Empty /\ Unwrapped(outer, encodings) = Decoded(body)
    BY <1>2, RoundTrip
  <2>3. DecodeStrict(outer, encodings) = Decoded(body)
    BY <2>2 DEF DecodeStrict
  <2> HIDE DEF outer
  <2> QED
    BY <2>1, <2>3 DEF Decoded
<1> QED
  BY <1>1, <1>2

LEMMA DechunkedFacts ==
    ASSUME NEW body \in Bodies
    PROVE  /\ Dechunked(body) \in Bodies /\ ~Dechunked(body).chunked
           /\ ~body.chunked => Dechunked(body) = body
BY DEF Dechunked, Bodies

-----------------------------------------------------------------------------
(* What is sent again: the three protocols.                                *)

Requests == Scenarios(Seq(Words), Seq(Words), Seq(Words))

\* What is captured of a request.
Seen(s) ==
    IF s.how = "again" THEN CaptureAgain(s)
    ELSE IF s.proto = "http1" THEN CaptureHTTP1(s) ELSE CaptureHTTP2(s)

LEMMA RequestFacts ==
    ASSUME NEW s \in Requests
    PROVE  /\ s.wire \in Bodies /\ s.enc \in Seq(Words) /\ s.messages \in Seq(Words)
           /\ s.length \in BOOLEAN /\ s.grpcEnc \in BOOLEAN /\ s.hasBody \in BOOLEAN
           /\ s.proto \in {"http1", "http2", "grpc"}
           /\ s.how \in {"passed", "held", "edited", "garbled", "unfinished", "again"}
           /\ Legal(s)
BY DEF Requests, Scenarios, Bodies

LEMMA CaptureFacts ==
    ASSUME NEW s
    PROVE  LET f == Capture(s)
               m == Seen(s)
           IN  /\ f.proto = s.proto /\ f.grpcEnc = s.grpcEnc /\ f.messages = s.messages
               /\ f.request.raw = m.raw /\ f.request.wire = m.wire /\ f.request.body = m.body
               /\ f.request.rep = m.rep /\ f.request.rawEnc = s.enc /\ f.request.enc = s.enc
               /\ f.request.length = (s.length /\ s.how # "again")
BY DEF Capture, Seen

LEMMA NotAmbiguous ==
    ASSUME NEW m, m.rep = "decoded"
    PROVE  ~Ambiguous(m)
BY DEF Ambiguous

\* What BodyWithoutRaw makes of a capture that is decoded.
LEMMA WithoutRaw ==
    ASSUME NEW m, m.rep = "decoded", m.body \in Bodies, m.length \in BOOLEAN
    PROVE  LET result == BodyWithoutRaw(m)
           IN  /\ result \in Results
               /\ result.ok => result.body = m.body /\ Known(m.enc)
               /\ Known(m.enc) /\ (m.body = Empty => ~m.length) => result.ok
<1> DEFINE usable == Known(m.enc) /\ ~Ambiguous(m) /\ (m.body = Empty => ~m.length)
<1>1. BodyWithoutRaw(m) = If(usable, m.body) /\ usable \in BOOLEAN
  BY DEF BodyWithoutRaw
<1>2. usable <=> Known(m.enc) /\ (m.body = Empty => ~m.length)
  BY NotAmbiguous
<1> HIDE DEF usable
<1> QED
  BY <1>1, <1>2, IfResult

LEMMA HTTP1Sent ==
    ASSUME NEW s \in Requests, s.proto = "http1"
    PROVE  LET result == CapturedRequestBody(Capture(s))
           IN  /\ result \in Results
               /\ result.ok => Meant(s).ok /\ result.body = Meant(s).body
               /\ Meant(s).ok /\ s.how \notin {"garbled", "unfinished"} =>
                     \/ result.ok
                     \/ Meant(s).body = Empty /\ s.wire # Empty /\ s.wire.chunked
<1> DEFINE m == Capture(s).request
           w == s.wire
           e == s.enc
           logical == DecodeStrict(Dechunked(w), e)
<1>1. w \in Bodies /\ e \in Seq(Words) /\ s.length \in BOOLEAN
  BY RequestFacts
<1>2. s.how \in {"passed", "held", "edited", "garbled", "again"}
      /\ (w.chunked => s.how # "again") /\ (s.length => w # Empty /\ ~w.chunked)
      /\ (s.how = "again" => Meant(s).ok)
  BY RequestFacts DEF Legal
<1>3. /\ Dechunked(w) \in Bodies /\ ~Dechunked(w).chunked
      /\ ~w.chunked => Dechunked(w) = w
  BY <1>1, DechunkedFacts
<1>4. Meant(s) = logical
  BY DEF Meant
<1>5. logical \in Results /\ logical.body \in Bodies /\ logical.ok \in BOOLEAN
      /\ (logical.ok => Known(e))
  BY <1>1, <1>3, StrictFacts DEF Results
<1>6. /\ m.raw = Seen(s).raw /\ m.wire = Seen(s).wire /\ m.body = Seen(s).body
      /\ m.rep = Seen(s).rep /\ m.rawEnc = e /\ m.enc = e
      /\ m.length = (s.length /\ s.how # "again")
  BY CaptureFacts
<1>7. CapturedRequestBody(Capture(s)) = HTTP1Body(m)
  BY CaptureFacts DEF CapturedRequestBody
<1>8. /\ DecodeStrict(w, e) \in Results /\ DecodeStrict(w, e).body \in Bodies
      /\ w.chunked /\ DecodeStrict(w, e).ok => DecodeStrict(w, e).body = w
  BY <1>1, StrictFacts DEF Results
<1> HIDE DEF m, w, e, logical
<1>9. CASE s.how = "garbled"
  <2>1. m.rep = "unavailable"
    BY <1>6, <1>9 DEF Seen, CaptureHTTP1, Captured
  <2>2. HTTP1Body(m) = Refused
    BY <2>1 DEF HTTP1Body
  <2> QED
    BY <1>7, <1>9, <2>2, EmptyIsBody DEF Refused
<1>10. CASE s.how = "again"
  <2>1. m.raw = "none" /\ m.rep = "decoded" /\ m.body = DecodeStrict(w, e).body
    BY <1>6, <1>10 DEF Seen, CaptureAgain, Captured, w, e
  <2>2. m.body = logical.body /\ m.body \in Bodies /\ m.length = FALSE
    BY <1>2, <1>3, <1>5, <1>6, <1>10, <2>1 DEF logical
  <2>3. HTTP1Body(m) = BodyWithoutRaw(m)
    BY <2>1 DEF HTTP1Body
  <2>4. logical.ok /\ Known(m.enc)
    BY <1>2, <1>4, <1>5, <1>6, <1>10
  <2>5. /\ BodyWithoutRaw(m) \in Results /\ BodyWithoutRaw(m).ok
        /\ BodyWithoutRaw(m).body = m.body
    BY <2>1, <2>2, <2>4, WithoutRaw
  <2> QED
    BY <1>4, <1>7, <2>2, <2>3, <2>4, <2>5
<1>11. CASE s.how \in {"passed", "held", "edited"}
  <2> DEFINE matches ==
                IF w.chunked THEN m.body \in {logical.body, w}
                ELSE \/ logical.body = Empty /\ m.body = w
                     \/ m.body \in {Empty, logical.body}
             usable == m.raw = "http1" /\ m.rawEnc = m.enc /\ logical.ok /\ matches
  <2>1. m.raw = "http1" /\ m.rep # "unavailable" /\ m.wire = w
    BY <1>6, <1>11 DEF Seen, CaptureHTTP1, Captured, w
  <2>2. HTTP1Body(m) = HTTP1BodyFromRaw(m)
    BY <2>1 DEF HTTP1Body
  <2>3. HTTP1BodyFromRaw(m) = If(usable, logical.body)
    BY <1>6, <2>1 DEF HTTP1BodyFromRaw, logical
  <2>4. logical.ok => matches \/ (logical.body = Empty /\ w # Empty /\ w.chunked)
    <3> SUFFICES ASSUME logical.ok
                 PROVE  matches \/ (logical.body = Empty /\ w # Empty /\ w.chunked)
      OBVIOUS
    <3>1. CASE s.how = "edited"
      <4>1. m.body = Decode(Dechunked(w), e)
        BY <1>6, <3>1 DEF Seen, CaptureHTTP1, Captured, w, e
      <4>2. m.body = IF logical.body # Empty THEN logical.body ELSE Dechunked(w)
        BY <4>1 DEF Decode, logical
      <4>3. w.chunked => w # Empty
        BY DEF Empty, Body
      <4> QED
        BY <1>3, <4>2, <4>3
    <3>2. CASE s.how # "edited"
      <4>1. m.body = Decode(w, e)
        BY <1>6, <1>11, <3>2 DEF Seen, CaptureHTTP1, Captured, w, e
      <4>2. m.body = IF DecodeStrict(w, e).ok /\ DecodeStrict(w, e).body # Empty
                     THEN DecodeStrict(w, e).body ELSE w
        BY <4>1 DEF Decode
      <4>3. CASE w.chunked
        BY <1>8, <4>2, <4>3
      <4>4. CASE ~w.chunked
        <5>1. logical = DecodeStrict(w, e)
          BY <1>3, <4>4 DEF logical
        <5> QED
          BY <4>2, <4>4, <5>1
      <4> QED
        BY <4>3, <4>4
    <3> QED
      BY <3>1, <3>2
  <2>5. usable \in BOOLEAN /\ (usable <=> logical.ok /\ matches)
    BY <1>6, <2>1
  <2> HIDE DEF usable, matches
  <2>6. /\ If(usable, logical.body) \in Results /\ If(usable, logical.body).ok = usable
        /\ usable => If(usable, logical.body).body = logical.body
    BY <1>5, <2>5, IfResult
  <2> QED
    BY <1>4, <1>7, <2>2, <2>3, <2>4, <2>5, <2>6 DEF w
<1> QED
  BY <1>2, <1>9, <1>10, <1>11

LEMMA DecodedEmpty ==
    ASSUME NEW m, m.rep = "decoded", m.raw # "wire", m.body = Empty
    PROVE  HTTP2Body(m) = BodyWithoutRaw(m)
<1>1. HTTP2Body(m) = HTTP2BodyEmpty(m)
  BY DEF HTTP2Body
<1> QED
  BY <1>1 DEF HTTP2BodyEmpty

LEMMA HTTP2Sent ==
    ASSUME NEW s \in Requests, s.proto = "http2"
    PROVE  LET result == CapturedRequestBody(Capture(s))
           IN  /\ result \in Results
               /\ result.ok => Meant(s).ok /\ result.body = Meant(s).body
               /\ Meant(s).ok /\ s.how \notin {"garbled", "unfinished"} => result.ok
<1> DEFINE m == Capture(s).request
           w == s.wire
           e == s.enc
           logical == DecodeStrict(w, e)
<1>1. w \in Bodies /\ e \in Seq(Words) /\ s.length \in BOOLEAN
  BY RequestFacts
<1>2. /\ s.how \in {"passed", "held", "edited", "unfinished", "again"} /\ ~w.chunked
      /\ s.length => w # Empty
      /\ s.how = "passed" /\ ~s.hasBody => w = Empty
      /\ s.how = "again" => Meant(s).ok
  BY RequestFacts DEF Legal
<1>3. Meant(s) = logical
  BY <1>1, <1>2, DechunkedFacts DEF Meant
<1>4. /\ logical \in Results /\ logical.body \in Bodies /\ logical.ok \in BOOLEAN
      /\ logical.ok => Known(e) /\ (w = Empty => logical.body = Empty)
      /\ w = Empty /\ Known(e) => logical.ok
  BY <1>1, StrictFacts DEF Results
<1>5. /\ m.raw = Seen(s).raw /\ m.wire = Seen(s).wire /\ m.body = Seen(s).body
      /\ m.rep = Seen(s).rep /\ m.enc = e /\ m.length = (s.length /\ s.how # "again")
  BY CaptureFacts
<1>6. CapturedRequestBody(Capture(s)) = HTTP2Body(m)
  BY CaptureFacts DEF CapturedRequestBody
<1> HIDE DEF m, w, e, logical
\* A capture without a body.
<1>7. ASSUME m.rep = "decoded", m.raw # "wire", m.body = Empty, logical.body = Empty, ~m.length,
             Known(e) => logical.ok
      PROVE  /\ HTTP2Body(m) \in Results
             /\ HTTP2Body(m).ok => logical.ok /\ HTTP2Body(m).body = logical.body
             /\ logical.ok => HTTP2Body(m).ok
  <2>1. m.body \in Bodies /\ m.length \in BOOLEAN
    BY <1>1, <1>5, <1>7, EmptyIsBody
  <2>2. /\ BodyWithoutRaw(m) \in Results
        /\ BodyWithoutRaw(m).ok => BodyWithoutRaw(m).body = m.body /\ Known(m.enc)
        /\ Known(m.enc) /\ (m.body = Empty => ~m.length) => BodyWithoutRaw(m).ok
    BY <1>7, <2>1, WithoutRaw
  <2> QED
    BY <1>4, <1>5, <1>7, <2>2, DecodedEmpty
<1>8. CASE m.rep = "unavailable" /\ (logical.ok => s.how = "unfinished")
  <2>1. HTTP2Body(m) = Refused
    BY <1>8 DEF HTTP2Body
  <2> QED
    BY <1>3, <1>6, <1>8, <2>1, EmptyIsBody DEF Refused
<1>9. CASE s.how = "held"
  <2>1. /\ m.raw = (IF w = Empty THEN "none" ELSE "wire") /\ m.wire = w /\ m.body = w /\ m.rep = ""
    BY <1>5, <1>9 DEF Seen, CaptureHTTP2, Captured, w
  <2>2. CASE w = Empty
    <3> DEFINE usable == Known(e) /\ ~m.length
    <3>1. HTTP2Body(m) = HTTP2BodyEmpty(m)
      BY <2>1, <2>2 DEF HTTP2Body
    <3>2. HTTP2BodyEmpty(m) = If(usable, Empty)
      BY <1>5, <2>1, <2>2 DEF HTTP2BodyEmpty
    <3>3. usable <=> Known(e)
      BY <1>2, <1>5, <2>2 DEF w
    <3>4. usable \in BOOLEAN
      OBVIOUS
    <3> HIDE DEF usable
    <3>5. /\ If(usable, Empty) \in Results /\ If(usable, Empty).ok = usable
          /\ usable => If(usable, Empty).body = Empty
      BY <3>4, IfResult, EmptyIsBody
    <3> QED
      BY <1>3, <1>4, <1>6, <2>2, <3>1, <3>2, <3>3, <3>5
  <2>3. CASE w # Empty
    <3>1. HTTP2Body(m) = logical
      BY <1>5, <2>1, <2>3 DEF HTTP2Body, logical
    <3> QED
      BY <1>3, <1>4, <1>6, <3>1
  <2> QED
    BY <2>2, <2>3
<1>10. CASE s.how = "again"
  <2>1. m.raw = "none" /\ m.rep = "decoded" /\ m.body = logical.body
    BY <1>5, <1>10 DEF Seen, CaptureAgain, Captured, w, e, logical
  <2>2. logical.ok /\ Known(e) /\ m.length = FALSE
    BY <1>2, <1>3, <1>4, <1>5, <1>10
  <2>3. CASE m.body = Empty
    BY <1>3, <1>6, <1>7, <2>1, <2>2, <2>3
  <2>4. CASE m.body # Empty
    <3>1. Known(m.enc) /\ ~Ambiguous(m)
      BY <1>5, <2>1, <2>2, NotAmbiguous
    <3>2. HTTP2Body(m) = If(Known(m.enc) /\ ~Ambiguous(m), m.body)
      BY <2>1, <2>4 DEF HTTP2Body
    <3>3. HTTP2Body(m) = Decoded(m.body)
      BY <3>1, <3>2 DEF If, Decoded
    <3> QED
      BY <1>3, <1>4, <1>6, <2>1, <2>2, <3>3 DEF Decoded, Results
  <2> QED
    BY <2>3, <2>4
<1>11. CASE s.how = "passed" /\ ~s.hasBody
  <2>1. m.raw = "dump" /\ m.rep = "decoded" /\ m.body = Empty /\ w = Empty
    BY <1>2, <1>5, <1>11 DEF Seen, CaptureHTTP2, Captured
  <2>2. ~m.length
    BY <1>2, <1>5, <2>1
  <2>3. (Known(e) => logical.ok) /\ (logical.ok => logical.body = Empty)
    BY <1>4, <2>1
  <2>4. CASE logical.ok
    BY <1>3, <1>6, <1>7, <2>1, <2>2, <2>3, <2>4
  <2>5. CASE ~logical.ok
    <3>1. /\ BodyWithoutRaw(m) \in Results /\ ~BodyWithoutRaw(m).ok
      <4>1. m.body \in Bodies /\ m.length \in BOOLEAN /\ m.rep = "decoded" /\ ~Known(m.enc)
        BY <1>5, <2>1, <2>2, <2>3, <2>5, <1>1, EmptyIsBody
      <4> QED
        BY <4>1, WithoutRaw DEF Results
    <3> QED
      BY <1>3, <1>6, <2>1, <2>5, <3>1, DecodedEmpty
  <2> QED
    BY <2>4, <2>5
<1>12. CASE s.how \in {"passed", "edited"} /\ ~(s.how = "passed" /\ ~s.hasBody)
  <2>1. Seen(s) = Finished(s.proto, w, e)
    BY <1>12 DEF Seen, CaptureHTTP2, w, e
  <2> DEFINE raw == IF w = Empty THEN "none" ELSE "wire"
  <2>2. Seen(s) = IF logical.ok THEN Captured(raw, w, logical.body, "decoded")
                  ELSE Captured(raw, w, w, "unavailable")
    BY <2>1 DEF Finished, logical
  <2>3. CASE ~logical.ok
    <3>1. m.rep = "unavailable"
      BY <1>5, <2>2, <2>3 DEF Captured
    <3> QED
      BY <1>8, <2>3, <3>1
  <2>4. CASE logical.ok
    <3>1. m.raw = raw /\ m.wire = w /\ m.body = logical.body /\ m.rep = "decoded"
      BY <1>5, <2>2, <2>4 DEF Captured
    <3>2. CASE w = Empty
      <4>1. ~m.length /\ logical.body = Empty /\ m.raw = "none"
        BY <1>2, <1>4, <1>5, <2>4, <3>1, <3>2 DEF w
      <4> QED
        BY <1>3, <1>6, <1>7, <2>4, <3>1, <4>1
    <3>3. CASE w # Empty
      <4>1. HTTP2Body(m) = If(logical.ok /\ logical.body = m.body, logical.body)
        BY <1>5, <3>1, <3>3 DEF HTTP2Body, logical
      <4>2. HTTP2Body(m) = Decoded(logical.body)
        BY <2>4, <3>1, <4>1 DEF If, Decoded
      <4> QED
        BY <1>3, <1>4, <1>6, <2>4, <4>2 DEF Decoded, Results
    <3> QED
      BY <3>2, <3>3
  <2> QED
    BY <2>3, <2>4
<1>13. CASE s.how = "unfinished"
  <2>1. m.rep = "unavailable"
    BY <1>5, <1>13 DEF Seen, CaptureHTTP2, Captured
  <2> QED
    BY <1>8, <1>13, <2>1
<1> QED
  BY <1>2, <1>9, <1>10, <1>11, <1>12, <1>13

LEMMA GRPCWireFacts ==
    ASSUME NEW body \in Bodies, NEW encodings \in Seq(Words), ~body.chunked
    PROVE  LET result == GRPCWire(body, encodings)
           IN  /\ result \in Results
               /\ result.ok => /\ Known(encodings)
                               /\ result.body = Body(<<>>, body.content)
                               /\ "part" \notin ToSet(body.content)
               /\ body = Empty /\ Known(encodings) => result.ok
<1> DEFINE framed == DecodeStrict(body, encodings)
           whole == framed.ok /\ framed.body.layers = <<>> /\ "part" \notin ToSet(framed.body.content)
<1>1. /\ framed \in Results /\ framed.body \in Bodies
      /\ framed.ok => /\ Known(encodings)
                      /\ framed.body.content = body.content
                      /\ ~framed.body.chunked
                      /\ body = Empty => framed.body = Empty
      /\ body = Empty /\ Known(encodings) => framed.ok
  BY StrictFacts DEF Results
<1>2. GRPCWire(body, encodings) = If(whole, framed.body) /\ whole \in BOOLEAN
  BY <1>1 DEF GRPCWire, Results
<1>3. body = Empty /\ Known(encodings) => whole
  BY <1>1 DEF Empty, Body, ToSet
<1>4. whole => framed.body = Body(<<>>, body.content)
  BY <1>1 DEF Body, Bodies
<1>5. whole => Known(encodings) /\ "part" \notin ToSet(body.content)
  BY <1>1
<1> HIDE DEF whole, framed
<1>6. If(whole, framed.body) \in Results /\ If(whole, framed.body).ok = whole
      /\ (whole => If(whole, framed.body).body = framed.body)
  BY <1>1, <1>2, IfResult
<1> QED
  BY <1>2, <1>3, <1>4, <1>5, <1>6

\* What the server made of a body of messages.
LEMMA MeantByGRPC ==
    ASSUME NEW s \in Requests, s.proto = "grpc"
    PROVE  LET read == GRPCWire(s.wire, s.enc)
               usable == "z" \in ToSet(s.wire.content) => s.grpcEnc
           IN  /\ Meant(s) \in Results
               /\ Meant(s).ok <=> read.ok /\ usable
               /\ Meant(s).ok => /\ Meant(s).body = Body(<<>>, s.wire.content)
                                 /\ Known(s.enc)
<1> DEFINE read == GRPCWire(s.wire, s.enc)
           readable == read.ok /\ ("z" \in ToSet(read.body.content) => s.grpcEnc)
<1>1. s.wire \in Bodies /\ s.enc \in Seq(Words) /\ ~s.wire.chunked /\ s.grpcEnc \in BOOLEAN
  BY RequestFacts DEF Legal
<1>2. /\ read \in Results /\ read.body \in Bodies
      /\ read.ok => Known(s.enc) /\ read.body = Body(<<>>, s.wire.content)
  BY <1>1, GRPCWireFacts DEF Results
<1>3. read.ok => read.body.content = s.wire.content
  BY <1>2 DEF Body
<1>4. Meant(s) = If(readable, read.body) /\ readable \in BOOLEAN
  BY <1>1, <1>2 DEF Meant, Results
<1>5. readable <=> read.ok /\ ("z" \in ToSet(s.wire.content) => s.grpcEnc)
  BY <1>3
<1> HIDE DEF readable, read
<1>6. If(readable, read.body) \in Results /\ If(readable, read.body).ok = readable
      /\ (readable => If(readable, read.body).body = read.body)
  BY <1>2, <1>4, IfResult
<1> QED
  BY <1>2, <1>4, <1>5, <1>6 DEF read

LEMMA WholeIsComplete ==
    ASSUME NEW content \in Seq(Words), "part" \notin ToSet(content)
    PROVE  Complete(content) = content
<1> SUFFICES ASSUME content # <<>> PROVE Last(content) \in ToSet(content)
  BY DEF Complete
<1>1. Len(content) \in DOMAIN content
  OBVIOUS
<1> QED
  BY <1>1 DEF Last, ToSet

\* The two parts of GRPCBody: what the flow tells of the messages, ...
Told(f) ==
    LET m == f.request
        parsed == GRPCWire(m.body, m.enc)
    IN  IF m.body # Empty /\ (m.rep = "decoded" \/ f.messages = <<>>)
        THEN If(/\ m.rep = "decoded" /\ m.raw = "wire" => m.wire = m.body
                /\ parsed.ok
                /\ f.messages \in {<<>>, parsed.body.content}, parsed.body)
        ELSE If(TRUE, Body(<<>>, f.messages))

\* ... and whether they can be sent again.
Usable(f, result) ==
    LET m == f.request
        content == result.body.content
    IN  /\ m.rep # "unavailable" /\ result.ok
        /\ content = <<>> => ~m.length /\ (m.rep = "decoded" \/ m.raw # "dump")
        /\ "z" \in ToSet(content) => f.grpcEnc

LEMMA GRPCResult ==
    ASSUME NEW f, Told(f) \in Results, f.grpcEnc \in BOOLEAN, f.request.length \in BOOLEAN
    PROVE  /\ GRPCBody(f) \in Results /\ GRPCBody(f).ok = Usable(f, Told(f))
           /\ Usable(f, Told(f)) => GRPCBody(f).body = Told(f).body
<1> DEFINE usable == Usable(f, Told(f))
           body == Told(f).body
<1>1. GRPCBody(f) = If(usable, body)
  BY DEF GRPCBody, Told, Usable
<1>2. usable \in BOOLEAN /\ body \in Bodies
  BY DEF Results, Usable
<1> HIDE DEF usable, body
<1>3. If(usable, body) \in Results /\ If(usable, body).ok = usable
      /\ (usable => If(usable, body).body = body)
  BY <1>2, IfResult
<1> QED
  BY <1>1, <1>3 DEF usable, body

LEMMA GRPCSent ==
    ASSUME NEW s \in Requests, s.proto = "grpc"
    PROVE  LET result == CapturedRequestBody(Capture(s))
           IN  /\ result \in Results
               /\ result.ok /\ Known(s.enc) => Meant(s).ok /\ result.body = Meant(s).body
               /\ Meant(s).ok /\ s.how \notin {"garbled", "unfinished"} =>
                     result.ok \/ (Meant(s).body = Empty /\ s.wire # Empty)
<1> DEFINE f == Capture(s)
           m == f.request
           w == s.wire
           e == s.enc
           given == Told(f)
<1>1. /\ w \in Bodies /\ e \in Seq(Words) /\ s.messages \in Seq(Words)
      /\ s.length \in BOOLEAN /\ s.grpcEnc \in BOOLEAN
  BY RequestFacts
<1>2. /\ s.how \in {"passed", "edited", "unfinished", "again"} /\ ~w.chunked
      /\ s.length => w # Empty
      /\ s.how = "passed" /\ ~s.hasBody => w = Empty
      /\ s.how = "again" => Meant(s).ok
      /\ s.messages = IF s.how = "again" THEN Meant(s).body.content
                      ELSE IF w.layers # <<>> THEN <<>> ELSE Complete(w.content)
  BY RequestFacts DEF Legal
<1>3. /\ Meant(s) \in Results
      /\ Meant(s).ok <=> GRPCWire(w, e).ok /\ ("z" \in ToSet(w.content) => s.grpcEnc)
      /\ Meant(s).ok => Meant(s).body = Body(<<>>, w.content) /\ Known(e)
  BY MeantByGRPC
<1>4. /\ GRPCWire(w, e) \in Results /\ GRPCWire(w, e).body \in Bodies
      /\ GRPCWire(w, e).ok => /\ Known(e)
                              /\ GRPCWire(w, e).body = Body(<<>>, w.content)
                              /\ "part" \notin ToSet(w.content)
      /\ w = Empty /\ Known(e) => GRPCWire(w, e).ok
  BY <1>1, <1>2, GRPCWireFacts DEF Results
<1>5. /\ m.raw = Seen(s).raw /\ m.wire = Seen(s).wire /\ m.body = Seen(s).body
      /\ m.rep = Seen(s).rep /\ m.enc = e /\ m.length = (s.length /\ s.how # "again")
      /\ f.grpcEnc = s.grpcEnc /\ f.messages = s.messages
  BY CaptureFacts
<1>6. CapturedRequestBody(f) = GRPCBody(f)
  BY CaptureFacts DEF CapturedRequestBody
<1>7. w.content \in Seq(Words) /\ Empty.content = <<>> /\ Body(<<>>, <<>>) = Empty
  BY <1>1 DEF Bodies, Empty, Body
<1>8. f.grpcEnc \in BOOLEAN /\ m.length \in BOOLEAN
  BY <1>1, <1>5
<1>9. ASSUME given \in Results
      PROVE  /\ GRPCBody(f) \in Results /\ GRPCBody(f).ok = Usable(f, given)
             /\ Usable(f, given) => GRPCBody(f).body = given.body
  BY <1>8, <1>9, GRPCResult
<1> DEFINE messages == Body(<<>>, s.messages)
<1>10. /\ messages \in Bodies /\ Decoded(messages) \in Results
       /\ Decoded(messages).ok /\ Decoded(messages).body = messages
       /\ messages.content = s.messages
  BY <1>1 DEF Decoded, Results, Bodies, Body
<1>11. m.body = Empty => given = Decoded(messages)
  BY <1>5, IfTrue DEF Told
<1> HIDE DEF messages
<1>12. CASE m.rep = "unavailable" /\ s.how = "unfinished"
  <2>1. GRPCBody(f) = Refused
    BY <1>12 DEF GRPCBody, If
  <2> QED
    BY <1>6, <1>12, <2>1, EmptyIsBody DEF Refused
<1> HIDE DEF f, m, w, e
<1>13. CASE s.how = "unfinished"
  <2>1. m.rep = "unavailable"
    BY <1>5, <1>13 DEF Seen, CaptureHTTP2, Captured
  <2> QED
    BY <1>12, <1>13, <2>1
<1>14. CASE s.how = "again"
  <2>1. m.raw = "none" /\ m.rep = "decoded" /\ m.body = Empty /\ ~m.length
    BY <1>5, <1>14 DEF Seen, CaptureAgain, Captured
  <2>2. s.messages = w.content /\ messages = Meant(s).body
    <3>1. Meant(s).body = Body(<<>>, w.content) /\ s.messages = Meant(s).body.content
      BY <1>2, <1>3, <1>14
    <3>2. Meant(s).body.content = w.content
      BY <3>1 DEF Body
    <3> QED
      BY <3>1, <3>2 DEF messages
  <2>3. given = Decoded(messages)
    BY <1>11, <2>1
  <2> HIDE DEF given
  <2>4. Usable(f, given)
    BY <1>2, <1>3, <1>5, <1>10, <1>14, <2>1, <2>2, <2>3 DEF Usable, m
  <2>5. GRPCBody(f) \in Results /\ GRPCBody(f).ok = TRUE /\ GRPCBody(f).body = messages
    BY <1>9, <1>10, <2>3, <2>4
  <2> QED
    BY <1>2, <1>6, <1>14, <2>2, <2>5 DEF f
<1>15. CASE /\ s.how \in {"passed", "edited"} /\ w = Empty
            /\ m.raw # "wire" /\ m.body = Empty /\ m.rep = "decoded"
  <2>1. s.messages = <<>> /\ w.content = <<>>
    BY <1>2, <1>7, <1>15 DEF Complete, Empty, Body
  <2>2. messages = Empty /\ given = Decoded(messages)
    BY <1>7, <1>11, <1>15, <2>1 DEF messages
  <2> HIDE DEF given
  <2>3. "z" \notin ToSet(<<>>)
    BY DEF ToSet
  <2>4. Usable(f, given)
    BY <1>2, <1>5, <1>10, <1>15, <2>1, <2>2, <2>3 DEF Usable, m
  <2>5. GRPCBody(f) \in Results /\ GRPCBody(f).ok = TRUE /\ GRPCBody(f).body = Empty
    BY <1>9, <1>10, <2>2, <2>4
  <2>6. Known(e) => Meant(s).ok
    BY <1>3, <1>4, <1>15, <2>1, <2>3
  <2>7. Meant(s).ok => Meant(s).body = Empty
    BY <1>3, <1>7, <2>1
  <2> QED
    BY <1>6, <2>5, <2>6, <2>7 DEF f, e
<1>16. CASE /\ s.how \in {"passed", "edited"} /\ w # Empty
            /\ m.raw = "wire" /\ m.wire = w /\ m.body = w /\ m.rep = "decoded"
  <2> DEFINE read == GRPCWire(w, e)
             fits == /\ m.rep = "decoded" /\ m.raw = "wire" => m.wire = m.body
                     /\ read.ok
                     /\ s.messages \in {<<>>, read.body.content}
  <2>1. given = If(fits, read.body)
    BY <1>5, <1>16 DEF Told, m
  <2>2. read.ok => read.body.content = w.content /\ Complete(w.content) = w.content
    BY <1>4, <1>7, WholeIsComplete DEF Body
  <2>3. fits <=> read.ok
    BY <1>2, <1>16, <2>2
  <2>4. read \in Results /\ read.body \in Bodies /\ fits \in BOOLEAN
    BY <1>4
  <2>5. read.ok => read.body = Body(<<>>, w.content) /\ Known(e)
    BY <1>4
  <2>6. Meant(s).ok <=> read.ok /\ ("z" \in ToSet(w.content) => s.grpcEnc)
    BY <1>3
  <2> HIDE DEF read, fits
  <2>7. given \in Results /\ given.ok = fits /\ (fits => given.body = read.body)
    BY <2>1, <2>4, IfResult
  <2> HIDE DEF given
  <2>8. Usable(f, given) => Meant(s).ok
    BY <1>5, <2>2, <2>3, <2>6, <2>7 DEF Usable, m
  <2>9. Meant(s).ok => Usable(f, given) \/ w.content = <<>>
    BY <1>5, <1>16, <2>2, <2>3, <2>4, <2>6, <2>7 DEF Usable, m
  <2>10. Usable(f, given) => given.body = Meant(s).body
    BY <1>3, <2>3, <2>5, <2>7, <2>8 DEF Usable
  <2>11. Meant(s).ok /\ w.content = <<>> => Meant(s).body = Empty
    BY <1>3, <1>7
  <2> QED
    BY <1>6, <1>9, <1>16, <2>7, <2>8, <2>9, <2>10, <2>11 DEF f, w
<1>17. CASE s.how \in {"passed", "edited"}
  <2>1. CASE s.how = "passed" /\ ~s.hasBody
    <3>1. m.raw = "dump" /\ m.rep = "decoded" /\ m.body = Empty /\ w = Empty
      BY <1>2, <1>5, <2>1 DEF Seen, CaptureHTTP2, Captured
    <3> QED
      BY <1>15, <1>17, <3>1
  <2>2. CASE ~(s.how = "passed" /\ ~s.hasBody)
    <3>1. Seen(s) = Finished(s.proto, w, e)
      BY <1>17, <2>2 DEF Seen, CaptureHTTP2, w, e
    <3>2. /\ m.raw = (IF w = Empty THEN "none" ELSE "wire")
          /\ m.wire = w /\ m.body = w /\ m.rep = "decoded"
      BY <1>5, <3>1 DEF Finished, Captured
    <3> QED
      BY <1>15, <1>16, <1>17, <3>2
  <2> QED
    BY <2>1, <2>2
<1> QED
  BY <1>2, <1>13, <1>14, <1>17

LEMMA SentAsMeant ==
    ASSUME NEW s \in Requests
    PROVE  SentAgainAsMeant(s)
<1> DEFINE f == Capture(s)
           result == CapturedRequestBody(f)
           again == EncodeRequestBody(f, result.body)
           usable == s.proto = "grpc" /\ "z" \in ToSet(result.body.content) => s.grpcEnc
<1>1. s \in Requests
  OBVIOUS
<1>2. /\ s.enc \in Seq(Words) /\ s.wire \in Bodies
      /\ s.proto \in {"http1", "http2", "grpc"}
  BY <1>1, RequestFacts
<1>3. /\ result \in Results
      /\ result.ok /\ Known(s.enc) => Meant(s).ok /\ result.body = Meant(s).body
      /\ Meant(s).ok /\ s.how \notin {"garbled", "unfinished"} =>
            \/ result.ok
            \/ Meant(s).body = Empty /\ s.wire # Empty /\ (s.wire.chunked \/ s.proto = "grpc")
  BY <1>1, <1>2, HTTP1Sent, HTTP2Sent, GRPCSent
<1>4. /\ Meant(s) \in Results
      /\ Meant(s).ok => /\ ~Meant(s).body.chunked /\ Known(s.enc)
                        /\ s.proto = "grpc" /\ "z" \in ToSet(Meant(s).body.content) => s.grpcEnc
  <2>1. CASE s.proto = "grpc"
    <3>1. /\ Meant(s) \in Results
          /\ Meant(s).ok => /\ "z" \in ToSet(s.wire.content) => s.grpcEnc
                            /\ Meant(s).body = Body(<<>>, s.wire.content) /\ Known(s.enc)
      BY <1>1, <2>1, MeantByGRPC
    <3>2. /\ ~Body(<<>>, s.wire.content).chunked
          /\ Body(<<>>, s.wire.content).content = s.wire.content
      BY DEF Body
    <3> QED
      BY <3>1, <3>2
  <2>2. CASE s.proto # "grpc"
    <3>1. Meant(s) = DecodeStrict(Dechunked(s.wire), s.enc)
      BY <2>2 DEF Meant
    <3> QED
      BY <1>2, <2>2, <3>1, DechunkedFacts, StrictFacts
  <2> QED
    BY <2>1, <2>2
<1>5. again = IF usable THEN Encode(result.body, s.enc) ELSE Refused
  BY CaptureFacts DEF EncodeRequestBody
<1>6. again.ok => Known(s.enc)
  BY <1>5 DEF Encode, If, Refused
<1>7. ASSUME result.ok, Known(s.enc)
      PROVE  again.ok /\ DecodeStrict(again.body, s.enc) = Decoded(result.body)
  <2>1. result.body \in Bodies /\ ~result.body.chunked /\ usable
    BY <1>3, <1>4, <1>7 DEF Results
  <2> QED
    BY <1>2, <1>5, <1>7, <2>1, EncodeFacts
<1>8. ASSUME result.ok, Known(s.enc) PROVE Meant(s) = Decoded(result.body)
  BY <1>3, <1>4, <1>8 DEF Results, Decoded
<1> HIDE DEF f, result, again, usable
<1> QED
  BY <1>3, <1>4, <1>6, <1>7, <1>8 DEF SentAgainAsMeant, f, result, again

-----------------------------------------------------------------------------
(* The bodies that are sent again: the theorems.                           *)

LEMMA SequencesOfWords ==
    /\ Seq(STRING) \subseteq Seq(Words) /\ <<>> \in Seq(Words)
    /\ \A x, y \in Words : <<x>> \in Seq(Words) /\ <<x, y>> \in Seq(Words)
<1>1. ASSUME NEW names \in Seq(STRING) PROVE names \in Seq(Words)
  <2>1. Len(names) \in Nat /\ names \in [1 .. Len(names) -> STRING]
    BY LenProperties
  <2>2. names \in [1 .. Len(names) -> Words]
    BY <2>1 DEF Words
  <2> QED
    BY <2>1, <2>2
<1>2. ASSUME NEW x \in Words, NEW y \in Words
      PROVE  <<x>> \in Seq(Words) /\ <<x, y>> \in Seq(Words)
  <2>1. <<x>> \in Seq(Words)
    OBVIOUS
  <2>2. <<x, y>> \in [1 .. 2 -> Words]
    OBVIOUS
  <2> QED
    BY <2>1, <2>2
<1> QED
  BY <1>1, <1>2, EmptySeq

\* Whatever the layers and the pieces of a body and whatever encodings are named,
\* known or not: Repeater and replay send the body that the server got, or nothing,
\* and refuse no request whose capture is complete (but the two kinds that
\* SentAgainAsMeant names).
THEOREM BodiesAreSentAsMeant ==
    ASSUME NEW s \in Scenarios(Seq(STRING), Seq(STRING), Seq(STRING))
    PROVE  SentAgainAsMeant(s)
<1>1. s \in Requests
  BY SequencesOfWords DEF Requests, Scenarios
<1> QED
  BY <1>1, SentAsMeant

\* What the run checks of it is a part of that.
THEOREM BodiesOfTheRun == RepSpec => []BodySentAgain
<1>1. BodySentAgain
  <2> DEFINE layers == {<<>>, <<"gzip">>, <<"br">>, <<"gzip", "br">>}
             contents == {<<>>, <<"m">>, <<"z">>, <<"m", "z">>, <<"m", "part">>}
             encodings == {<<>>, <<"identity">>, <<"gzip">>, <<"br", "gzip">>, <<"bad">>}
  <2>1. /\ layers \subseteq Seq(Words) /\ contents \subseteq Seq(Words)
        /\ encodings \subseteq Seq(Words)
    <3>1. {"identity", "gzip", "br", "bad", "m", "z", "part"} \subseteq Words
      BY DEF Words
    <3>2. layers \subseteq Seq(Words)
      BY <3>1, SequencesOfWords
    <3>3. contents \subseteq Seq(Words)
      BY <3>1, SequencesOfWords
    <3>4. encodings \subseteq Seq(Words)
      BY <3>1, SequencesOfWords
    <3> QED
      BY <3>2, <3>3, <3>4
  <2> HIDE DEF layers, contents, encodings
  <2>2. ASSUME NEW s \in Scenarios(layers, contents, encodings) PROVE SentAgainAsMeant(s)
    <3>1. s \in Requests
      BY <2>1 DEF Requests, Scenarios
    <3> QED
      BY <3>1, SentAsMeant
  <2> QED
    BY <2>2 DEF BodySentAgain, layers, contents, encodings
<1> QED
  BY <1>1, PTL

-----------------------------------------------------------------------------
(* The framing of gRPC messages: draining a buffer.                        *)

\* Bytes as they come, whole messages, and what drain makes of a buffer.
Bytes == Seq(Nat)
Messages == [compressed : BOOLEAN, data : Bytes]
Draining == [messages : Seq(Messages), rest : Bytes]

\* What every turn keeps holds of every turn.
LEMMA LoopInduction ==
    ASSUME NEW S, NEW n \in Nat, NEW loop, loop[0] \in S,
           \A i \in 0 .. n : i < n /\ loop[i] \in S => loop[i + 1] \in S
    PROVE  \A i \in 0 .. n : loop[i] \in S
<1> DEFINE T == {i \in Nat : i <= n => loop[i] \in S}
<1>1. 0 \in T
  OBVIOUS
<1>2. \A i \in Nat : i \in T => i + 1 \in T
  OBVIOUS
<1> HIDE DEF T
<1>3. Nat \subseteq T
  BY <1>1, <1>2, SetInduction
<1> QED
  BY <1>3 DEF T

LEMMA MessageFits ==
    ASSUME NEW buf \in Bytes, HasMessage(buf)
    PROVE  /\ Len(buf) \in Nat /\ buf[1] \in Nat /\ buf[2] \in Nat
           /\ HeaderSize + buf[2] <= Len(buf)
           /\ First(buf) \in Messages
           /\ Rest(buf) \in Bytes
           /\ Len(Rest(buf)) = Len(buf) - (HeaderSize + buf[2])
           /\ Len(Rest(buf)) < Len(buf)
<1>1. Len(buf) \in Nat /\ \A i \in 1 .. Len(buf) : buf[i] \in Nat
  BY LenProperties, ElementOfSeq DEF Bytes
<1>2. buf[1] \in Nat /\ buf[2] \in Nat /\ HeaderSize + buf[2] <= Len(buf)
  BY <1>1 DEF HasMessage, HeaderSize
<1>3. SubSeq(buf, HeaderSize + 1, HeaderSize + buf[2]) \in Bytes
  <2>1. \A i \in HeaderSize + 1 .. HeaderSize + buf[2] : buf[i] \in Nat
    BY <1>1, <1>2 DEF HeaderSize
  <2>2. HeaderSize + 1 \in Int /\ HeaderSize + buf[2] \in Int
    BY <1>2 DEF HeaderSize
  <2> QED
    BY <2>1, <2>2, SubSeqProperties DEF Bytes
<1>4. First(buf) \in Messages
  BY <1>3 DEF First, Messages
<1>5. /\ Rest(buf) \in Bytes
      /\ Len(Rest(buf)) = Len(buf) - (HeaderSize + buf[2])
  <2> DEFINE a == HeaderSize + buf[2] + 1
             b == Len(buf)
  <2>1. a \in Int /\ b \in Int /\ a >= 1
    BY <1>1, <1>2 DEF HeaderSize
  <2>2. \A i \in a .. b : buf[i] \in Nat
    BY <1>1, <2>1
  <2>3. SubSeq(buf, a, b) \in Seq(Nat) /\ Len(SubSeq(buf, a, b)) = IF a <= b THEN b - a + 1 ELSE 0
    <3> HIDE DEF a, b
    <3> QED
      BY <2>1, <2>2, SubSeqProperties
  <2> QED
    BY <1>1, <1>2, <2>3 DEF Rest, Bytes, HeaderSize
<1> QED
  BY <1>1, <1>2, <1>4, <1>5 DEF HeaderSize

\* A turn of the loop.
LEMMA TakeKeeps ==
    ASSUME NEW s \in Draining
    PROVE  TakeMessage(s) \in Draining
<1>1. s.rest \in Bytes /\ s.messages \in Seq(Messages)
  BY DEF Draining
<1>2. CASE HasMessage(s.rest)
  <2>1. First(s.rest) \in Messages /\ Rest(s.rest) \in Bytes
    BY <1>1, <1>2, MessageFits
  <2>2. Append(s.messages, First(s.rest)) \in Seq(Messages)
    BY <1>1, <2>1, AppendProperties
  <2> QED
    BY <1>2, <2>1, <2>2 DEF TakeMessage, Draining
<1> QED
  BY <1>2 DEF TakeMessage

Nothing(buf) == [messages |-> <<>>, rest |-> buf]

\* The loop of drain, turn by turn.
LEMMA DrainLoop ==
    ASSUME NEW buf \in Bytes
    PROVE  \E drained \in [0 .. Len(buf) -> Draining] :
              /\ drained[0] = Nothing(buf)
              /\ \A i \in 0 .. Len(buf) :
                    i < Len(buf) => drained[i + 1] = TakeMessage(drained[i])
              /\ Drain(buf) = drained[Len(buf)]
<1> DEFINE n == Len(buf)
           Is(f) == f = [i \in 0 .. n |->
                           IF i = 0 THEN [messages |-> <<>>, rest |-> buf]
                           ELSE TakeMessage(f[i - 1])]
           loop == CHOOSE f : Is(f)
<1>1. n \in Nat
  BY LenProperties DEF Bytes
<1>2. Drain(buf) = loop[n]
  BY DEF Drain
<1> HIDE DEF n
<1>3. Nothing(buf) \in Draining
  BY EmptySeq DEF Nothing, Draining
<1>4. PICK f \in [0 .. n -> Draining] :
         f[0] = Nothing(buf) /\ \A i \in 1 .. n : f[i] = TakeMessage(f[i - 1])
  <2> DEFINE step == [i \in 1 .. n |-> [s \in Draining |-> TakeMessage(s)]]
  <2>1. step \in [1 .. n -> [Draining -> Draining]]
    BY TakeKeeps
  <2> HIDE DEF step
  <2>2. PICK f \in Loops(Draining, Nothing(buf), n, step) : TRUE
    <3>1. PICK base \in Draining : base = Nothing(buf)
      BY <1>3
    <3>2. Loops(Draining, base, n, step) # {}
      BY <1>1, <2>1, Recursion
    <3> QED
      BY <3>1, <3>2
  <2>3. f \in [0 .. n -> Draining] /\ f[0] = Nothing(buf)
    BY <2>2 DEF Loops
  <2>4. ASSUME NEW i \in 1 .. n PROVE f[i] = TakeMessage(f[i - 1])
    <3>1. i - 1 \in 0 .. n
      BY <1>1
    <3>2. f[i - 1] \in Draining
      BY <2>3, <3>1
    <3>3. f[i] = step[i][f[i - 1]]
      BY <2>2 DEF Loops
    <3> QED
      BY <3>2, <3>3 DEF step
  <2> QED
    BY <2>3, <2>4
<1>5. Is(f)
  <2>1. \A i \in 0 .. n : f[i] = IF i = 0 THEN [messages |-> <<>>, rest |-> buf]
                                 ELSE TakeMessage(f[i - 1])
    <3>1. \A i \in 0 .. n : i = 0 \/ i \in 1 .. n
      BY <1>1
    <3> QED
      BY <1>4, <3>1 DEF Nothing
  <2>2. f = [i \in 0 .. n |-> f[i]]
    BY <1>4
  <2> QED
    BY <2>1, <2>2
<1>6. Is(loop)
  BY <1>5
<1> HIDE DEF loop
<1>7. loop[0] = Nothing(buf) /\ \A i \in 0 .. n : i < n => loop[i + 1] = TakeMessage(loop[i])
  <2>1. 0 \in 0 .. n /\ \A i \in 0 .. n : i < n => i + 1 \in 0 .. n /\ i + 1 # 0 /\ (i + 1) - 1 = i
    BY <1>1
  <2> QED
    BY <1>6, <2>1 DEF Nothing
<1>8. \A i \in 0 .. n : loop[i] \in Draining
  BY <1>1, <1>3, <1>7, TakeKeeps, LoopInduction
<1>9. loop \in [0 .. n -> Draining]
  <2>1. loop = [i \in 0 .. n |-> loop[i]]
    BY <1>6
  <2> QED
    BY <1>8, <2>1
<1> QED
  BY <1>2, <1>7, <1>9 DEF n

\* The loop stops at a message that is not whole, and never runs out of turns before.
LEMMA DrainStops ==
    ASSUME NEW buf \in Bytes
    PROVE  /\ Drain(buf) \in Draining
           /\ ~HasMessage(Drain(buf).rest)
           /\ ~HasMessage(buf) => Drain(buf) = Nothing(buf)
<1> DEFINE n == Len(buf)
<1>1. PICK d \in [0 .. n -> Draining] :
         /\ d[0] = Nothing(buf)
         /\ \A i \in 0 .. n : i < n => d[i + 1] = TakeMessage(d[i])
         /\ Drain(buf) = d[n]
  BY DrainLoop
<1>2. n \in Nat
  BY LenProperties DEF Bytes
<1> DEFINE Left == {s \in Draining : ~HasMessage(s.rest)}
           Fits(i) == i <= n /\ HasMessage(d[i].rest) => Len(d[i].rest) + i <= n
           T == {i \in Nat : Fits(i)}
<1>3. Drain(buf) \in Draining
  BY <1>1, <1>2
<1>4. ~HasMessage(buf) => Drain(buf) = Nothing(buf)
  <2> SUFFICES ASSUME ~HasMessage(buf) PROVE Drain(buf) = Nothing(buf)
    OBVIOUS
  <2>1. TakeMessage(Nothing(buf)) = Nothing(buf)
    BY DEF TakeMessage, Nothing
  <2> DEFINE N == {Nothing(buf)}
  <2>2. \A i \in 0 .. n : d[i] \in N
    <3>1. d[0] \in N
      BY <1>1
    <3>2. \A i \in 0 .. n : i < n /\ d[i] \in N => d[i + 1] \in N
      BY <1>1, <2>1
    <3> HIDE DEF N, n
    <3> QED
      BY <1>2, <3>1, <3>2, LoopInduction
  <2> QED
    BY <1>1, <1>2, <2>2
<1>5. 0 \in T
  BY <1>1 DEF Nothing
<1>6. ASSUME NEW i \in Nat, i \in T PROVE i + 1 \in T
  <2> HIDE DEF n
  <2>7. Fits(i) /\ (Fits(i + 1) => i + 1 \in T)
    <3> HIDE DEF Fits
    <3> QED
      BY <1>6
  <2> SUFFICES ASSUME i + 1 <= n, HasMessage(d[i + 1].rest)
               PROVE  Len(d[i + 1].rest) + (i + 1) <= n
    BY <2>7
  <2>1. i \in 0 .. n /\ i < n
    BY <1>2
  <2>2. d[i + 1] = TakeMessage(d[i]) /\ d[i] \in Draining
    BY <1>1, <2>1
  <2>3. HasMessage(d[i].rest)
    BY <2>2 DEF TakeMessage
  <2>4. d[i + 1].rest = Rest(d[i].rest) /\ d[i].rest \in Bytes
    BY <2>2, <2>3 DEF TakeMessage, Draining
  <2>5. /\ Len(Rest(d[i].rest)) < Len(d[i].rest)
        /\ Len(d[i].rest) \in Nat /\ Len(Rest(d[i].rest)) \in Nat
    BY <2>3, <2>4, MessageFits, LenProperties DEF Bytes
  <2>6. Len(d[i].rest) + i <= n
    BY <2>1, <2>3, <2>7
  <2> QED
    BY <1>2, <2>4, <2>5, <2>6
<1>7. n \in T
  <2> HIDE DEF T, n
  <2> QED
    BY <1>2, <1>5, <1>6, SetInduction
<1>8. ~HasMessage(d[n].rest)
  <2> SUFFICES ASSUME HasMessage(d[n].rest) PROVE FALSE
    OBVIOUS
  <2>1. Len(d[n].rest) + n <= n
    BY <1>2, <1>7
  <2>2. d[n].rest \in Bytes /\ Len(d[n].rest) \in Nat
    BY <1>1, <1>2, LenProperties DEF Draining, Bytes
  <2> QED
    BY <1>2, <2>1, <2>2 DEF HasMessage, HeaderSize
<1> QED
  BY <1>1, <1>3, <1>4, <1>8

Behind(message, s) == [messages |-> <<message>> \o s.messages, rest |-> s.rest]

\* The first message is taken before those behind it.
LEMMA DrainFirst ==
    ASSUME NEW buf \in Bytes, HasMessage(buf)
    PROVE  Drain(buf) = Behind(First(buf), Drain(Rest(buf)))
<1> DEFINE n == Len(buf)
           rest == Rest(buf)
           m == Len(rest)
           first == First(buf)
<1>1. /\ rest \in Bytes /\ first \in Messages
      /\ n \in Nat /\ m \in Nat /\ m < n
  BY MessageFits, LenProperties DEF Bytes
<1>2. PICK d \in [0 .. n -> Draining] :
         /\ d[0] = Nothing(buf)
         /\ \A i \in 0 .. n : i < n => d[i + 1] = TakeMessage(d[i])
         /\ Drain(buf) = d[n]
  BY DrainLoop
<1>3. PICK e \in [0 .. m -> Draining] :
         /\ e[0] = Nothing(rest)
         /\ \A i \in 0 .. m : i < m => e[i + 1] = TakeMessage(e[i])
         /\ Drain(rest) = e[m]
  BY <1>1, DrainLoop
<1>4. ~HasMessage(e[m].rest)
  BY <1>1, <1>3, DrainStops
<1>5. d[1] = Behind(first, e[0])
  <2>1. d[1] = TakeMessage(Nothing(buf))
    BY <1>1, <1>2
  <2>2. TakeMessage(Nothing(buf)) = [messages |-> Append(<<>>, first), rest |-> rest]
    BY DEF TakeMessage, Nothing
  <2>3. Append(<<>>, first) = <<first>> \o <<>>
    BY <1>1
  <2> QED
    BY <1>3, <2>1, <2>2, <2>3 DEF Behind, Nothing
<1> HIDE DEF n, m, rest, first
<1>6. \A s \in Draining : TakeMessage(Behind(first, s)) = Behind(first, TakeMessage(s))
  <2> SUFFICES ASSUME NEW s \in Draining
               PROVE  TakeMessage(Behind(first, s)) = Behind(first, TakeMessage(s))
    OBVIOUS
  <2>1. s.messages \in Seq(Messages) /\ s.rest \in Bytes /\ <<first>> \in Seq(Messages)
    BY <1>1 DEF Draining
  <2>2. CASE HasMessage(s.rest)
    <3>1. First(s.rest) \in Messages
      BY <2>1, <2>2, MessageFits
    <3>2. Append(<<first>> \o s.messages, First(s.rest)) = <<first>> \o Append(s.messages, First(s.rest))
      <4>1. \A a, b \in Seq(Messages), x \in Messages : Append(a \o b, x) = a \o Append(b, x)
        <5> SUFFICES ASSUME NEW a \in Seq(Messages), NEW b \in Seq(Messages), NEW x \in Messages
                     PROVE  Append(a \o b, x) = a \o Append(b, x)
          OBVIOUS
        <5>1. <<x>> \in Seq(Messages) /\ a \o b \in Seq(Messages)
          BY ConcatProperties
        <5>2. Append(a \o b, x) = (a \o b) \o <<x>> /\ Append(b, x) = b \o <<x>>
          BY <5>1, AppendIsConcat
        <5> QED
          BY <5>1, <5>2, ConcatAssociative
      <4> QED
        BY <2>1, <3>1, <4>1
    <3> QED
      BY <2>2, <3>2 DEF TakeMessage, Behind
  <2>3. CASE ~HasMessage(s.rest)
    BY <2>3 DEF TakeMessage, Behind
  <2> QED
    BY <2>2, <2>3
<1> DEFINE at(i) == IF i <= m THEN e[i] ELSE e[m]
           T == {i \in Nat : i + 1 <= n => d[i + 1] = Behind(first, at(i))}
<1>7. 0 \in T
  BY <1>1, <1>5
<1>8. ASSUME NEW i \in Nat, i \in T PROVE i + 1 \in T
  <2> SUFFICES ASSUME (i + 1) + 1 <= n
               PROVE  d[(i + 1) + 1] = Behind(first, at(i + 1))
    OBVIOUS
  <2>1. i + 1 \in 0 .. n /\ i + 1 < n
    BY <1>1
  <2>2. d[(i + 1) + 1] = TakeMessage(d[i + 1]) /\ d[i + 1] = Behind(first, at(i))
    BY <1>2, <1>8, <2>1
  <2>3. at(i) \in Draining /\ at(i + 1) = TakeMessage(at(i))
    <3>1. CASE i < m
      BY <1>1, <1>3, <3>1
    <3>2. CASE ~(i < m)
      <4>1. at(i) = e[m] /\ at(i + 1) = e[m] /\ e[m] \in Draining
        BY <1>1, <1>3, <3>2
      <4>2. TakeMessage(e[m]) = e[m]
        BY <1>4 DEF TakeMessage
      <4> HIDE DEF at
      <4> QED
        BY <4>1, <4>2
    <3> QED
      BY <3>1, <3>2
  <2> HIDE DEF at
  <2> QED
    BY <1>6, <2>2, <2>3
<1> HIDE DEF T
<1>9. n - 1 \in T
  BY <1>1, <1>7, <1>8, SetInduction
<1>10. d[n] = Behind(first, at(n - 1))
  <2>1. n - 1 + 1 = n
    BY <1>1
  <2> HIDE DEF at
  <2> QED
    BY <1>9, <1>1, <2>1 DEF T
<1>11. at(n - 1) = e[m]
  BY <1>1
<1> HIDE DEF at
<1> QED
  BY <1>2, <1>3, <1>10, <1>11 DEF first, rest

\* What is read after a whole message does not change it.
LEMMA MoreBytes ==
    ASSUME NEW buf \in Bytes, HasMessage(buf), NEW more \in Bytes
    PROVE  /\ HasMessage(buf \o more)
           /\ First(buf \o more) = First(buf)
           /\ Rest(buf \o more) = Rest(buf) \o more
<1> DEFINE n == Len(buf)
           k == HeaderSize + buf[2]
           both == buf \o more
<1>1. /\ n \in Nat /\ Len(more) \in Nat /\ k \in Nat /\ 2 <= k /\ k <= n
      /\ buf[1] \in Nat /\ buf[2] \in Nat
  BY MessageFits, LenProperties DEF Bytes, HeaderSize
<1>2. /\ both \in Bytes /\ Len(both) = n + Len(more)
      /\ \A i \in 1 .. Len(both) : both[i] = IF i <= n THEN buf[i] ELSE more[i - n]
  BY ConcatProperties DEF Bytes
<1>3. both[1] = buf[1] /\ both[2] = buf[2]
  BY <1>1, <1>2
<1>4. HasMessage(both)
  BY <1>1, <1>2, <1>3 DEF HasMessage, HeaderSize
<1>5. SubSeq(both, HeaderSize + 1, k) = SubSeq(buf, HeaderSize + 1, k)
  <2>1. CASE k = HeaderSize
    <3>1. k < HeaderSize + 1 /\ HeaderSize + 1 \in Int /\ k \in Int
      BY <1>1, <2>1 DEF HeaderSize
    <3> HIDE DEF k, both
    <3> QED
      BY <3>1, SubSeqEmpty
  <2>2. CASE k # HeaderSize
    <3>1. HeaderSize + 1 \in 1 .. n /\ k \in 1 .. n
      BY <1>1, <2>2 DEF HeaderSize
    <3> HIDE DEF k
    <3> QED
      BY <3>1, SubSeqOfConcat1 DEF Bytes
  <2> QED
    BY <2>1, <2>2
<1>6. SubSeq(both, k + 1, Len(both)) = SubSeq(buf, k + 1, n) \o more
  <2> HIDE DEF k
  <2> DEFINE l == SubSeq(both, k + 1, Len(both))
             r == SubSeq(buf, k + 1, n)
  <2>1. ASSUME NEW i \in k + 1 .. Len(both) PROVE both[i] \in Nat
    <3>1. i \in 1 .. Len(both) /\ both \in Seq(Nat)
      BY <1>1, <1>2 DEF Bytes
    <3> HIDE DEF both
    <3> QED
      BY <3>1, ElementOfSeq
  <2>2. \A i \in k + 1 .. n : buf[i] \in Nat
    BY <1>1, ElementOfSeq DEF Bytes
  <2> HIDE DEF n, both
  <2>3. /\ l \in Seq(Nat) /\ Len(l) = n + Len(more) - k
        /\ \A i \in 1 .. n + Len(more) - k : l[i] = both[k + i]
    BY <1>1, <1>2, <2>1, SubSeqProperties
  <2>4. /\ r \in Seq(Nat) /\ Len(r) = n - k
        /\ \A i \in 1 .. n - k : r[i] = buf[k + i]
    BY <1>1, <2>2, SubSeqProperties
  <2> HIDE DEF l, r
  <2>5. /\ r \o more \in Seq(Nat) /\ Len(r \o more) = n + Len(more) - k
        /\ \A i \in 1 .. n + Len(more) - k :
              (r \o more)[i] = IF i <= n - k THEN r[i] ELSE more[i - (n - k)]
    <3>1. /\ r \o more \in Seq(Nat) /\ Len(r \o more) = Len(r) + Len(more)
          /\ \A i \in 1 .. Len(r) + Len(more) :
                (r \o more)[i] = IF i <= Len(r) THEN r[i] ELSE more[i - Len(r)]
      BY <2>4, ConcatProperties DEF Bytes
    <3>2. Len(r) + Len(more) = n + Len(more) - k
      BY <1>1, <2>4
    <3> QED
      BY <2>4, <3>1, <3>2
  <2>6. \A i \in 1 .. n + Len(more) - k : l[i] = (r \o more)[i]
    <3> SUFFICES ASSUME NEW i \in 1 .. n + Len(more) - k PROVE l[i] = (r \o more)[i]
      OBVIOUS
    <3>1. l[i] = IF k + i <= n THEN buf[k + i] ELSE more[(k + i) - n]
      BY <1>1, <1>2, <2>3
    <3>2. CASE i <= n - k
      BY <1>1, <2>4, <2>5, <3>1, <3>2
    <3>3. CASE ~(i <= n - k)
      BY <1>1, <2>5, <3>1, <3>3
    <3> QED
      BY <3>2, <3>3
  <2>7. l = r \o more
    BY <2>3, <2>5, <2>6, SeqEqual
  <2> QED
    BY <2>7 DEF l, r, n
<1>7. HeaderSize + both[2] = k
  BY <1>3
<1> QED
  BY <1>3, <1>4, <1>5, <1>6, <1>7 DEF First, Rest

Joined(a, b) == [messages |-> a.messages \o b.messages, rest |-> b.rest]

\* Draining in two goes is draining at once.
LEMMA DrainInTwo ==
    ASSUME NEW buf \in Bytes, NEW more \in Bytes
    PROVE  Drain(buf \o more) = Joined(Drain(buf), Drain(Drain(buf).rest \o more))
<1> DEFINE Same(b) == Drain(b \o more) = Joined(Drain(b), Drain(Drain(b).rest \o more))
           T == {k \in Nat : \A b \in Bytes : Len(b) <= k => Same(b)}
<1>1. ASSUME NEW b \in Bytes, ~HasMessage(b) PROVE Same(b)
  <2>1. Drain(b) = Nothing(b) /\ b \o more \in Bytes
    BY <1>1, DrainStops, ConcatProperties DEF Bytes
  <2>2. Drain(b \o more) \in Draining
    BY <2>1, DrainStops
  <2>3. Drain(b).messages = <<>> /\ Drain(b).rest = b
    BY <2>1 DEF Nothing
  <2>4. \A d \in Draining : [messages |-> <<>> \o d.messages, rest |-> d.rest] = d
    <3>1. \A s \in Seq(Messages) : <<>> \o s = s
      BY ConcatEmptySeq
    <3> QED
      BY <3>1 DEF Draining
  <2> QED
    BY <2>2, <2>3, <2>4 DEF Joined
<1>2. 0 \in T
  BY <1>1 DEF HasMessage, HeaderSize
<1>3. ASSUME NEW k \in Nat, k \in T PROVE k + 1 \in T
  <2> SUFFICES ASSUME NEW b \in Bytes, Len(b) <= k + 1, HasMessage(b) PROVE Same(b)
    BY <1>1
  <2> DEFINE rest == Rest(b)
             first == First(b)
  <2>1. rest \in Bytes /\ Len(rest) <= k /\ first \in Messages
    BY MessageFits, LenProperties DEF Bytes
  <2>2. HasMessage(b \o more) /\ First(b \o more) = first /\ Rest(b \o more) = rest \o more /\ b \o more \in Bytes
    BY MoreBytes, ConcatProperties DEF Bytes
  <2> HIDE DEF first, rest
  <2>3. Drain(b \o more) = Behind(first, Drain(rest \o more))
    BY <2>2, DrainFirst
  <2>4. Drain(b) = Behind(first, Drain(rest))
    BY DrainFirst DEF first, rest
  <2>5. Same(rest)
    BY <1>3, <2>1
  <2> DEFINE d == Drain(rest)
             e == Drain(Drain(rest).rest \o more)
  <2>6. d \in Draining
    BY <2>1, DrainStops
  <2>7. e \in Draining
    <3>1. d.rest \in Bytes
      BY <2>6 DEF Draining
    <3> HIDE DEF d
    <3>2. d.rest \o more \in Bytes
      BY <3>1, ConcatProperties DEF Bytes
    <3> QED
      BY <3>2, DrainStops DEF d
  <2>8. Drain(b).rest = d.rest
    BY <2>4 DEF Behind
  <2> SUFFICES Behind(first, Joined(d, e)) = Joined(Behind(first, d), e)
    BY <2>3, <2>4, <2>5, <2>8
  <2> HIDE DEF d, e
  <2>9. <<first>> \o (d.messages \o e.messages) = (<<first>> \o d.messages) \o e.messages
    <3>1. <<first>> \in Seq(Messages) /\ d.messages \in Seq(Messages) /\ e.messages \in Seq(Messages)
      BY <2>1, <2>6, <2>7 DEF Draining
    <3>2. \A p, q, r \in Seq(Messages) : p \o (q \o r) = (p \o q) \o r
      BY ConcatAssociative
    <3> QED
      BY <3>1, <3>2
  <2> QED
    BY <2>9 DEF Behind, Joined
<1> HIDE DEF T
<1>4. Len(buf) \in T
  BY <1>2, <1>3, SetInduction, LenProperties DEF Bytes
<1> QED
  BY <1>4, LenProperties DEF T, Bytes


LEMMA AppendConcat ==
    ASSUME NEW S, NEW s \in Seq(S), NEW t \in Seq(S), NEW x \in S
    PROVE  Append(s \o t, x) = s \o Append(t, x)
<1>1. <<x>> \in Seq(S) /\ s \o t \in Seq(S)
  BY ConcatProperties
<1>2. Append(s \o t, x) = (s \o t) \o <<x>> /\ Append(t, x) = t \o <<x>>
  BY <1>1, AppendIsConcat
<1> QED
  BY <1>1, <1>2, ConcatAssociative

LEMMA LastOf ==
    ASSUME NEW S, NEW s \in Seq(S), s # <<>>
    PROVE  \E front \in Seq(S), last \in S :
              s = Append(front, last) /\ Len(front) + 1 = Len(s)
<1> DEFINE n == Len(s)
           front == SubSeq(s, 1, n - 1)
<1>1. n \in Nat /\ n > 0 /\ s[n] \in S /\ \A i \in 1 .. n : s[i] \in S
  BY EmptySeq, LenProperties, ElementOfSeq
<1> HIDE DEF n
<1>2. front \in Seq(S) /\ Len(front) = n - 1 /\ \A i \in 1 .. n - 1 : front[i] = s[i]
  BY <1>1, SubSeqProperties
<1> HIDE DEF front
<1>3. /\ Append(front, s[n]) \in Seq(S) /\ Len(Append(front, s[n])) = n
      /\ \A i \in 1 .. n : Append(front, s[n])[i] = s[i]
  BY <1>1, <1>2, AppendProperties
<1>4. s = Append(front, s[n])
  BY <1>3, SeqEqual DEF n
<1> QED
  BY <1>1, <1>2, <1>4 DEF n

\* FlattenSeq, piece by piece.
LEMMA FlattenLoop ==
    ASSUME NEW S, NEW seqs \in Seq(Seq(S))
    PROVE  \E flat \in [0 .. Len(seqs) -> Seq(S)] :
              /\ flat[0] = <<>>
              /\ \A i \in 0 .. Len(seqs) : i < Len(seqs) => flat[i + 1] = flat[i] \o seqs[i + 1]
              /\ FlattenSeq(seqs) = flat[Len(seqs)]
<1> DEFINE n == Len(seqs)
           Is(f) == f = [i \in 1 .. n |-> IF i = 1 THEN seqs[i] ELSE f[i - 1] \o seqs[i]]
           loop == CHOOSE f : Is(f)
<1>1. n \in Nat /\ <<>> \in Seq(S) /\ \A i \in 1 .. n : seqs[i] \in Seq(S)
  BY LenProperties, EmptySeq, ElementOfSeq
<1>2. FlattenSeq(seqs) = IF n = 0 THEN seqs ELSE loop[n]
  BY DEF FlattenSeq
<1>3. n = 0 => seqs = <<>>
  BY EmptySeq
<1> HIDE DEF n
<1>4. PICK g \in [0 .. n -> Seq(S)] : g[0] = <<>> /\ \A i \in 1 .. n : g[i] = g[i - 1] \o seqs[i]
  <2> DEFINE T == Seq(S)
             step == [i \in 1 .. n |-> [s \in T |-> s \o seqs[i]]]
  <2>1. step \in [1 .. n -> [T -> T]]
    BY <1>1, ConcatProperties
  <2> HIDE DEF step
  <2>2. PICK g \in Loops(T, <<>>, n, step) : TRUE
    <3>1. PICK base \in T : base = <<>>
      BY <1>1
    <3> HIDE DEF T
    <3>2. Loops(T, base, n, step) # {}
      BY <1>1, <2>1, Recursion
    <3> QED
      BY <3>1, <3>2
  <2>3. g \in [0 .. n -> T] /\ g[0] = <<>>
    BY <2>2 DEF Loops
  <2>4. ASSUME NEW i \in 1 .. n PROVE g[i] = g[i - 1] \o seqs[i]
    <3>1. i - 1 \in 0 .. n
      BY <1>1
    <3>2. g[i - 1] \in T
      BY <2>3, <3>1
    <3>3. g[i] = step[i][g[i - 1]]
      BY <2>2 DEF Loops
    <3> QED
      BY <3>2, <3>3 DEF step
  <2> QED
    BY <2>3, <2>4
<1>5. CASE n = 0
  BY <1>1, <1>2, <1>3, <1>4, <1>5 DEF n
<1>6. CASE n # 0
  <2> DEFINE f == [i \in 1 .. n |-> g[i]]
  <2>1. Is(f)
    <3>1. \A i \in 1 .. n : g[i] = IF i = 1 THEN seqs[i] ELSE f[i - 1] \o seqs[i]
      <4> SUFFICES ASSUME NEW i \in 1 .. n
                   PROVE  g[i] = IF i = 1 THEN seqs[i] ELSE f[i - 1] \o seqs[i]
        OBVIOUS
      <4>1. g[i] = g[i - 1] \o seqs[i] /\ seqs[i] \in Seq(S)
        BY <1>1, <1>4
      <4>2. CASE i = 1
        <5>1. g[i - 1] = <<>>
          BY <1>4, <4>2
        <5>2. <<>> \o seqs[i] = seqs[i]
          BY <4>1, ConcatEmptySeq
        <5> QED
          BY <4>1, <4>2, <5>1, <5>2
      <4>3. CASE i # 1
        <5>1. i - 1 \in 1 .. n
          BY <1>1, <4>3
        <5>2. f[i - 1] = g[i - 1]
          BY <5>1
        <5> QED
          BY <4>1, <4>3, <5>2
      <4> QED
        BY <4>2, <4>3
    <3> QED
      BY <3>1
  <2> HIDE DEF f
  <2>2. Is(loop)
    BY <2>1
  <2> HIDE DEF loop
  <2>3. \A i \in 1 .. n : loop[i] = IF i = 1 THEN seqs[i] ELSE loop[i - 1] \o seqs[i]
    BY <2>2
  <2> DEFINE T == {i \in Nat : i + 1 <= n => loop[i + 1] = g[i + 1]}
  <2>4. 0 \in T
    <3>1. 1 \in 1 .. n
      BY <1>1, <1>6
    <3>2. loop[1] = seqs[1] /\ g[1] = g[1 - 1] \o seqs[1] /\ seqs[1] \in Seq(S)
      BY <1>1, <1>4, <2>3, <3>1
    <3>3. <<>> \o seqs[1] = seqs[1]
      BY <3>2, ConcatEmptySeq
    <3>4. 1 - 1 = 0 /\ 0 + 1 = 1
      OBVIOUS
    <3> QED
      BY <1>4, <3>2, <3>3, <3>4
  <2>5. ASSUME NEW i \in Nat, i \in T PROVE i + 1 \in T
    <3> SUFFICES ASSUME i + 1 + 1 <= n PROVE loop[i + 1 + 1] = g[i + 1 + 1]
      OBVIOUS
    <3>1. i + 1 + 1 \in 1 .. n /\ i + 1 + 1 # 1 /\ (i + 1 + 1) - 1 = i + 1 /\ i + 1 <= n
      BY <1>1
    <3>2. loop[i + 1 + 1] = loop[i + 1] \o seqs[i + 1 + 1]
      BY <2>3, <3>1
    <3>3. g[i + 1 + 1] = g[i + 1] \o seqs[i + 1 + 1]
      BY <1>4, <3>1
    <3> QED
      BY <2>5, <3>1, <3>2, <3>3
  <2> HIDE DEF T
  <2>6. n - 1 \in T
    <3>1. n - 1 \in Nat
      BY <1>1, <1>6
    <3>2. Nat \subseteq T
      BY <2>4, <2>5, SetInduction
    <3> QED
      BY <3>1, <3>2
  <2>7. loop[n] = g[n]
    <3>1. (n - 1) + 1 = n
      BY <1>1
    <3> QED
      BY <1>1, <2>6, <3>1 DEF T
  <2>8. \A i \in 0 .. n : i < n => g[i + 1] = g[i] \o seqs[i + 1]
    <3>1. \A i \in 0 .. n : i < n => i + 1 \in 1 .. n /\ (i + 1) - 1 = i
      BY <1>1
    <3> QED
      BY <1>4, <3>1
  <2> QED
    BY <1>2, <1>4, <1>6, <2>7, <2>8 DEF n
<1> QED
  BY <1>5, <1>6

LEMMA FlattenType ==
    ASSUME NEW S, NEW seqs \in Seq(Seq(S))
    PROVE  FlattenSeq(seqs) \in Seq(S) /\ (seqs = <<>> => FlattenSeq(seqs) = <<>>)
<1>1. PICK flat \in [0 .. Len(seqs) -> Seq(S)] :
         /\ flat[0] = <<>>
         /\ FlattenSeq(seqs) = flat[Len(seqs)]
  BY FlattenLoop
<1>2. Len(seqs) \in Nat /\ (seqs = <<>> => Len(seqs) = 0)
  BY LenProperties, EmptySeq
<1> QED
  BY <1>1, <1>2

LEMMA FlattenAppend ==
    ASSUME NEW S, NEW seqs \in Seq(Seq(S)), NEW seq \in Seq(S)
    PROVE  FlattenSeq(Append(seqs, seq)) = FlattenSeq(seqs) \o seq
<1> DEFINE n == Len(seqs)
           more == Append(seqs, seq)
<1>1. /\ n \in Nat /\ more \in Seq(Seq(S)) /\ Len(more) = n + 1
      /\ \A i \in 1 .. n : more[i] = seqs[i]
      /\ more[n + 1] = seq
  BY LenProperties, AppendProperties
<1>2. PICK f \in [0 .. n -> Seq(S)] :
         /\ f[0] = <<>>
         /\ \A i \in 0 .. n : i < n => f[i + 1] = f[i] \o seqs[i + 1]
         /\ FlattenSeq(seqs) = f[n]
  BY FlattenLoop
<1> HIDE DEF more, n
<1>3. PICK g \in [0 .. n + 1 -> Seq(S)] :
         /\ g[0] = <<>>
         /\ \A i \in 0 .. n + 1 : i < n + 1 => g[i + 1] = g[i] \o more[i + 1]
         /\ FlattenSeq(more) = g[n + 1]
  <2>1. \E h \in [0 .. Len(more) -> Seq(S)] :
           /\ h[0] = <<>>
           /\ \A i \in 0 .. Len(more) : i < Len(more) => h[i + 1] = h[i] \o more[i + 1]
           /\ FlattenSeq(more) = h[Len(more)]
    BY <1>1, FlattenLoop
  <2> QED
    BY <1>1, <2>1
<1> DEFINE T == {i \in Nat : i <= n => f[i] = g[i]}
<1>4. 0 \in T
  BY <1>2, <1>3
<1>5. ASSUME NEW i \in Nat, i \in T PROVE i + 1 \in T
  <2> SUFFICES ASSUME i + 1 <= n PROVE f[i + 1] = g[i + 1]
    OBVIOUS
  <2>1. i \in 0 .. n /\ i < n /\ i \in 0 .. n + 1 /\ i < n + 1 /\ i + 1 \in 1 .. n /\ i <= n
    BY <1>1
  <2>2. f[i + 1] = f[i] \o seqs[i + 1]
    BY <1>2, <2>1
  <2>3. g[i + 1] = g[i] \o more[i + 1]
    BY <1>3, <2>1
  <2>4. more[i + 1] = seqs[i + 1]
    BY <1>1, <2>1
  <2> QED
    BY <1>5, <2>1, <2>2, <2>3, <2>4
<1>6. f[n] = g[n]
  <2> HIDE DEF T
  <2>1. Nat \subseteq T
    BY <1>4, <1>5, SetInduction
  <2> QED
    BY <1>1, <2>1 DEF T
<1>7. g[n + 1] = g[n] \o more[n + 1]
  <2>1. n \in 0 .. n + 1 /\ n < n + 1
    BY <1>1
  <2> QED
    BY <1>3, <2>1
<1> QED
  BY <1>1, <1>2, <1>3, <1>6, <1>7 DEF more

LEMMA FlattenConcat ==
    ASSUME NEW S, NEW s \in Seq(Seq(S)), NEW t \in Seq(Seq(S))
    PROVE  FlattenSeq(s \o t) = FlattenSeq(s) \o FlattenSeq(t)
<1> DEFINE Splits(u) == FlattenSeq(s \o u) = FlattenSeq(s) \o FlattenSeq(u)
           T == {k \in Nat : \A u \in Seq(Seq(S)) : Len(u) = k => Splits(u)}
<1>0. \A p, q, r \in Seq(S) : (p \o q) \o r = p \o (q \o r)
  <2> SUFFICES ASSUME NEW p \in Seq(S), NEW q \in Seq(S), NEW r \in Seq(S)
               PROVE  (p \o q) \o r = p \o (q \o r)
    OBVIOUS
  <2> QED
    BY ConcatAssociative
<1>1. FlattenSeq(s) \in Seq(S)
  BY FlattenType
<1>2. 0 \in T
  <2> SUFFICES ASSUME NEW u \in Seq(Seq(S)), Len(u) = 0 PROVE Splits(u)
    OBVIOUS
  <2>1. u = <<>> /\ s \o u = s
    BY EmptySeq, ConcatEmptySeq
  <2>2. FlattenSeq(u) = <<>>
    BY <2>1, FlattenType
  <2> QED
    BY <1>1, <2>1, <2>2, ConcatEmptySeq
<1>3. ASSUME NEW k \in Nat, k \in T PROVE k + 1 \in T
  <2> SUFFICES ASSUME NEW u \in Seq(Seq(S)), Len(u) = k + 1 PROVE Splits(u)
    OBVIOUS
  <2>1. u # <<>>
    BY EmptySeq
  <2>2. PICK front \in Seq(Seq(S)), last \in Seq(S) :
           u = Append(front, last) /\ Len(front) + 1 = Len(u)
    BY <2>1, LastOf
  <2>3. Len(front) = k
    BY <2>2, LenProperties
  <2>4. FlattenSeq(s \o front) = FlattenSeq(s) \o FlattenSeq(front)
    BY <1>3, <2>3
  <2>5. s \o u = Append(s \o front, last)
    BY <2>2, AppendConcat
  <2>6. s \o front \in Seq(Seq(S)) /\ FlattenSeq(front) \in Seq(S)
    BY ConcatProperties, FlattenType
  <2>7. FlattenSeq(s \o u) = FlattenSeq(s \o front) \o last
    BY <2>5, <2>6, FlattenAppend
  <2>8. FlattenSeq(u) = FlattenSeq(front) \o last
    BY <2>2, FlattenAppend
  <2> HIDE DEF T
  <2>9. (FlattenSeq(s) \o FlattenSeq(front)) \o last = FlattenSeq(s) \o (FlattenSeq(front) \o last)
    BY <1>0, <1>1, <2>6
  <2> QED
    BY <2>4, <2>7, <2>8, <2>9
<1> HIDE DEF T
<1>4. Len(t) \in T
  BY <1>2, <1>3, SetInduction, LenProperties
<1> QED
  BY <1>4 DEF T


LEMMA FrameFacts ==
    ASSUME NEW message \in Messages
    PROVE  /\ Frame(message) \in Bytes
           /\ HasMessage(Frame(message))
           /\ First(Frame(message)) = message
           /\ Rest(Frame(message)) = <<>>
<1> DEFINE data == message.data
           flag == IF message.compressed THEN 1 ELSE 0
           l == Len(data)
           header == <<flag, l>>
           f == Frame(message)
<1>1. /\ data \in Bytes /\ l \in Nat /\ flag \in Nat
      /\ message.compressed \in BOOLEAN
      /\ message = [compressed |-> message.compressed, data |-> data]
  BY LenProperties DEF Messages, Bytes
<1>2. f = header \o data
  BY DEF Frame
<1>3. header \in Seq(Nat) /\ Len(header) = 2 /\ header[1] = flag /\ header[2] = l
  BY <1>1
<1>4. flag % 2 = 1 <=> message.compressed
  BY <1>1
<1> HIDE DEF data, header, f, flag
<1>5. /\ f \in Bytes /\ Len(f) = 2 + l
      /\ \A i \in 1 .. 2 + l : f[i] = IF i <= 2 THEN header[i] ELSE data[i - 2]
  <2>1. /\ header \o data \in Seq(Nat)
        /\ Len(header \o data) = Len(header) + Len(data)
        /\ \A i \in 1 .. Len(header) + Len(data) :
              (header \o data)[i] = IF i <= Len(header) THEN header[i] ELSE data[i - Len(header)]
    BY <1>1, <1>3, ConcatProperties DEF Bytes
  <2> QED
    BY <1>2, <1>3, <2>1 DEF Bytes
<1>6. f[1] = flag /\ f[2] = l
  BY <1>1, <1>3, <1>5
<1>7. HasMessage(f)
  BY <1>1, <1>5, <1>6 DEF HasMessage, HeaderSize
<1>8. SubSeq(f, 3, 2 + l) = data
  <2> DEFINE s == SubSeq(f, 3, 2 + l)
  <2>1. \A i \in 3 .. 2 + l : f[i] \in Nat
    BY <1>1, <1>5, ElementOfSeq DEF Bytes
  <2>2. s \in Seq(Nat) /\ Len(s) = l /\ \A i \in 1 .. l : s[i] = f[i + 2]
    BY <1>1, <2>1, SubSeqProperties
  <2>3. \A i \in 1 .. l : f[i + 2] = data[i]
    BY <1>1, <1>5
  <2> HIDE DEF s, l
  <2>4. s = data
    BY <1>1, <2>2, <2>3, SeqEqual DEF l, Bytes
  <2> QED
    BY <2>4 DEF s
<1>9. First(f) = message
  <2>1. HeaderSize + 1 = 3 /\ HeaderSize + f[2] = 2 + l
    BY <1>1, <1>6 DEF HeaderSize
  <2>2. First(f) = [compressed |-> flag % 2 = 1, data |-> data]
    BY <1>6, <1>8, <2>1 DEF First
  <2>3. flag % 2 = 1 <=> message.compressed
    BY <1>4
  <2> QED
    BY <1>1, <2>2, <2>3
<1>10. Rest(f) = <<>>
  <2>1. Rest(f) \in Bytes /\ Len(Rest(f)) = 0
    BY <1>1, <1>5, <1>6, <1>7, MessageFits DEF HeaderSize
  <2> QED
    BY <2>1, EmptySeq DEF Bytes
<1> QED
  BY <1>5, <1>7, <1>9, <1>10 DEF f

LEMMA EncodeFrames ==
    ASSUME NEW messages \in Seq(Messages)
    PROVE  /\ EncodeGRPCFrames(messages) \in Bytes
           /\ messages = <<>> => EncodeGRPCFrames(messages) = <<>>
           /\ \A message \in Messages :
                 EncodeGRPCFrames(Append(messages, message)) =
                     EncodeGRPCFrames(messages) \o Frame(message)
<1> DEFINE frames(s) == [i \in DOMAIN s |-> Frame(s[i])]
<1>1. \A s \in Seq(Messages) :
         /\ frames(s) \in Seq(Bytes) /\ Len(frames(s)) = Len(s)
         /\ DOMAIN s = 1 .. Len(s)
  <2> SUFFICES ASSUME NEW s \in Seq(Messages)
               PROVE  /\ frames(s) \in Seq(Bytes) /\ Len(frames(s)) = Len(s)
                      /\ DOMAIN s = 1 .. Len(s)
    OBVIOUS
  <2>1. Len(s) \in Nat /\ DOMAIN s = 1 .. Len(s) /\ \A i \in 1 .. Len(s) : s[i] \in Messages
    BY LenProperties, ElementOfSeq
  <2>2. \A i \in 1 .. Len(s) : Frame(s[i]) \in Bytes
    BY <2>1, FrameFacts
  <2>3. frames(s) \in [1 .. Len(s) -> Bytes]
    BY <2>1, <2>2
  <2> QED
    BY <2>1, <2>3
<1>2. \A s \in Seq(Messages) : EncodeGRPCFrames(s) = FlattenSeq(frames(s))
  BY DEF EncodeGRPCFrames
<1>3. EncodeGRPCFrames(messages) \in Bytes
  BY <1>1, <1>2, FlattenType DEF Bytes
<1>4. messages = <<>> => EncodeGRPCFrames(messages) = <<>>
  <2> SUFFICES ASSUME messages = <<>> PROVE EncodeGRPCFrames(messages) = <<>>
    OBVIOUS
  <2>1. frames(messages) \in Seq(Bytes) /\ Len(frames(messages)) = 0
    BY <1>1, EmptySeq
  <2> HIDE DEF frames
  <2>2. frames(messages) = <<>>
    BY <2>1, EmptySeq
  <2> QED
    BY <1>2, <2>1, <2>2, FlattenType DEF Bytes
<1>5. ASSUME NEW message \in Messages
      PROVE  EncodeGRPCFrames(Append(messages, message)) =
                 EncodeGRPCFrames(messages) \o Frame(message)
  <2> DEFINE more == Append(messages, message)
             n == Len(messages)
  <2>1. /\ n \in Nat /\ more \in Seq(Messages) /\ Len(more) = n + 1
        /\ \A i \in 1 .. n : more[i] = messages[i]
        /\ more[n + 1] = message
    BY LenProperties, AppendProperties
  <2>2. Frame(message) \in Bytes
    BY FrameFacts
  <2> HIDE DEF more
  <2>3. \A i \in 1 .. n + 1 : frames(more)[i] = IF i <= n THEN frames(messages)[i] ELSE Frame(message)
    <3>1. DOMAIN more = 1 .. n + 1 /\ DOMAIN messages = 1 .. n
      BY <1>1, <2>1
    <3>2. \A i \in 1 .. n + 1 : i <= n => i \in 1 .. n
      BY <2>1
    <3>3. \A i \in 1 .. n + 1 : ~(i <= n) => i = n + 1
      BY <2>1
    <3> QED
      BY <2>1, <3>1, <3>2, <3>3
  <2>4. /\ frames(messages) \in Seq(Bytes) /\ Len(frames(messages)) = n
        /\ frames(more) \in Seq(Bytes) /\ Len(frames(more)) = n + 1
    BY <1>1, <2>1
  <2> HIDE DEF frames, n
  <2>5. /\ Append(frames(messages), Frame(message)) \in Seq(Bytes)
        /\ Len(Append(frames(messages), Frame(message))) = n + 1
        /\ \A i \in 1 .. n + 1 : Append(frames(messages), Frame(message))[i] =
              IF i <= n THEN frames(messages)[i] ELSE Frame(message)
    BY <2>1, <2>2, <2>4, AppendProperties
  <2>6. frames(more) = Append(frames(messages), Frame(message))
    BY <2>3, <2>4, <2>5, SeqEqual
  <2>7. FlattenSeq(frames(more)) = FlattenSeq(frames(messages)) \o Frame(message)
    BY <2>2, <2>4, <2>6, FlattenAppend DEF Bytes
  <2> QED
    BY <1>2, <2>1, <2>7 DEF more
<1> QED
  BY <1>3, <1>4, <1>5

\* What is encoded is drained again, up to a message that is not whole.
LEMMA DrainEncoded ==
    ASSUME NEW messages \in Seq(Messages), NEW tail \in Bytes, ~HasMessage(tail)
    PROVE  Drain(EncodeGRPCFrames(messages) \o tail) = [messages |-> messages, rest |-> tail]
<1> DEFINE Decodes(s) == Drain(EncodeGRPCFrames(s)) = [messages |-> s, rest |-> <<>>]
           T == {k \in Nat : \A s \in Seq(Messages) : Len(s) = k => Decodes(s)}
<1>0. <<>> \in Bytes /\ Drain(<<>>) = [messages |-> <<>>, rest |-> <<>>]
  <2>1. <<>> \in Bytes /\ Len(<<>>) = 0
    BY EmptySeq DEF Bytes
  <2>2. ~HasMessage(<<>>)
    BY <2>1 DEF HasMessage, HeaderSize
  <2> QED
    BY <2>1, <2>2, DrainStops DEF Nothing
<1>1. 0 \in T
  <2> SUFFICES ASSUME NEW s \in Seq(Messages), Len(s) = 0 PROVE Decodes(s)
    OBVIOUS
  <2>1. s = <<>>
    BY EmptySeq
  <2> QED
    BY <1>0, <2>1, EncodeFrames
<1>2. ASSUME NEW k \in Nat, k \in T PROVE k + 1 \in T
  <2> SUFFICES ASSUME NEW s \in Seq(Messages), Len(s) = k + 1 PROVE Decodes(s)
    OBVIOUS
  <2>1. s # <<>>
    BY EmptySeq
  <2>2. PICK front \in Seq(Messages), last \in Messages :
           s = Append(front, last) /\ Len(front) + 1 = Len(s)
    BY <2>1, LastOf
  <2>3. Len(front) = k
    BY <2>2, LenProperties
  <2>4. Drain(EncodeGRPCFrames(front)) = [messages |-> front, rest |-> <<>>]
    BY <1>2, <2>3
  <2> DEFINE code == EncodeGRPCFrames(front)
             f == Frame(last)
  <2>5. code \in Bytes /\ f \in Bytes /\ EncodeGRPCFrames(s) = code \o f
    BY <2>2, EncodeFrames, FrameFacts
  <2>6. Drain(f) = [messages |-> <<last>>, rest |-> <<>>]
    <3>1. HasMessage(f) /\ First(f) = last /\ Rest(f) = <<>>
      BY FrameFacts
    <3> HIDE DEF f
    <3>2. Drain(f) = Behind(last, Drain(<<>>))
      BY <2>5, <3>1, DrainFirst
    <3>4. Drain(<<>>).messages = <<>> /\ Drain(<<>>).rest = <<>>
      BY <1>0
    <3>3. <<last>> \o <<>> = <<last>>
      BY ConcatEmptySeq
    <3> QED
      BY <3>2, <3>3, <3>4 DEF Behind
  <2> HIDE DEF code, f, T
  <2>7. <<>> \o f = f
    BY <2>5, ConcatEmptySeq DEF Bytes
  <2>8. Drain(code) = [messages |-> front, rest |-> <<>>]
    BY <2>4 DEF code
  <2>9. Drain(code \o f) = Joined(Drain(code), Drain(f))
    <3>1. Drain(code \o f) = Joined(Drain(code), Drain(Drain(code).rest \o f))
      BY <2>5, DrainInTwo
    <3>2. Drain(code).rest = <<>>
      BY <2>8
    <3> QED
      BY <2>7, <3>1, <3>2
  <2>10. front \o <<last>> = s
    BY <2>2, AppendIsConcat
  <2>11. Joined(Drain(code), Drain(f)) = [messages |-> s, rest |-> <<>>]
    BY <2>6, <2>8, <2>10 DEF Joined
  <2> QED
    BY <2>5, <2>9, <2>11
<1> HIDE DEF T
<1>3. Len(messages) \in T
  BY <1>1, <1>2, SetInduction, LenProperties
<1>4. Decodes(messages)
  BY <1>3 DEF T
<1> DEFINE code == EncodeGRPCFrames(messages)
<1>5. code \in Bytes /\ <<>> \o tail = tail
  BY EncodeFrames, ConcatEmptySeq DEF Bytes
<1>6. Drain(tail) = [messages |-> <<>>, rest |-> tail]
  BY DrainStops DEF Nothing
<1>7. messages \o <<>> = messages
  BY ConcatEmptySeq
<1> HIDE DEF code
<1>8. Drain(code \o tail) = Joined(Drain(code), Drain(Drain(code).rest \o tail))
  BY <1>5, DrainInTwo
<1> QED
  BY <1>4, <1>5, <1>6, <1>7, <1>8 DEF Joined, code


LEMMA SentNothing == \A verdicts, seen : Sent(<<>>, verdicts, seen) = <<>>
<1> SUFFICES ASSUME NEW verdicts, NEW seen PROVE Sent(<<>>, verdicts, seen) = <<>>
  OBVIOUS
<1> DEFINE pieces == [i \in DOMAIN <<>> |-> Replaced(<<>>[i], verdicts[seen + i])]
<1>1. pieces \in Seq(Bytes) /\ Len(pieces) = 0
  <2>1. DOMAIN <<>> = 1 .. 0
    OBVIOUS
  <2>2. pieces \in [1 .. 0 -> Bytes]
    BY <2>1
  <2> QED
    BY <2>2
<1>2. Sent(<<>>, verdicts, seen) = FlattenSeq(pieces)
  BY DEF Sent
<1> HIDE DEF pieces
<1>3. pieces = <<>>
  BY <1>1, EmptySeq
<1> QED
  BY <1>1, <1>2, <1>3, FlattenType DEF Bytes

LEMMA SentInTwo ==
    ASSUME NEW s \in Seq(Messages), NEW t \in Seq(Messages), NEW verdicts, NEW seen \in Nat
    PROVE  /\ Sent(s, verdicts, seen) \in Bytes
           /\ Sent(s \o t, verdicts, seen) =
                  Sent(s, verdicts, seen) \o Sent(t, verdicts, seen + Len(s))
<1> DEFINE pieces(u, k) == [i \in DOMAIN u |-> Replaced(u[i], verdicts[k + i])]
<1>1. \A message \in Messages : \A verdict : Replaced(message, verdict) \in Bytes
  <2> SUFFICES ASSUME NEW message \in Messages, NEW verdict
               PROVE  Replaced(message, verdict) \in Bytes
    OBVIOUS
  <2>1. <<0>> \in Bytes /\ <<>> \in Bytes
    BY EmptySeq DEF Bytes
  <2>2. [message EXCEPT !.data = <<0>>] \in Messages
    BY <2>1 DEF Messages
  <2> QED
    BY <2>1, <2>2, FrameFacts DEF Replaced
<1>2. \A u \in Seq(Messages), k \in Nat :
         /\ pieces(u, k) \in Seq(Bytes) /\ Len(pieces(u, k)) = Len(u)
         /\ DOMAIN u = 1 .. Len(u)
  <2> SUFFICES ASSUME NEW u \in Seq(Messages), NEW k \in Nat
               PROVE  /\ pieces(u, k) \in Seq(Bytes) /\ Len(pieces(u, k)) = Len(u)
                      /\ DOMAIN u = 1 .. Len(u)
    OBVIOUS
  <2>1. Len(u) \in Nat /\ DOMAIN u = 1 .. Len(u) /\ \A i \in 1 .. Len(u) : u[i] \in Messages
    BY LenProperties, ElementOfSeq
  <2>2. \A i \in 1 .. Len(u) : Replaced(u[i], verdicts[k + i]) \in Bytes
    BY <1>1, <2>1
  <2>3. pieces(u, k) \in [1 .. Len(u) -> Bytes]
    BY <2>1, <2>2
  <2> QED
    BY <2>1, <2>3
<1>3. \A u, k : Sent(u, verdicts, k) = FlattenSeq(pieces(u, k))
  BY DEF Sent
<1>4. Sent(s, verdicts, seen) \in Bytes
  <2>1. pieces(s, seen) \in Seq(Bytes)
    BY <1>2
  <2> HIDE DEF pieces
  <2> QED
    BY <1>3, <2>1, FlattenType DEF Bytes
<1>5. Sent(s \o t, verdicts, seen) = Sent(s, verdicts, seen) \o Sent(t, verdicts, seen + Len(s))
  <2> DEFINE n == Len(s)
             m == Len(t)
             both == s \o t
             p == pieces(s, seen)
             q == pieces(t, seen + n)
             r == pieces(both, seen)
  <2>1. /\ n \in Nat /\ m \in Nat /\ seen + n \in Nat
        /\ both \in Seq(Messages) /\ Len(both) = n + m
        /\ \A i \in 1 .. n + m : both[i] = IF i <= n THEN s[i] ELSE t[i - n]
    BY LenProperties, ConcatProperties
  <2> HIDE DEF both
  <2>2. /\ p \in Seq(Bytes) /\ Len(p) = n /\ DOMAIN s = 1 .. n
        /\ q \in Seq(Bytes) /\ Len(q) = m /\ DOMAIN t = 1 .. m
        /\ r \in Seq(Bytes) /\ Len(r) = n + m /\ DOMAIN both = 1 .. n + m
    <3> HIDE DEF pieces
    <3> QED
      BY <1>2, <2>1
  <2>3. \A i \in 1 .. n + m : r[i] = IF i <= n THEN p[i] ELSE q[i - n]
    <3> SUFFICES ASSUME NEW i \in 1 .. n + m PROVE r[i] = IF i <= n THEN p[i] ELSE q[i - n]
      OBVIOUS
    <3>1. r[i] = Replaced(both[i], verdicts[seen + i])
      BY <2>2
    <3>2. CASE i <= n
      <4>1. i \in 1 .. n
        BY <2>1, <3>2
      <4>2. p[i] = Replaced(s[i], verdicts[seen + i])
        BY <2>2, <4>1
      <4> HIDE DEF p, r
      <4> QED
        BY <2>1, <3>1, <3>2, <4>2
    <3>3. CASE ~(i <= n)
      <4>1. i - n \in 1 .. m /\ (seen + n) + (i - n) = seen + i
        BY <2>1, <3>3
      <4>2. q[i - n] = Replaced(t[i - n], verdicts[(seen + n) + (i - n)])
        BY <2>2, <4>1
      <4> HIDE DEF q, r
      <4> QED
        BY <2>1, <3>1, <3>3, <4>1, <4>2
    <3> QED
      BY <3>2, <3>3
  <2> HIDE DEF p, q, r, pieces, n, m
  <2>4. /\ p \o q \in Seq(Bytes) /\ Len(p \o q) = n + m
        /\ \A i \in 1 .. n + m : (p \o q)[i] = IF i <= n THEN p[i] ELSE q[i - n]
    <3>1. /\ p \o q \in Seq(Bytes) /\ Len(p \o q) = Len(p) + Len(q)
          /\ \A i \in 1 .. Len(p) + Len(q) : (p \o q)[i] = IF i <= Len(p) THEN p[i] ELSE q[i - Len(p)]
      BY <2>2, ConcatProperties
    <3> QED
      BY <2>2, <3>1
  <2>5. r = p \o q
    <3>1. \A i \in 1 .. Len(r) : r[i] = (p \o q)[i]
      BY <2>2, <2>3, <2>4
    <3> QED
      BY <2>2, <2>4, <3>1, SeqEqual
  <2>6. FlattenSeq(r) = FlattenSeq(p) \o FlattenSeq(q)
    BY <2>2, <2>5, FlattenConcat DEF Bytes
  <2> QED
    BY <1>3, <2>6 DEF p, q, r, n, both
<1> QED
  BY <1>4, <1>5

\* The prefixes of a sequence, one after the other.
LEMMA PrefixesGrow ==
    ASSUME NEW S, NEW s \in Seq(S)
    PROVE  /\ SubSeq(s, 1, 0) = <<>>
           /\ SubSeq(s, 1, Len(s)) = s
           /\ \A c \in 0 .. Len(s) :
                 /\ SubSeq(s, 1, c) \in Seq(S)
                 /\ c < Len(s) => SubSeq(s, 1, c + 1) = Append(SubSeq(s, 1, c), s[c + 1])
<1> DEFINE n == Len(s)
           front(c) == SubSeq(s, 1, c)
<1>1. n \in Nat /\ \A i \in 1 .. n : s[i] \in S
  BY LenProperties, ElementOfSeq
<1>2. \A c \in 0 .. n :
         /\ front(c) \in Seq(S) /\ Len(front(c)) = c
         /\ \A i \in 1 .. c : front(c)[i] = s[i]
  <2> SUFFICES ASSUME NEW c \in 0 .. n
               PROVE  /\ front(c) \in Seq(S) /\ Len(front(c)) = c
                      /\ \A i \in 1 .. c : front(c)[i] = s[i]
    OBVIOUS
  <2> HIDE DEF n
  <2>1. \A i \in 1 .. c : s[i] \in S
    BY <1>1
  <2> QED
    BY <1>1, <2>1, SubSeqProperties
<1>3. front(0) = <<>>
  <2>1. front(0) \in Seq(S) /\ Len(front(0)) = 0
    BY <1>1, <1>2
  <2> HIDE DEF front
  <2> QED
    BY <2>1, EmptySeq
<1>4. front(n) = s
  BY SubSeqFull
<1>5. \A c \in 0 .. n : c < n => front(c + 1) = Append(front(c), s[c + 1])
  <2> SUFFICES ASSUME NEW c \in 0 .. n, c < n
               PROVE  front(c + 1) = Append(front(c), s[c + 1])
    OBVIOUS
  <2> HIDE DEF n, front
  <2>1. c + 1 \in 0 .. n /\ c + 1 \in 1 .. n
    BY <1>1
  <2>2. /\ front(c + 1) \in Seq(S) /\ Len(front(c + 1)) = c + 1
        /\ \A i \in 1 .. c + 1 : front(c + 1)[i] = s[i]
    BY <1>2, <2>1
  <2>3. /\ front(c) \in Seq(S) /\ Len(front(c)) = c
        /\ \A i \in 1 .. c : front(c)[i] = s[i]
        /\ s[c + 1] \in S
    BY <1>1, <1>2, <2>1
  <2>4. /\ Append(front(c), s[c + 1]) \in Seq(S)
        /\ Len(Append(front(c), s[c + 1])) = c + 1
        /\ \A i \in 1 .. c + 1 : Append(front(c), s[c + 1])[i] = s[i]
    BY <2>3, AppendProperties
  <2> QED
    BY <2>2, <2>4, SeqEqual
<1> QED
  BY <1>2, <1>3, <1>4, <1>5

\* What the first chunks bring.
Arrived(chunks, c) == FlattenSeq(SubSeq(chunks, 1, c))

LEMMA ArrivedSoFar ==
    ASSUME NEW chunks \in Seq(Bytes)
    PROVE  /\ Arrived(chunks, 0) = <<>>
           /\ Arrived(chunks, Len(chunks)) = FlattenSeq(chunks)
           /\ \A c \in 0 .. Len(chunks) :
                 /\ Arrived(chunks, c) \in Bytes
                 /\ c < Len(chunks) =>
                       Arrived(chunks, c + 1) = Arrived(chunks, c) \o chunks[c + 1]
<1> DEFINE n == Len(chunks)
           front(c) == SubSeq(chunks, 1, c)
<1>1. n \in Nat /\ \A i \in 1 .. n : chunks[i] \in Bytes
  BY LenProperties, ElementOfSeq
<1>2. /\ front(0) = <<>> /\ front(n) = chunks
      /\ \A c \in 0 .. n : front(c) \in Seq(Bytes)
      /\ \A c \in 0 .. n : c < n => front(c + 1) = Append(front(c), chunks[c + 1])
  BY PrefixesGrow
<1> HIDE DEF front, n
<1>3. <<>> \in Seq(Bytes)
  BY EmptySeq
<1>4. \A c : Arrived(chunks, c) = FlattenSeq(front(c))
  BY DEF Arrived, front
<1>5. Arrived(chunks, 0) = <<>>
  BY <1>2, <1>3, <1>4, FlattenType DEF Bytes
<1>6. \A c \in 0 .. n : Arrived(chunks, c) \in Bytes
  BY <1>2, <1>4, FlattenType DEF Bytes
<1>7. ASSUME NEW c \in 0 .. n, c < n
      PROVE  Arrived(chunks, c + 1) = Arrived(chunks, c) \o chunks[c + 1]
  <2>1. chunks[c + 1] \in Bytes /\ front(c) \in Seq(Bytes)
    BY <1>1, <1>2, <1>7
  <2>2. front(c + 1) = Append(front(c), chunks[c + 1])
    BY <1>2, <1>7
  <2>3. FlattenSeq(Append(front(c), chunks[c + 1])) = FlattenSeq(front(c)) \o chunks[c + 1]
    BY <2>1, FlattenAppend DEF Bytes
  <2> QED
    BY <1>4, <2>2, <2>3
<1> QED
  BY <1>2, <1>4, <1>5, <1>6, <1>7 DEF n

\* After some chunks the observer is where one chunk with all their bytes takes it.
LEMMA ObserveAll ==
    ASSUME NEW chunks \in Seq(Bytes)
    PROVE  LET bytes == FlattenSeq(chunks)
           IN  Observe(chunks) = [buf |-> Drain(bytes).rest, out |-> bytes,
                                  reported |-> Drain(bytes).messages]
<1> DEFINE n == Len(chunks)
           sofar(c) == Arrived(chunks, c)
           State(c) == [buf |-> Drain(sofar(c)).rest, out |-> sofar(c),
                        reported |-> Drain(sofar(c)).messages]
           Is(f) == f = [c \in 0 .. n |-> IF c = 0 THEN [buf |-> <<>>, out |-> <<>>, reported |-> <<>>]
                                          ELSE ReadChunk(f[c - 1], chunks[c])]
           loop == CHOOSE f : Is(f)
<1>1. /\ n \in Nat
      /\ sofar(0) = <<>> /\ sofar(n) = FlattenSeq(chunks)
      /\ \A c \in 1 .. n : chunks[c] \in Bytes
      /\ \A c \in 0 .. n : sofar(c) \in Bytes
      /\ \A c \in 0 .. n : c < n => sofar(c + 1) = sofar(c) \o chunks[c + 1]
  BY ArrivedSoFar, LenProperties, ElementOfSeq
<1>2. Observe(chunks) = loop[n]
  BY DEF Observe
<1> HIDE DEF n, sofar
<1>3. State(0) = [buf |-> <<>>, out |-> <<>>, reported |-> <<>>]
  <2>1. <<>> \in Bytes /\ Len(<<>>) = 0
    BY EmptySeq DEF Bytes
  <2>2. Drain(<<>>) = Nothing(<<>>)
    BY <2>1, DrainStops DEF HasMessage, HeaderSize
  <2> QED
    BY <1>1, <2>2 DEF Nothing
<1>4. \A c \in 0 .. n : c < n => State(c + 1) = ReadChunk(State(c), chunks[c + 1])
  <2> SUFFICES ASSUME NEW c \in 0 .. n, c < n
               PROVE  State(c + 1) = ReadChunk(State(c), chunks[c + 1])
    OBVIOUS
  <2> DEFINE b == sofar(c)
             x == chunks[c + 1]
  <2>1. sofar(c) \in Bytes /\ chunks[c + 1] \in Bytes /\ sofar(c + 1) = sofar(c) \o chunks[c + 1]
    <3>1. c + 1 \in 1 .. n
      BY <1>1
    <3> QED
      BY <1>1, <3>1
  <2>2. Drain(b \o x) = Joined(Drain(b), Drain(Drain(b).rest \o x))
    BY <2>1, DrainInTwo
  <2> HIDE DEF b, x
  <2>3. ReadChunk([buf |-> Drain(b).rest, out |-> b, reported |-> Drain(b).messages], x) =
           [buf |-> Drain(b \o x).rest, out |-> b \o x, reported |-> Drain(b \o x).messages]
    BY <2>2 DEF ReadChunk, Joined
  <2> QED
    BY <2>1, <2>3 DEF b, x
<1> HIDE DEF State
<1>5. \E f : Is(f)
  <2> DEFINE f == [c \in 0 .. n |-> State(c)]
  <2>1. \A c \in 0 .. n : State(c) = IF c = 0 THEN [buf |-> <<>>, out |-> <<>>, reported |-> <<>>]
                                     ELSE ReadChunk(f[c - 1], chunks[c])
    <3> SUFFICES ASSUME NEW c \in 0 .. n, c # 0 PROVE State(c) = ReadChunk(f[c - 1], chunks[c])
      BY <1>3
    <3>1. c - 1 \in 0 .. n /\ c - 1 < n /\ (c - 1) + 1 = c
      BY <1>1
    <3>2. State((c - 1) + 1) = ReadChunk(State(c - 1), chunks[(c - 1) + 1])
      BY <1>4, <3>1
    <3>3. f[c - 1] = State(c - 1)
      BY <3>1
    <3> HIDE DEF f
    <3> QED
      BY <3>1, <3>2, <3>3
  <2>2. Is(f)
    BY <2>1
  <2> QED
    BY <2>2
<1>6. Is(loop)
  BY <1>5
<1> HIDE DEF loop
<1>7. loop[0] = State(0) /\ \A c \in 0 .. n : c < n => loop[c + 1] = ReadChunk(loop[c], chunks[c + 1])
  <2>1. 0 \in 0 .. n /\ \A c \in 0 .. n : c < n => c + 1 \in 0 .. n /\ c + 1 # 0 /\ (c + 1) - 1 = c
    BY <1>1
  <2> QED
    BY <1>3, <1>6, <2>1
<1> DEFINE T == {c \in Nat : c <= n => loop[c] = State(c)}
<1>8. 0 \in T
  BY <1>7
<1>9. ASSUME NEW c \in Nat, c \in T PROVE c + 1 \in T
  <2> SUFFICES ASSUME c + 1 <= n PROVE loop[c + 1] = State(c + 1)
    OBVIOUS
  <2>1. c \in 0 .. n /\ c < n /\ c <= n
    BY <1>1
  <2>2. loop[c] = State(c)
    BY <1>9, <2>1
  <2> QED
    BY <1>4, <1>7, <2>1, <2>2
<1>10. loop[n] = State(n)
  <2> HIDE DEF T
  <2>1. Nat \subseteq T
    BY <1>8, <1>9, SetInduction
  <2> QED
    BY <1>1, <2>1 DEF T
<1> QED
  BY <1>1, <1>2, <1>10 DEF State

\* The same for the tampering reader, which has one verdict per message of the stream.
LEMMA TamperAll ==
    ASSUME NEW chunks \in Seq(Bytes), NEW verdicts
    PROVE  LET drained == Drain(FlattenSeq(chunks))
           IN  Tamper(chunks, verdicts) = Sent(drained.messages, verdicts, 0) \o drained.rest
<1> DEFINE n == Len(chunks)
           sofar(c) == Arrived(chunks, c)
           State(c) == [in |-> Drain(sofar(c)).rest,
                        out |-> Sent(Drain(sofar(c)).messages, verdicts, 0),
                        seen |-> Len(Drain(sofar(c)).messages)]
           Is(f) == f = [c \in 0 .. n |-> IF c = 0 THEN [in |-> <<>>, out |-> <<>>, seen |-> 0]
                                          ELSE Fill(f[c - 1], chunks[c], verdicts)]
           loop == CHOOSE f : Is(f)
<1>1. /\ n \in Nat
      /\ sofar(0) = <<>> /\ sofar(n) = FlattenSeq(chunks)
      /\ \A c \in 1 .. n : chunks[c] \in Bytes
      /\ \A c \in 0 .. n : sofar(c) \in Bytes
      /\ \A c \in 0 .. n : c < n => sofar(c + 1) = sofar(c) \o chunks[c + 1]
  BY ArrivedSoFar, LenProperties, ElementOfSeq
<1>2. Tamper(chunks, verdicts) = loop[n].out \o loop[n].in
  BY DEF Tamper
<1> HIDE DEF n, sofar
<1>3. State(0) = [in |-> <<>>, out |-> <<>>, seen |-> 0]
  <2>1. <<>> \in Bytes /\ Len(<<>>) = 0 /\ <<>> \in Seq(Messages)
    BY EmptySeq DEF Bytes
  <2>2. Drain(<<>>) = Nothing(<<>>)
    BY <2>1, DrainStops DEF HasMessage, HeaderSize
  <2>3. Drain(<<>>).rest = <<>> /\ Drain(<<>>).messages = <<>>
    BY <2>2 DEF Nothing
  <2>4. Sent(<<>>, verdicts, 0) = <<>>
    BY SentNothing
  <2> QED
    BY <1>1, <2>1, <2>3, <2>4
<1>4. \A c \in 0 .. n : c < n => State(c + 1) = Fill(State(c), chunks[c + 1], verdicts)
  <2> SUFFICES ASSUME NEW c \in 0 .. n, c < n
               PROVE  State(c + 1) = Fill(State(c), chunks[c + 1], verdicts)
    OBVIOUS
  <2> DEFINE b == sofar(c)
             x == chunks[c + 1]
             d == Drain(b)
             e == Drain(d.rest \o x)
  <2>1. b \in Bytes /\ x \in Bytes /\ sofar(c + 1) = b \o x
    <3>1. c + 1 \in 1 .. n
      BY <1>1
    <3> QED
      BY <1>1, <3>1
  <2> HIDE DEF b, x
  <2>2. Drain(b \o x) = Joined(d, e)
    BY <2>1, DrainInTwo
  <2>3. d \in Draining
    BY <2>1, DrainStops
  <2>4. e \in Draining
    <3>1. d.rest \in Bytes
      BY <2>3 DEF Draining
    <3> HIDE DEF d
    <3>2. d.rest \o x \in Bytes
      BY <2>1, <3>1, ConcatProperties DEF Bytes
    <3> QED
      BY <3>2, DrainStops
  <2>5. e = Drain(d.rest \o x)
    OBVIOUS
  <2> HIDE DEF d, e
  <2>6. /\ d.messages \in Seq(Messages) /\ e.messages \in Seq(Messages)
        /\ Len(d.messages) \in Nat
        /\ Len(d.messages \o e.messages) = Len(d.messages) + Len(e.messages)
    <3>1. d.messages \in Seq(Messages) /\ e.messages \in Seq(Messages)
      BY <2>3, <2>4 DEF Draining
    <3> QED
      BY <3>1, LenProperties, ConcatProperties
  <2>7. Sent(d.messages \o e.messages, verdicts, 0) =
           Sent(d.messages, verdicts, 0) \o Sent(e.messages, verdicts, Len(d.messages))
    <3>1. Sent(d.messages \o e.messages, verdicts, 0) =
             Sent(d.messages, verdicts, 0) \o Sent(e.messages, verdicts, 0 + Len(d.messages))
      <4>1. \A k \in Nat, s, t \in Seq(Messages) :
               Sent(s \o t, verdicts, k) = Sent(s, verdicts, k) \o Sent(t, verdicts, k + Len(s))
        BY SentInTwo
      <4>2. 0 \in Nat
        OBVIOUS
      <4> QED
        BY <2>6, <4>1, <4>2
    <3>2. 0 + Len(d.messages) = Len(d.messages)
      BY <2>6
    <3> QED
      BY <3>1, <3>2
  <2>8. Fill([in |-> d.rest, out |-> Sent(d.messages, verdicts, 0), seen |-> Len(d.messages)],
             x, verdicts) =
           [in |-> e.rest,
            out |-> Sent(d.messages, verdicts, 0) \o Sent(e.messages, verdicts, Len(d.messages)),
            seen |-> Len(d.messages) + Len(e.messages)]
    BY <2>5 DEF Fill
  <2>9. State(c) = [in |-> d.rest, out |-> Sent(d.messages, verdicts, 0), seen |-> Len(d.messages)]
    BY DEF d, b
  <2>10. State(c + 1) = [in |-> e.rest, out |-> Sent(d.messages \o e.messages, verdicts, 0),
                         seen |-> Len(d.messages \o e.messages)]
    <3>1. Drain(b \o x).rest = e.rest /\ Drain(b \o x).messages = d.messages \o e.messages
      <4>1. Joined(d, e).rest = e.rest /\ Joined(d, e).messages = d.messages \o e.messages
        BY DEF Joined
      <4> QED
        BY <2>2, <4>1
    <3> QED
      BY <2>1, <3>1
  <2> HIDE DEF State
  <2> QED
    BY <2>6, <2>7, <2>8, <2>9, <2>10 DEF x
<1> HIDE DEF State
<1>5. \E f : Is(f)
  <2> DEFINE f == [c \in 0 .. n |-> State(c)]
  <2>1. \A c \in 0 .. n : State(c) = IF c = 0 THEN [in |-> <<>>, out |-> <<>>, seen |-> 0]
                                     ELSE Fill(f[c - 1], chunks[c], verdicts)
    <3> SUFFICES ASSUME NEW c \in 0 .. n, c # 0 PROVE State(c) = Fill(f[c - 1], chunks[c], verdicts)
      BY <1>3
    <3>1. c - 1 \in 0 .. n /\ c - 1 < n /\ (c - 1) + 1 = c
      BY <1>1
    <3>2. State((c - 1) + 1) = Fill(State(c - 1), chunks[(c - 1) + 1], verdicts)
      BY <1>4, <3>1
    <3>3. f[c - 1] = State(c - 1)
      BY <3>1
    <3> HIDE DEF f
    <3> QED
      BY <3>1, <3>2, <3>3
  <2>2. Is(f)
    BY <2>1
  <2> QED
    BY <2>2
<1>6. Is(loop)
  BY <1>5
<1> HIDE DEF loop
<1>7. /\ loop[0] = State(0)
      /\ \A c \in 0 .. n : c < n => loop[c + 1] = Fill(loop[c], chunks[c + 1], verdicts)
  <2>1. 0 \in 0 .. n /\ \A c \in 0 .. n : c < n => c + 1 \in 0 .. n /\ c + 1 # 0 /\ (c + 1) - 1 = c
    BY <1>1
  <2> QED
    BY <1>3, <1>6, <2>1
<1> DEFINE T == {c \in Nat : c <= n => loop[c] = State(c)}
<1>8. 0 \in T
  BY <1>7
<1>9. ASSUME NEW c \in Nat, c \in T PROVE c + 1 \in T
  <2> SUFFICES ASSUME c + 1 <= n PROVE loop[c + 1] = State(c + 1)
    OBVIOUS
  <2>1. c \in 0 .. n /\ c < n /\ c <= n
    BY <1>1
  <2>2. loop[c] = State(c)
    BY <1>9, <2>1
  <2> QED
    BY <1>4, <1>7, <2>1, <2>2
<1>10. loop[n] = State(n)
  <2> HIDE DEF T
  <2>1. Nat \subseteq T
    BY <1>8, <1>9, SetInduction
  <2> QED
    BY <1>1, <2>1 DEF T
<1> DEFINE drained == Drain(FlattenSeq(chunks))
<1>11. loop[n] = [in |-> drained.rest, out |-> Sent(drained.messages, verdicts, 0),
                  seen |-> Len(drained.messages)]
  BY <1>1, <1>10 DEF State
<1> HIDE DEF drained
<1>12. loop[n].in = drained.rest /\ loop[n].out = Sent(drained.messages, verdicts, 0)
  BY <1>11
<1> QED
  BY <1>2, <1>12 DEF drained

\* However a stream of whole messages and a piece of another is cut into chunks, the
\* observer, the tampering reader and the decoder read the same messages.
THEOREM ReadersAgree ==
    ASSUME NEW messages \in Seq(Messages), NEW tail \in Bytes, ~HasMessage(tail), NEW verdicts,
           NEW chunks \in Seq(Bytes),
           FlattenSeq(chunks) = EncodeGRPCFrames(messages) \o tail
    PROVE  ReadsAgree(messages, tail, verdicts, chunks)
<1> DEFINE code == EncodeGRPCFrames(messages)
           bytes == code \o tail
           sent == Sent(messages, verdicts, 0)
<1>1. Drain(bytes) = [messages |-> messages, rest |-> tail]
  BY DrainEncoded
<1>2. code \in Bytes
  BY EncodeFrames
<1> HIDE DEF code
<1>3. Observe(chunks) = [buf |-> tail, out |-> bytes, reported |-> messages]
  <2>1. Observe(chunks) = [buf |-> Drain(bytes).rest, out |-> bytes,
                           reported |-> Drain(bytes).messages]
    BY ObserveAll DEF code
  <2> HIDE DEF bytes
  <2> QED
    BY <1>1, <2>1
<1>4. Tamper(chunks, verdicts) = sent \o tail
  <2>1. Tamper(chunks, verdicts) = Sent(Drain(bytes).messages, verdicts, 0) \o Drain(bytes).rest
    BY TamperAll DEF code
  <2> HIDE DEF bytes
  <2> QED
    BY <1>1, <2>1
<1>5. DecodeGRPCFrames(bytes) = [ok |-> tail = <<>>, messages |-> messages]
  <2>1. code = code \o tail <=> tail = <<>>
    BY <1>2, ConcatEqualIffEmpty DEF Bytes
  <2>2. DecodeGRPCFrames(bytes) = [ok |-> code = bytes, messages |-> messages]
    <3> HIDE DEF bytes
    <3> QED
      BY <1>1 DEF DecodeGRPCFrames, code
  <2>3. (code = bytes) = (tail = <<>>)
    BY <2>1
  <2> HIDE DEF bytes
  <2> QED
    BY <2>2, <2>3
<1> HIDE DEF bytes, sent
<1> QED
  BY <1>3, <1>4, <1>5 DEF ReadsAgree, bytes, sent, code


\* What is cut into chunks is the chunks put together.
LEMMA ChunkingsOfBytes ==
    ASSUME NEW bytes \in Bytes, NEW chunks \in Chunkings(bytes)
    PROVE  chunks \in Seq(Bytes) /\ FlattenSeq(chunks) = bytes
<1> DEFINE n == Len(bytes)
           C == Seq(Bytes)
           Goes(X, b) ==
               {Append(c, <<b>>) : c \in X} \cup
               {Append(Front(c), Append(Last(c), b)) : c \in X \ {<<>>}}
           Is(f) == f = [i \in 0 .. n |-> IF i = 0 THEN {<<>>} ELSE
                           {Append(c, <<bytes[i]>>) : c \in f[i - 1]} \cup
                           {Append(Front(c), Append(Last(c), bytes[i])) : c \in f[i - 1] \ {<<>>}}]
           loop == CHOOSE f : Is(f)
<1>1. n \in Nat /\ \A i \in 1 .. n : bytes[i] \in Nat
  BY LenProperties, ElementOfSeq DEF Bytes
<1>2. Chunkings(bytes) = loop[n]
  BY DEF Chunkings
<1>3. \A f : Is(f) <=> f = [i \in 0 .. n |-> IF i = 0 THEN {<<>>} ELSE Goes(f[i - 1], bytes[i])]
  OBVIOUS
<1>4. <<>> \in C
  BY EmptySeq
<1>5. ASSUME NEW c \in C, NEW b \in Nat
      PROVE  /\ Append(c, <<b>>) \in C
             /\ FlattenSeq(Append(c, <<b>>)) = Append(FlattenSeq(c), b)
             /\ c # <<>> =>
                   /\ Append(Front(c), Append(Last(c), b)) \in C
                   /\ FlattenSeq(Append(Front(c), Append(Last(c), b))) = Append(FlattenSeq(c), b)
  <2>1. <<b>> \in Bytes
    BY DEF Bytes
  <2>2. FlattenSeq(c) \in Bytes
    BY FlattenType DEF Bytes
  <2>3. FlattenSeq(c) \o <<b>> = Append(FlattenSeq(c), b)
    BY <2>2, AppendIsConcat DEF Bytes
  <2>4. Append(c, <<b>>) \in C
    BY <2>1, AppendProperties
  <2>5. FlattenSeq(Append(c, <<b>>)) = FlattenSeq(c) \o <<b>>
    BY <2>1, FlattenAppend DEF Bytes
  <2>6. ASSUME c # <<>>
        PROVE  /\ Append(Front(c), Append(Last(c), b)) \in C
               /\ FlattenSeq(Append(Front(c), Append(Last(c), b))) = Append(FlattenSeq(c), b)
    <3> DEFINE f == Front(c)
               l == Last(c)
    <3>1. f \in C /\ l \in Bytes /\ c = Append(f, l)
      <4>1. Len(c) \in Nat /\ Len(c) > 0
        BY <2>6, EmptySeq, LenProperties
      <4>2. Len(c) - 1 \in 0 .. Len(c) /\ Len(c) - 1 < Len(c) /\ (Len(c) - 1) + 1 = Len(c)
            /\ Len(c) \in 1 .. Len(c)
        BY <4>1
      <4>3. /\ SubSeq(c, 1, Len(c) - 1) \in Seq(Bytes)
            /\ SubSeq(c, 1, (Len(c) - 1) + 1) = Append(SubSeq(c, 1, Len(c) - 1), c[(Len(c) - 1) + 1])
            /\ SubSeq(c, 1, Len(c)) = c
        BY <4>2, PrefixesGrow
      <4>4. c[Len(c)] \in Bytes
        BY <4>2, ElementOfSeq
      <4> QED
        BY <4>2, <4>3, <4>4 DEF Front, Last
    <3> HIDE DEF f, l
    <3>2. Append(l, b) \in Bytes /\ Append(l, b) = l \o <<b>>
      BY <3>1, AppendProperties, AppendIsConcat DEF Bytes
    <3>3. Append(f, Append(l, b)) \in C
      BY <3>1, <3>2, AppendProperties
    <3>4. FlattenSeq(Append(f, Append(l, b))) = FlattenSeq(f) \o Append(l, b)
      BY <3>1, <3>2, FlattenAppend DEF Bytes
    <3>5. FlattenSeq(c) = FlattenSeq(f) \o l
      BY <3>1, FlattenAppend DEF Bytes
    <3>6. FlattenSeq(f) \in Bytes
      BY <3>1, FlattenType DEF Bytes
    <3>7. FlattenSeq(f) \o Append(l, b) = Append(FlattenSeq(f) \o l, b)
      BY <3>1, <3>6, AppendConcat DEF Bytes
    <3> QED
      BY <3>3, <3>4, <3>5, <3>7 DEF f, l
  <2> QED
    BY <2>3, <2>4, <2>5, <2>6
<1> HIDE DEF n, C, Is
<1>6. ASSUME NEW X \in SUBSET C, NEW b \in Nat PROVE Goes(X, b) \in SUBSET C
  BY <1>5
<1>7. \E f : Is(f)
  <2> DEFINE Sets == SUBSET C
             step == [i \in 1 .. n |-> [X \in Sets |-> Goes(X, bytes[i])]]
  <2>1. step \in [1 .. n -> [Sets -> Sets]]
    <3> HIDE DEF Goes
    <3> QED
      BY <1>1, <1>6
  <2>2. {<<>>} \in Sets
    BY <1>4
  <2> HIDE DEF step, Sets, Goes
  <2>3. PICK f \in Loops(Sets, {<<>>}, n, step) : TRUE
    <3>1. PICK base \in Sets : base = {<<>>}
      BY <2>2
    <3>2. Loops(Sets, base, n, step) # {}
      BY <1>1, <2>1, Recursion
    <3> QED
      BY <3>1, <3>2
  <2>4. f \in [0 .. n -> Sets] /\ f[0] = {<<>>}
    BY <2>3 DEF Loops
  <2>5. ASSUME NEW i \in 1 .. n PROVE f[i] = Goes(f[i - 1], bytes[i])
    <3>1. i - 1 \in 0 .. n
      BY <1>1
    <3>2. f[i - 1] \in Sets
      BY <2>4, <3>1
    <3>3. f[i] = step[i][f[i - 1]]
      BY <2>3 DEF Loops
    <3> QED
      BY <3>2, <3>3 DEF step
  <2>6. \A i \in 0 .. n : f[i] = IF i = 0 THEN {<<>>} ELSE Goes(f[i - 1], bytes[i])
    <3>1. \A i \in 0 .. n : i = 0 \/ i \in 1 .. n
      BY <1>1
    <3> QED
      BY <2>4, <2>5, <3>1
  <2>7. f = [i \in 0 .. n |-> f[i]]
    BY <2>4
  <2> QED
    BY <1>3, <2>6, <2>7
<1>8. Is(loop)
  BY <1>7
<1> HIDE DEF loop, Goes
<1>9. loop[0] = {<<>>} /\ \A i \in 0 .. n : i < n => loop[i + 1] = Goes(loop[i], bytes[i + 1])
  <2>1. 0 \in 0 .. n /\ \A i \in 0 .. n : i < n => i + 1 \in 0 .. n /\ i + 1 # 0 /\ (i + 1) - 1 = i
    BY <1>1
  <2>2. \A i \in 0 .. n : loop[i] = IF i = 0 THEN {<<>>} ELSE Goes(loop[i - 1], bytes[i])
    BY <1>3, <1>8
  <2> QED
    BY <2>1, <2>2
<1>10. /\ SubSeq(bytes, 1, 0) = <<>> /\ SubSeq(bytes, 1, n) = bytes
       /\ \A i \in 0 .. n : i < n => SubSeq(bytes, 1, i + 1) = Append(SubSeq(bytes, 1, i), bytes[i + 1])
  BY PrefixesGrow DEF Bytes, n
<1> DEFINE Cut(i) == {c \in C : FlattenSeq(c) = SubSeq(bytes, 1, i)}
           T == {i \in Nat : i <= n => loop[i] \subseteq Cut(i)}
<1>11. 0 \in T
  <2>1. FlattenSeq(<<>>) = <<>>
    BY <1>4, FlattenType DEF Bytes, C
  <2> QED
    BY <1>4, <1>9, <1>10, <2>1
<1>12. ASSUME NEW i \in Nat, i \in T PROVE i + 1 \in T
  <2> SUFFICES ASSUME i + 1 <= n, NEW c \in loop[i + 1] PROVE c \in Cut(i + 1)
    OBVIOUS
  <2>1. i \in 0 .. n /\ i < n /\ i <= n /\ i + 1 \in 1 .. n
    BY <1>1
  <2>2. loop[i] \subseteq Cut(i)
    BY <1>12, <2>1
  <2> DEFINE b == bytes[i + 1]
  <2>3. b \in Nat /\ c \in Goes(loop[i], b)
    BY <1>1, <1>9, <2>1
  <2>4. SubSeq(bytes, 1, i + 1) = Append(SubSeq(bytes, 1, i), b)
    BY <1>10, <2>1
  <2> HIDE DEF b
  <2>5. CASE \E d \in loop[i] : c = Append(d, <<b>>)
    BY <1>5, <2>2, <2>3, <2>4, <2>5
  <2>6. CASE \E d \in loop[i] \ {<<>>} : c = Append(Front(d), Append(Last(d), b))
    BY <1>5, <2>2, <2>3, <2>4, <2>6
  <2> QED
    BY <2>3, <2>5, <2>6 DEF Goes
<1>13. loop[n] \subseteq Cut(n)
  <2> HIDE DEF T
  <2>1. Nat \subseteq T
    BY <1>11, <1>12, SetInduction
  <2> QED
    BY <1>1, <2>1 DEF T
<1> QED
  BY <1>2, <1>10, <1>13 DEF C

\* However it is cut.
LEMMA FramingAgreesAlways ==
    ASSUME NEW messages \in Seq(Messages), NEW tail \in Bytes, ~HasMessage(tail), NEW verdicts
    PROVE  FramingAgreesOn(messages, tail, verdicts)
<1>1. EncodeGRPCFrames(messages) \o tail \in Bytes
  BY EncodeFrames, ConcatProperties DEF Bytes
<1> QED
  BY <1>1, ChunkingsOfBytes, ReadersAgree DEF FramingAgreesOn

\* What the run checks of it is a part of that.
THEOREM FramingOfTheRun == RepSpec => []FramingAgrees
<1> DEFINE datas == {<<>>, <<1, 0>>}
           message == [compressed : BOOLEAN, data : datas]
           tails == {<<>>, <<0>>, <<0, 2, 1>>}
<1>1. datas \subseteq Bytes /\ tails \subseteq Bytes
  BY DEF Bytes
<1>2. \A tail \in tails : ~HasMessage(tail)
  <2>1. ~HasMessage(<<>>)
    BY DEF HasMessage, HeaderSize
  <2>2. ~HasMessage(<<0>>)
    BY DEF HasMessage, HeaderSize
  <2>3. ~HasMessage(<<0, 2, 1>>)
    <3> DEFINE t == <<0, 2, 1>>
    <3>1. Len(t) = 3 /\ t[2] = 2
      OBVIOUS
    <3> HIDE DEF t
    <3>2. ~HasMessage(t)
      BY <3>1 DEF HasMessage, HeaderSize
    <3> QED
      BY <3>2 DEF t
  <2> QED
    BY <2>1, <2>2, <2>3
<1>3. message \subseteq Messages
  <2> HIDE DEF datas
  <2> QED
    BY <1>1 DEF Messages
<1> HIDE DEF message, tails
<1>4. ASSUME NEW n \in 0 .. 2, NEW tail \in tails,
             NEW messages \in [1 .. n -> message], NEW verdicts
      PROVE  FramingAgreesOn(messages, tail, verdicts)
  <2>1. messages \in [1 .. n -> Messages]
    BY <1>3
  <2>2. messages \in Seq(Messages)
    BY <2>1
  <2> QED
    BY <1>1, <1>2, <2>2, FramingAgreesAlways
<1>5. FramingAgrees
  BY <1>4 DEF FramingAgrees, message, tails
<1> QED
  BY <1>5, PTL

-----------------------------------------------------------------------------
(* The jobs of an attack.                                                  *)

\* An attack as the table in docs/repeater.md has it: a list of distinct payloads for
\* every position.
Documented(a, N, P) ==
    /\ a.positions \in Seq(N) /\ IsInjective(a.positions)
    /\ a.lists \in Seq(Seq(P)) /\ Len(a.lists) = Len(a.positions)
    /\ \A i \in DOMAIN a.lists : IsInjective(a.lists[i])
    /\ a.base \in [ToSet(a.positions) -> P]

LEMMA AttackFacts ==
    ASSUME NEW N, NEW P, NEW a, Documented(a, N, P)
    PROVE  LET n == Inserts(a)
           IN  /\ n \in Nat /\ Listed(a) = 1 .. n
               /\ Len(a.positions) = n /\ DOMAIN a.positions = 1 .. n
               /\ Len(a.lists) = n /\ DOMAIN a.lists = 1 .. n
               /\ \A i \in 1 .. n :
                     /\ a.positions[i] \in DOMAIN a.base
                     /\ a.lists[i] \in Seq(P)
                     /\ Len(a.lists[i]) \in Nat
                     /\ DOMAIN a.lists[i] = 1 .. Len(a.lists[i])
                     /\ \A k \in 1 .. Len(a.lists[i]) : a.lists[i][k] \in P
                     /\ \A k, l \in 1 .. Len(a.lists[i]) :
                           a.lists[i][k] = a.lists[i][l] => k = l
               /\ \A i, j \in 1 .. n : a.positions[i] = a.positions[j] => i = j
               /\ \A name \in DOMAIN a.base : \E i \in 1 .. n : name = a.positions[i]
               /\ DOMAIN a.base = ToSet(a.positions)
               /\ a.base \in [DOMAIN a.base -> P]
<1> DEFINE n == Len(a.positions)
<1>1. /\ n \in Nat /\ DOMAIN a.positions = 1 .. n
      /\ Len(a.lists) = n /\ DOMAIN a.lists = 1 .. n
      /\ \A i \in 1 .. n : a.lists[i] \in Seq(P)
  BY LenProperties, ElementOfSeq DEF Documented
<1>2. Inserts(a) = n
  BY <1>1 DEF Inserts
<1>3. ASSUME NEW i \in 1 .. n
      PROVE  /\ Len(a.lists[i]) \in Nat /\ DOMAIN a.lists[i] = 1 .. Len(a.lists[i])
             /\ \A k \in 1 .. Len(a.lists[i]) : a.lists[i][k] \in P
  BY <1>1, LenProperties, ElementOfSeq
<1>4. DOMAIN a.base = ToSet(a.positions) /\ a.base \in [DOMAIN a.base -> P]
  BY DEF Documented
<1>5. \A name : name \in ToSet(a.positions) <=> \E i \in 1 .. n : name = a.positions[i]
  BY <1>1 DEF ToSet
<1>6. \A i, j \in 1 .. n : a.positions[i] = a.positions[j] => i = j
  BY <1>1 DEF Documented, IsInjective
<1>7. ASSUME NEW i \in 1 .. n
      PROVE  \A k, l \in 1 .. Len(a.lists[i]) : a.lists[i][k] = a.lists[i][l] => k = l
  <2>1. \A k, l \in DOMAIN a.lists[i] : a.lists[i][k] = a.lists[i][l] => k = l
    BY <1>1 DEF Documented, IsInjective
  <2> QED
    BY <1>3, <2>1
<1> HIDE DEF n
<1> QED
  BY <1>1, <1>2, <1>3, <1>4, <1>5, <1>6, <1>7 DEF Listed, n

LEMMA PayloadFacts ==
    ASSUME NEW N, NEW P, NEW a, Documented(a, N, P), NEW i \in Listed(a)
    PROVE  /\ Len(a.lists[i]) \in Nat /\ DOMAIN a.lists[i] = 1 .. Len(a.lists[i])
           /\ \A k \in 1 .. Len(a.lists[i]) : a.lists[i][k] \in P
           /\ \A k, l \in 1 .. Len(a.lists[i]) : a.lists[i][k] = a.lists[i][l] => k = l
<1>1. i \in DOMAIN a.lists /\ i \in 1 .. Len(a.lists)
  BY AttackFacts
<1>2. a.lists[i] \in Seq(P)
  BY <1>1, ElementOfSeq DEF Documented
<1>3. /\ Len(a.lists[i]) \in Nat /\ DOMAIN a.lists[i] = 1 .. Len(a.lists[i])
      /\ \A k \in 1 .. Len(a.lists[i]) : a.lists[i][k] \in P
  BY <1>2, LenProperties, ElementOfSeq
<1> QED
  BY <1>1, <1>3 DEF Documented, IsInjective

\* A payload for each position.
LEMMA InsertingFacts ==
    ASSUME NEW N, NEW P, NEW a, Documented(a, N, P), NEW payloads \in [Listed(a) -> P]
    PROVE  /\ Inserting(a, payloads) \in [DOMAIN a.base -> P]
           /\ \A i \in Listed(a) : Inserting(a, payloads)[a.positions[i]] = payloads[i]
<1> DEFINE n == Inserts(a)
           D == DOMAIN a.base
           at(name) == {i \in DOMAIN payloads : a.positions[i] = name}
           job == [name \in D \cup {a.positions[i] : i \in DOMAIN payloads} |->
                      IF at(name) = {} THEN a.base[name] ELSE payloads[Max(at(name))]]
<1>1. /\ n \in Nat /\ Listed(a) = 1 .. n
      /\ \A i \in 1 .. n : a.positions[i] \in D
      /\ \A i, j \in 1 .. n : a.positions[i] = a.positions[j] => i = j
      /\ \A name \in D : \E i \in 1 .. n : name = a.positions[i]
  BY AttackFacts
<1>2. Inserting(a, payloads) = job
  BY DEF Inserting
<1>3. DOMAIN payloads = 1 .. n /\ DOMAIN job = D
  BY <1>1
<1> HIDE DEF n, D
<1>4. ASSUME NEW i \in 1 .. n PROVE job[a.positions[i]] = payloads[i]
  <2>1. at(a.positions[i]) = {i}
    BY <1>1, <1>3
  <2>2. Max({i}) = i
    BY <1>1 DEF Max
  <2> HIDE DEF at
  <2> QED
    BY <1>1, <1>3, <2>1, <2>2
<1> HIDE DEF job
<1>5. \A name \in D : job[name] \in P
  BY <1>1, <1>4
<1>6. job = [name \in D |-> job[name]]
  BY <1>3 DEF job
<1> QED
  BY <1>1, <1>2, <1>3, <1>4, <1>5, <1>6 DEF D

\* A set of numbers that has a member has a least one, and a bounded one a greatest.
LEMMA LeastOf ==
    ASSUME NEW S, S \subseteq Nat, S # {}
    PROVE  Min(S) \in S /\ \A m \in S : Min(S) <= m
<1> DEFINE less == OpToRel(<, Nat)
<1>1. IsWellFoundedOn(less, Nat)
  BY NatLessThanWellFounded
<1>2. \A i, k \in Nat : i < k => <<i, k>> \in less
  BY DEF OpToRel
<1> HIDE DEF less
<1>3. PICK m \in S : \A k \in S : <<k, m>> \notin less
  BY <1>1, WFMin
<1>4. ASSUME NEW k \in S PROVE m <= k
  <2>1. k \in Nat /\ m \in Nat /\ ~(k < m)
    BY <1>2, <1>3
  <2> QED
    BY <2>1
<1> QED
  BY <1>4 DEF Min

LEMMA GreatestOf ==
    ASSUME NEW n \in Nat, NEW S, S \subseteq 1 .. n, S # {}
    PROVE  Max(S) \in S /\ \A m \in S : m <= Max(S)
<1> DEFINE T == {n - m : m \in S}
<1>1. \A m \in S : m \in Nat /\ m <= n /\ n - m \in Nat
  OBVIOUS
<1>2. T \subseteq Nat /\ T # {} /\ \A m \in S : n - m \in T
  BY <1>1
<1>3. Min(T) \in T /\ \A t \in T : Min(T) <= t
  BY <1>2, LeastOf
<1>4. PICK m \in S : Min(T) = n - m
  BY <1>3
<1> HIDE DEF T
<1>5. ASSUME NEW k \in S PROVE k <= m
  <2>1. n - m <= n - k
    BY <1>2, <1>3, <1>4
  <2> QED
    BY <1>1, <2>1
<1> QED
  BY <1>5 DEF Max

\* With battering-ram every position gets the same payload of the first list.
LEMMA BatteringRamDone ==
    ASSUME NEW N, NEW P, NEW a, Documented(a, N, P), a.mode = "battering-ram"
    PROVE  JobsAsDocumented(a)
<1> DEFINE n == Inserts(a)
           jobs == BatteringRamJobs(a)
           payloads(k) == [i \in DOMAIN a.positions |-> a.lists[1][k]]
<1>1. /\ n \in Nat /\ Listed(a) = 1 .. n /\ Len(a.lists) = n /\ DOMAIN a.positions = 1 .. n
      /\ \A i \in 1 .. n : /\ Len(a.lists[i]) \in Nat
                           /\ DOMAIN a.lists[i] = 1 .. Len(a.lists[i])
                           /\ \A k \in 1 .. Len(a.lists[i]) : a.lists[i][k] \in P
  BY AttackFacts
<1>2. Jobs(a) = jobs
  BY DEF Jobs
<1>3. a.lists = <<>> <=> n = 0
  BY <1>1, EmptySeq DEF Documented
<1> HIDE DEF n
<1>4. CASE n = 0
  <2>1. jobs = <<>> /\ Len(jobs) = 0 /\ DOMAIN jobs = {} /\ Count(a) = 0
    BY <1>3, <1>4 DEF BatteringRamJobs, Count
  <2> HIDE DEF jobs
  <2> QED
    BY <1>2, <2>1 DEF JobsAsDocumented
<1>5. CASE n # 0
  <2>1. 1 \in 1 .. n
    BY <1>1, <1>5
  <2> DEFINE m == Len(a.lists[1])
  <2>2. m \in Nat /\ DOMAIN a.lists[1] = 1 .. m
    BY <1>1, <2>1
  <2>3. jobs = [k \in 1 .. m |-> Inserting(a, payloads(k))]
    BY <1>3, <1>5, <2>2 DEF BatteringRamJobs
  <2>4. Count(a) = m
    BY <1>3, <1>5 DEF Count
  <2>5. ASSUME NEW k \in 1 .. m
        PROVE  /\ DOMAIN Inserting(a, payloads(k)) = DOMAIN a.base
               /\ \A i \in 1 .. n : Inserting(a, payloads(k))[a.positions[i]] = a.lists[1][k]
    <3>1. payloads(k) \in [Listed(a) -> P]
      BY <1>1, <2>1, <2>5
    <3>2. \A i \in 1 .. n : payloads(k)[i] = a.lists[1][k]
      BY <1>1
    <3> HIDE DEF payloads
    <3>3. /\ Inserting(a, payloads(k)) \in [DOMAIN a.base -> P]
          /\ \A i \in Listed(a) : Inserting(a, payloads(k))[a.positions[i]] = payloads(k)[i]
      BY <3>1, InsertingFacts
    <3> QED
      BY <1>1, <3>2, <3>3
  <2> HIDE DEF payloads, m
  <2>6. Len(jobs) = m /\ DOMAIN jobs = 1 .. m /\ \A k \in 1 .. m : jobs[k] = Inserting(a, payloads(k))
    BY <2>2, <2>3
  <2> HIDE DEF jobs
  <2>7. /\ Len(jobs) = Count(a)
        /\ \A k \in DOMAIN jobs : DOMAIN jobs[k] = DOMAIN a.base
        /\ \A k \in DOMAIN jobs : \A i \in Listed(a) : jobs[k][a.positions[i]] = a.lists[1][k]
    BY <1>1, <2>4, <2>5, <2>6
  <2> QED
    BY <1>2, <2>7 DEF JobsAsDocumented
<1> QED
  BY <1>4, <1>5

\* With pitchfork job k gives every position the payload k of its own list.
LEMMA PitchforkDone ==
    ASSUME NEW N, NEW P, NEW a, Documented(a, N, P), a.mode = "pitchfork"
    PROVE  JobsAsDocumented(a)
<1> DEFINE n == Inserts(a)
           lengths == {Len(a.lists[i]) : i \in Listed(a)}
           m == IF n = 0 THEN 0 ELSE Min(lengths)
           jobs == PitchforkJobs(a)
           payloads(k) == [i \in DOMAIN a.positions |-> a.lists[i][k]]
<1>1. /\ n \in Nat /\ Listed(a) = 1 .. n /\ Len(a.lists) = n
      /\ Len(a.positions) = n /\ DOMAIN a.positions = 1 .. n
      /\ \A i \in 1 .. n : /\ Len(a.lists[i]) \in Nat
                           /\ \A k \in 1 .. Len(a.lists[i]) : a.lists[i][k] \in P
  BY AttackFacts
<1>2. (a.lists = <<>> <=> n = 0) /\ (a.positions = <<>> <=> n = 0)
  BY <1>1, EmptySeq DEF Documented
<1> HIDE DEF n
<1>3. ~(Len(a.lists) < Len(a.positions))
  BY <1>1
<1>4. Count(a) = m
  BY <1>2 DEF Count
<1>5. jobs = [k \in 1 .. m |-> Inserting(a, payloads(k))]
  BY <1>2, <1>3 DEF PitchforkJobs
<1>6. m \in Nat /\ \A i \in 1 .. n : m <= Len(a.lists[i])
  <2>1. CASE n = 0
    BY <2>1
  <2>2. CASE n # 0
    <3>1. lengths \subseteq Nat /\ Len(a.lists[1]) \in lengths
      BY <1>1, <2>2
    <3> HIDE DEF lengths
    <3>2. Min(lengths) \in lengths /\ \A k \in lengths : Min(lengths) <= k
      BY <3>1, LeastOf
    <3>3. \A i \in 1 .. n : Len(a.lists[i]) \in lengths
      BY <1>1 DEF lengths
    <3> QED
      BY <2>2, <3>1, <3>2, <3>3
  <2> QED
    BY <2>1, <2>2
<1> HIDE DEF m
<1>7. ASSUME NEW k \in 1 .. m
      PROVE  /\ DOMAIN Inserting(a, payloads(k)) = DOMAIN a.base
             /\ \A i \in 1 .. n : Inserting(a, payloads(k))[a.positions[i]] = a.lists[i][k]
  <2>1. \A i \in 1 .. n : k \in 1 .. Len(a.lists[i])
    BY <1>1, <1>6
  <2>2. payloads(k) \in [Listed(a) -> P]
    BY <1>1, <2>1
  <2>3. \A i \in 1 .. n : payloads(k)[i] = a.lists[i][k]
    BY <1>1
  <2> HIDE DEF payloads
  <2>4. /\ Inserting(a, payloads(k)) \in [DOMAIN a.base -> P]
        /\ \A i \in Listed(a) : Inserting(a, payloads(k))[a.positions[i]] = payloads(k)[i]
    BY <2>2, InsertingFacts
  <2> QED
    BY <1>1, <2>3, <2>4
<1> HIDE DEF payloads
<1>8. Len(jobs) = m /\ DOMAIN jobs = 1 .. m /\ \A k \in 1 .. m : jobs[k] = Inserting(a, payloads(k))
  BY <1>5, <1>6
<1>9. Jobs(a) = jobs
  BY DEF Jobs
<1> HIDE DEF jobs
<1>10. /\ Len(jobs) = Count(a)
       /\ \A k \in DOMAIN jobs : DOMAIN jobs[k] = DOMAIN a.base
       /\ \A k \in DOMAIN jobs : \A i \in Listed(a) : jobs[k][a.positions[i]] = a.lists[i][k]
  BY <1>1, <1>4, <1>7, <1>8
<1> QED
  BY <1>9, <1>10 DEF JobsAsDocumented

\* A recursion over 0 .. n has a solution; with numbers it stays with numbers.
LEMMA RecursionHolds ==
    ASSUME NEW S, NEW base \in S, NEW n \in Nat, NEW step \in [1 .. n -> [S -> S]]
    PROVE  \E f \in [0 .. n -> S] : f[0] = base /\ \A i \in 1 .. n : f[i] = step[i][f[i - 1]]
BY Recursion DEF Loops

LEMMA NatRecursion ==
    \A n \in Nat, base \in Nat : \A step \in [1 .. n -> [Nat -> Nat]] :
        \E f \in [0 .. n -> Nat] : f[0] = base /\ \A i \in 1 .. n : f[i] = step[i][f[i - 1]]
<1> DEFINE T == Nat
<1> HIDE DEF T
<1>1. ASSUME NEW n \in Nat, NEW base \in T, NEW step \in [1 .. n -> [T -> T]]
      PROVE  \E f \in [0 .. n -> T] : f[0] = base /\ \A i \in 1 .. n : f[i] = step[i][f[i - 1]]
  BY RecursionHolds
<1> QED
  BY <1>1 DEF T

LEMMA NatLoop ==
    ASSUME NEW n \in Nat, NEW loop, loop[0] \in Nat,
           \A i \in 1 .. n : loop[i - 1] \in Nat => loop[i] \in Nat
    PROVE  \A i \in 0 .. n : loop[i] \in Nat
<1> DEFINE T == {i \in Nat : i <= n => loop[i] \in Nat}
<1>1. 0 \in T
  OBVIOUS
<1>2. ASSUME NEW i \in Nat, i \in T PROVE i + 1 \in T
  <2> SUFFICES ASSUME i + 1 <= n PROVE loop[i + 1] \in Nat
    OBVIOUS
  <2>1. i + 1 \in 1 .. n /\ (i + 1) - 1 = i /\ i <= n
    OBVIOUS
  <2> QED
    BY <1>2, <2>1
<1> HIDE DEF T
<1>3. Nat \subseteq T
  BY <1>1, <1>2, SetInduction
<1> QED
  BY <1>3 DEF T

\* The lengths of the lists, added up.
LEMMA SumFacts ==
    ASSUME NEW N, NEW P, NEW a, Documented(a, N, P)
    PROVE  \E sum \in [0 .. Inserts(a) -> Nat] :
              /\ sum[0] = 0 /\ LengthsAdded(a) = sum[Inserts(a)]
              /\ \A i \in 1 .. Inserts(a) : sum[i] = sum[i - 1] + Len(a.lists[i])
<1> DEFINE n == Inserts(a)
           Is(f) == f = [i \in 0 .. n |-> IF i = 0 THEN 0 ELSE f[i - 1] + Len(a.lists[i])]
           sum == CHOOSE f : Is(f)
           step == [i \in 1 .. n |-> [m \in Nat |-> m + Len(a.lists[i])]]
<1>1. n \in Nat /\ \A i \in 1 .. n : Len(a.lists[i]) \in Nat
  BY AttackFacts
<1>2. LengthsAdded(a) = sum[n]
  BY DEF LengthsAdded
<1> HIDE DEF n
<1>3. step \in [1 .. n -> [Nat -> Nat]]
  BY <1>1
<1>4. \A i \in 1 .. n, m \in Nat : step[i][m] = m + Len(a.lists[i])
  OBVIOUS
<1> HIDE DEF step
<1>5. PICK g \in [0 .. n -> Nat] : g[0] = 0 /\ \A i \in 1 .. n : g[i] = step[i][g[i - 1]]
  <2>1. \A first \in Nat : \E g \in [0 .. n -> Nat] :
           g[0] = first /\ \A i \in 1 .. n : g[i] = step[i][g[i - 1]]
    BY <1>1, <1>3, NatRecursion
  <2> QED
    BY <2>1
<1>6. Is(g)
  <2>1. \A i \in 1 .. n : i - 1 \in 0 .. n /\ g[i - 1] \in Nat
    BY <1>1
  <2>2. \A i \in 1 .. n : g[i] = g[i - 1] + Len(a.lists[i])
    BY <1>4, <1>5, <2>1
  <2>3. \A i \in 0 .. n : i = 0 \/ i \in 1 .. n
    BY <1>1
  <2>4. \A i \in 0 .. n : g[i] = IF i = 0 THEN 0 ELSE g[i - 1] + Len(a.lists[i])
    BY <1>5, <2>2, <2>3
  <2> QED
    BY <2>4
<1>7. Is(sum)
  BY <1>6
<1> HIDE DEF sum
<1>8. sum[0] = 0 /\ \A i \in 1 .. n : sum[i] = sum[i - 1] + Len(a.lists[i])
  <2>1. DOMAIN sum = 0 .. n /\ 0 \in 0 .. n /\ \A i \in 1 .. n : i \in 0 .. n /\ i # 0
    BY <1>1, <1>7
  <2> QED
    BY <1>7, <2>1
<1>9. \A i \in 0 .. n : sum[i] \in Nat
  <2>1. ASSUME NEW i \in 1 .. n, sum[i - 1] \in Nat PROVE sum[i] \in Nat
    <3>1. sum[i] = sum[i - 1] + Len(a.lists[i]) /\ Len(a.lists[i]) \in Nat
      BY <1>1, <1>8
    <3> QED
      BY <2>1, <3>1
  <2>2. sum[0] \in Nat
    BY <1>8
  <2> QED
    BY <1>1, <2>1, <2>2, NatLoop
<1>10. sum \in [0 .. n -> Nat]
  BY <1>7, <1>9
<1> QED
  BY <1>2, <1>8, <1>10 DEF n

\* The lengths of the lists, multiplied.
Products(a) ==
    {product \in [0 .. Inserts(a) -> Nat] :
        /\ product[0] = 1
        /\ \A i \in 1 .. Inserts(a) : product[i] = product[i - 1] * Len(a.lists[i])}

LEMMA ProductFacts ==
    ASSUME NEW N, NEW P, NEW a, Documented(a, N, P)
    PROVE  \E product \in Products(a) : LengthsMultiplied(a) = product[Inserts(a)]
<1> DEFINE n == Inserts(a)
           Is(f) == f = [i \in 0 .. n |-> IF i = 0 THEN 1 ELSE f[i - 1] * Len(a.lists[i])]
           product == CHOOSE f : Is(f)
           step == [i \in 1 .. n |-> [m \in Nat |-> m * Len(a.lists[i])]]
<1>1. n \in Nat /\ \A i \in 1 .. n : Len(a.lists[i]) \in Nat
  BY AttackFacts
<1>2. LengthsMultiplied(a) = product[n]
  BY DEF LengthsMultiplied
<1> HIDE DEF n
<1>3. step \in [1 .. n -> [Nat -> Nat]]
  BY <1>1
<1>4. \A i \in 1 .. n, m \in Nat : step[i][m] = m * Len(a.lists[i])
  OBVIOUS
<1> HIDE DEF step
<1>5. PICK g \in [0 .. n -> Nat] : g[0] = 1 /\ \A i \in 1 .. n : g[i] = step[i][g[i - 1]]
  <2>1. \A first \in Nat : \E g \in [0 .. n -> Nat] :
           g[0] = first /\ \A i \in 1 .. n : g[i] = step[i][g[i - 1]]
    BY <1>1, <1>3, NatRecursion
  <2> QED
    BY <2>1
<1>6. Is(g)
  <2>1. \A i \in 1 .. n : i - 1 \in 0 .. n /\ g[i - 1] \in Nat
    BY <1>1
  <2>2. \A i \in 1 .. n : g[i] = g[i - 1] * Len(a.lists[i])
    BY <1>4, <1>5, <2>1
  <2>3. \A i \in 0 .. n : i = 0 \/ i \in 1 .. n
    BY <1>1
  <2>4. \A i \in 0 .. n : g[i] = IF i = 0 THEN 1 ELSE g[i - 1] * Len(a.lists[i])
    BY <1>5, <2>2, <2>3
  <2> QED
    BY <2>4
<1>7. Is(product)
  BY <1>6
<1> HIDE DEF product
<1>8. product[0] = 1 /\ \A i \in 1 .. n : product[i] = product[i - 1] * Len(a.lists[i])
  <2>1. DOMAIN product = 0 .. n /\ 0 \in 0 .. n /\ \A i \in 1 .. n : i \in 0 .. n /\ i # 0
    BY <1>1, <1>7
  <2> QED
    BY <1>7, <2>1
<1>9. \A i \in 0 .. n : product[i] \in Nat
  <2>1. ASSUME NEW i \in 1 .. n, product[i - 1] \in Nat PROVE product[i] \in Nat
    <3>1. product[i] = product[i - 1] * Len(a.lists[i]) /\ Len(a.lists[i]) \in Nat
      BY <1>1, <1>8
    <3> QED
      BY <2>1, <3>1
  <2>2. product[0] \in Nat
    BY <1>8
  <2> QED
    BY <1>1, <2>1, <2>2, NatLoop
<1>10. product \in [0 .. n -> Nat]
  BY <1>7, <1>9
<1> QED
  BY <1>2, <1>8, <1>10 DEF Products, n

\* The jobs that set one position and leave the others at their base values.
OneSet(a, P) == {Set(a.base, a.positions[i], payload) : i \in Listed(a), payload \in P}

LEMMA OneSetFacts ==
    ASSUME NEW N, NEW P, NEW a, Documented(a, N, P), NEW i \in Listed(a), NEW payload \in P
    PROVE  LET job == Set(a.base, a.positions[i], payload)
           IN  /\ job \in [DOMAIN a.base -> P] /\ job[a.positions[i]] = payload
               /\ Cardinality(Inserted(a, job)) <= 1
               /\ Set(job, a.positions[i], a.base[a.positions[i]]) = a.base
<1> DEFINE n == Inserts(a)
           D == DOMAIN a.base
           pos == a.positions[i]
           job == Set(a.base, pos, payload)
<1>1. /\ n \in Nat /\ Listed(a) = 1 .. n /\ a.base \in [D -> P]
      /\ \A j \in 1 .. n : a.positions[j] \in D
      /\ \A j, k \in 1 .. n : a.positions[j] = a.positions[k] => j = k
  BY AttackFacts
<1> HIDE DEF n, D
<1>2. pos \in D /\ a.base[pos] \in P
  BY <1>1
<1>3. /\ job \in [D -> P] /\ job[pos] = payload
      /\ \A name \in D : name # pos => job[name] = a.base[name]
  BY <1>1, <1>2 DEF Set
<1> HIDE DEF job
<1>4. Cardinality(Inserted(a, job)) <= 1
  <2>1. Inserted(a, job) \in SUBSET {i}
    BY <1>1, <1>3 DEF Inserted
  <2>2. IsFiniteSet({i}) /\ Cardinality({i}) = 1
    BY FS_Singleton
  <2>3. Cardinality(Inserted(a, job)) <= Cardinality({i})
    BY <2>1, <2>2, FS_Subset
  <2> QED
    BY <2>2, <2>3
<1>5. Set(job, pos, a.base[pos]) = a.base
  <2> DEFINE back == Set(job, pos, a.base[pos])
  <2>1. /\ back \in [D -> P] /\ back[pos] = a.base[pos]
        /\ \A name \in D : name # pos => back[name] = job[name]
    BY <1>2, <1>3 DEF Set
  <2> HIDE DEF back
  <2>2. back = a.base
    BY <1>1, <1>3, <2>1
  <2> QED
    BY <2>2 DEF back
<1> QED
  BY <1>3, <1>4, <1>5 DEF job, D

\* A walk through one list, from base to base.
Walking(a, done) == [job |-> a.base, jobs |-> done]

LEMMA WalkOne ==
    ASSUME NEW N, NEW P, NEW a, Documented(a, N, P), NEW i \in Listed(a),
           NEW done \in Seq(OneSet(a, P))
    PROVE  \E jobs \in Seq(OneSet(a, P)) :
              /\ WalkList(a, Walking(a, done), i) = Walking(a, done \o jobs)
              /\ Len(jobs) = Len(a.lists[i])
              /\ \A k \in 1 .. Len(a.lists[i]) : jobs[k][a.positions[i]] = a.lists[i][k]
<1> DEFINE pos == a.positions[i]
           list == a.lists[i]
           m == Len(list)
           job(k) == Set(a.base, pos, list[k])
           jobs == [k \in 1 .. m |-> job(k)]
           left == IF jobs = <<>> THEN a.base ELSE Last(jobs)
<1>1. /\ pos \in DOMAIN a.base /\ a.base \in [DOMAIN a.base -> P]
      /\ m \in Nat /\ DOMAIN list = 1 .. m /\ \A k \in 1 .. m : list[k] \in P
  <2>1. pos \in DOMAIN a.base /\ a.base \in [DOMAIN a.base -> P]
    BY AttackFacts
  <2>2. m \in Nat /\ DOMAIN list = 1 .. m /\ \A k \in 1 .. m : list[k] \in P
    BY PayloadFacts
  <2> QED
    BY <2>1, <2>2
<1>2. WalkList(a, Walking(a, done), i) =
         [job |-> Restored(left, pos, a.base), jobs |-> done \o jobs]
  BY <1>1 DEF WalkList, Walking
<1> HIDE DEF pos, list, m
<1>3. ASSUME NEW k \in 1 .. m
      PROVE  /\ job(k) \in OneSet(a, P) /\ job(k)[pos] = list[k]
             /\ Set(job(k), pos, a.base[pos]) = a.base
  <2>1. \A p \in P : LET j == Set(a.base, a.positions[i], p)
                    IN  /\ j[a.positions[i]] = p
                        /\ Set(j, a.positions[i], a.base[a.positions[i]]) = a.base
    BY OneSetFacts
  <2>2. list[k] \in P
    BY <1>1
  <2> QED
    BY <2>1, <2>2 DEF OneSet, pos
<1> HIDE DEF job
<1>4. jobs \in Seq(OneSet(a, P)) /\ Len(jobs) = m /\ \A k \in 1 .. m : jobs[k] = job(k)
  BY <1>1, <1>3
<1>5. Set(left, pos, a.base[pos]) = a.base
  <2>1. CASE m = 0
    <3>1. jobs = <<>>
      BY <2>1
    <3> QED
      BY <1>1, <3>1 DEF Set
  <2>2. CASE m # 0
    <3>1. m \in 1 .. m
      BY <1>1, <2>2
    <3>2. jobs # <<>> /\ Last(jobs) = job(m)
      BY <1>4, <2>2, <3>1 DEF Last
    <3> HIDE DEF jobs
    <3> QED
      BY <1>3, <3>1, <3>2
  <2> QED
    BY <2>1, <2>2
<1> HIDE DEF jobs, left
<1>6. Restored(left, pos, a.base) = a.base
  BY <1>1, <1>5 DEF Restored
<1>7. WalkList(a, Walking(a, done), i) = Walking(a, done \o jobs)
  BY <1>2, <1>6 DEF Walking
<1>8. \A k \in 1 .. m : jobs[k][pos] = list[k]
  BY <1>3, <1>4
<1> QED
  BY <1>4, <1>7, <1>8 DEF pos, list, m

\* Sniper goes through the lists one after the other, one position set at a time.
ListWalked(a, P, i, from, to) ==
    \E jobs \in Seq(OneSet(a, P)) :
        /\ to = from \o jobs /\ Len(jobs) = Len(a.lists[i])
        /\ \A k \in 1 .. Len(a.lists[i]) : jobs[k][a.positions[i]] = a.lists[i][k]

LEMMA SniperWalks ==
    ASSUME NEW N, NEW P, NEW a, Documented(a, N, P)
    PROVE  \E done \in [0 .. Inserts(a) -> Seq(OneSet(a, P))] :
              /\ done[0] = <<>> /\ SniperJobs(a) = done[Inserts(a)]
              /\ \A i \in 1 .. Inserts(a) : ListWalked(a, P, i, done[i - 1], done[i])
<1> DEFINE n == Inserts(a)
           J == Seq(OneSet(a, P))
           W == {Walking(a, done) : done \in J}
           start == Walking(a, <<>>)
           Is(f) == f = [i \in 0 .. n |-> IF i = 0 THEN [job |-> a.base, jobs |-> <<>>]
                                         ELSE WalkList(a, f[i - 1], i)]
           walked == CHOOSE f : Is(f)
           step == [i \in 1 .. n |-> [s \in W |-> WalkList(a, s, i)]]
           Walk(i, from, to) == ListWalked(a, P, i, from, to)
<1>1. n \in Nat /\ Listed(a) = 1 .. n
  BY AttackFacts
<1>2. SniperJobs(a) = walked[n].jobs
  BY DEF SniperJobs
<1>3. ASSUME NEW i \in 1 .. n, NEW done \in J
      PROVE  \E jobs \in J :
                /\ WalkList(a, Walking(a, done), i) = Walking(a, done \o jobs)
                /\ Len(jobs) = Len(a.lists[i])
                /\ \A k \in 1 .. Len(a.lists[i]) : jobs[k][a.positions[i]] = a.lists[i][k]
  <2>1. \A j \in Listed(a), d \in Seq(OneSet(a, P)) : \E jobs \in Seq(OneSet(a, P)) :
           /\ WalkList(a, Walking(a, d), j) = Walking(a, d \o jobs)
           /\ Len(jobs) = Len(a.lists[j])
           /\ \A k \in 1 .. Len(a.lists[j]) : jobs[k][a.positions[j]] = a.lists[j][k]
    BY WalkOne
  <2> QED
    BY <1>1, <2>1
<1>4. start \in W
  BY EmptySeq
<1>5. \A i \in 1 .. n, done, jobs \in J : done \o jobs \in J
  BY ConcatProperties
<1> HIDE DEF n, J
<1>6. ASSUME NEW i \in 1 .. n, NEW s \in W
      PROVE  WalkList(a, s, i) \in W /\ Walk(i, s.jobs, WalkList(a, s, i).jobs)
  <2>1. PICK done \in J : s = Walking(a, done)
    OBVIOUS
  <2>2. PICK jobs \in J :
           /\ WalkList(a, s, i) = Walking(a, done \o jobs)
           /\ Len(jobs) = Len(a.lists[i])
           /\ \A k \in 1 .. Len(a.lists[i]) : jobs[k][a.positions[i]] = a.lists[i][k]
    BY <1>3, <2>1
  <2>3. WalkList(a, s, i) \in W
    BY <1>5, <2>2
  <2>4. s.jobs = done /\ WalkList(a, s, i).jobs = done \o jobs
    BY <2>1, <2>2 DEF Walking
  <2>5. Walk(i, s.jobs, WalkList(a, s, i).jobs)
    BY <2>2, <2>4 DEF ListWalked, J
  <2> QED
    BY <2>3, <2>5
<1>7. \A s \in W : s.jobs \in J
  BY DEF Walking
<1> HIDE DEF W, Walk
<1>8. step \in [1 .. n -> [W -> W]] /\ \A i \in 1 .. n, s \in W : step[i][s] = WalkList(a, s, i)
  BY <1>6
<1> HIDE DEF step
<1>9. PICK g \in [0 .. n -> W] : g[0] = start /\ \A i \in 1 .. n : g[i] = step[i][g[i - 1]]
  <2>1. PICK base \in W : base = start
    BY <1>4
  <2>2. step \in [1 .. n -> [W -> W]]
    BY <1>8
  <2>3. \E g \in [0 .. n -> W] : g[0] = base /\ \A i \in 1 .. n : g[i] = step[i][g[i - 1]]
    BY <1>1, <2>2, RecursionHolds
  <2> QED
    BY <2>1, <2>3
<1>10. Is(g)
  <2>1. \A i \in 1 .. n : i - 1 \in 0 .. n /\ g[i - 1] \in W
    BY <1>1
  <2>2. \A i \in 1 .. n : g[i] = WalkList(a, g[i - 1], i)
    BY <1>8, <1>9, <2>1
  <2>3. \A i \in 0 .. n : i = 0 \/ i \in 1 .. n
    BY <1>1
  <2>4. \A i \in 0 .. n : g[i] = IF i = 0 THEN start ELSE WalkList(a, g[i - 1], i)
    BY <1>9, <2>2, <2>3
  <2> QED
    BY <2>4 DEF Walking
<1>11. Is(walked)
  BY <1>10
<1> HIDE DEF walked
<1>12. walked[0] = start /\ \A i \in 1 .. n : walked[i] = WalkList(a, walked[i - 1], i)
  <2>1. DOMAIN walked = 0 .. n /\ 0 \in 0 .. n /\ \A i \in 1 .. n : i \in 0 .. n /\ i # 0
    BY <1>1, <1>11
  <2> QED
    BY <1>11, <2>1 DEF Walking
<1> HIDE DEF start
<1>13. \A i \in 0 .. n : walked[i] \in W
  <2>1. ASSUME NEW i \in 0 .. n, i < n, walked[i] \in W PROVE walked[i + 1] \in W
    <3>1. i + 1 \in 1 .. n /\ (i + 1) - 1 = i
      BY <1>1, <2>1
    <3>2. walked[i + 1] = WalkList(a, walked[i], i + 1)
      BY <1>12, <3>1
    <3> QED
      BY <1>6, <2>1, <3>1, <3>2
  <2> QED
    BY <1>1, <1>4, <1>12, <2>1, LoopInduction
<1> DEFINE done == [i \in 0 .. n |-> walked[i].jobs]
<1>14. done \in [0 .. n -> J]
  BY <1>7, <1>13
<1>15. ASSUME NEW i \in 1 .. n PROVE Walk(i, done[i - 1], done[i])
  <2>1. i \in 0 .. n /\ i - 1 \in 0 .. n
    BY <1>1
  <2>2. done[i] = walked[i].jobs /\ done[i - 1] = walked[i - 1].jobs
    BY <2>1
  <2> HIDE DEF done
  <2>3. walked[i] = WalkList(a, walked[i - 1], i)
    BY <1>12
  <2> QED
    BY <1>6, <1>13, <2>1, <2>2, <2>3
<1>16. done[0] = <<>> /\ done[n] = SniperJobs(a)
  BY <1>1, <1>2, <1>12 DEF start, Walking
<1> HIDE DEF done
<1> QED
  BY <1>14, <1>15, <1>16 DEF n, J, Walk

LEMMA SniperDone ==
    ASSUME NEW N, NEW P, NEW a, Documented(a, N, P), a.mode = "sniper"
    PROVE  JobsAsDocumented(a)
<1> DEFINE n == Inserts(a)
           J == OneSet(a, P)
           Tries(jobs, i) == \A k \in 1 .. Len(a.lists[i]) : \E l \in 1 .. Len(jobs) :
              jobs[l][a.positions[i]] = a.lists[i][k]
<1>1. /\ n \in Nat /\ Listed(a) = 1 .. n
      /\ \A i \in 1 .. n : Len(a.lists[i]) \in Nat /\ DOMAIN a.lists[i] = 1 .. Len(a.lists[i])
  BY AttackFacts
<1>2. PICK sum \in [0 .. n -> Nat] :
         /\ sum[0] = 0 /\ LengthsAdded(a) = sum[n]
         /\ \A i \in 1 .. n : sum[i] = sum[i - 1] + Len(a.lists[i])
  BY SumFacts
<1>3. PICK done \in [0 .. n -> Seq(J)] :
         /\ done[0] = <<>> /\ SniperJobs(a) = done[n]
         /\ \A i \in 1 .. n : ListWalked(a, P, i, done[i - 1], done[i])
  BY SniperWalks
<1> HIDE DEF n, J
<1> DEFINE T == {i \in Nat : i <= n => /\ Len(done[i]) = sum[i]
                                       /\ \A j \in 1 .. i : Tries(done[i], j)}
<1>4. 0 \in T
  BY <1>1, <1>2, <1>3, EmptySeq
<1>5. ASSUME NEW i \in Nat, i \in T PROVE i + 1 \in T
  <2> SUFFICES ASSUME i + 1 <= n
               PROVE  Len(done[i + 1]) = sum[i + 1] /\ \A j \in 1 .. i + 1 : Tries(done[i + 1], j)
    OBVIOUS
  <2>1. i + 1 \in 1 .. n /\ (i + 1) - 1 = i /\ i \in 0 .. n /\ i + 1 \in 0 .. n /\ i <= n
    BY <1>1
  <2>2. PICK jobs \in Seq(J) :
           /\ done[i + 1] = done[i] \o jobs /\ Len(jobs) = Len(a.lists[i + 1])
           /\ \A k \in 1 .. Len(a.lists[i + 1]) :
                 jobs[k][a.positions[i + 1]] = a.lists[i + 1][k]
    <3>1. ListWalked(a, P, i + 1, done[i], done[i + 1])
      BY <1>3, <2>1
    <3> QED
      BY <3>1 DEF ListWalked, J
  <2> DEFINE before == done[i]
             after == done[i + 1]
  <2>3. before \in Seq(J) /\ Len(before) = sum[i] /\ \A j \in 1 .. i : Tries(before, j)
    BY <1>3, <1>5, <2>1
  <2>4. /\ Len(after) = Len(before) + Len(jobs) /\ Len(before) \in Nat /\ Len(jobs) \in Nat
        /\ \A l \in 1 .. Len(before) : after[l] = before[l]
        /\ \A l \in 1 .. Len(jobs) : after[Len(before) + l] = jobs[l]
    <3> HIDE DEF before
    <3>1. after = before \o jobs
      BY <2>2 DEF before
    <3>2. Len(before \o jobs) = Len(before) + Len(jobs) /\ Len(before) \in Nat /\ Len(jobs) \in Nat
      BY <2>3, ConcatProperties, LenProperties
    <3>3. \A l \in 1 .. Len(before) + Len(jobs) :
             (before \o jobs)[l] = IF l <= Len(before) THEN before[l] ELSE jobs[l - Len(before)]
      BY <2>3, ConcatProperties
    <3>4. \A l \in 1 .. Len(before) : l \in 1 .. Len(before) + Len(jobs) /\ l <= Len(before)
      BY <3>2
    <3>5. \A l \in 1 .. Len(jobs) :
             /\ Len(before) + l \in 1 .. Len(before) + Len(jobs) /\ ~(Len(before) + l <= Len(before))
             /\ (Len(before) + l) - Len(before) = l
      BY <3>2
    <3> HIDE DEF after
    <3> QED
      BY <3>1, <3>2, <3>3, <3>4, <3>5
  <2> HIDE DEF before, after
  <2>5. sum[i + 1] = sum[i] + Len(a.lists[i + 1])
    BY <1>2, <2>1
  <2>6. Len(after) = sum[i + 1]
    BY <2>2, <2>3, <2>4, <2>5
  <2>7. ASSUME NEW j \in 1 .. i PROVE Tries(after, j)
    <3>1. ASSUME NEW k \in 1 .. Len(a.lists[j])
          PROVE  \E l \in 1 .. Len(after) : after[l][a.positions[j]] = a.lists[j][k]
      <4>1. PICK l \in 1 .. Len(before) : before[l][a.positions[j]] = a.lists[j][k]
        BY <2>3
      <4>2. l \in 1 .. Len(after) /\ after[l][a.positions[j]] = a.lists[j][k]
        BY <2>4, <4>1
      <4> QED
        BY <4>2
    <3> QED
      BY <3>1
  <2>8. Tries(after, i + 1)
    <3>1. ASSUME NEW k \in 1 .. Len(a.lists[i + 1])
          PROVE  \E l \in 1 .. Len(after) : after[l][a.positions[i + 1]] = a.lists[i + 1][k]
      <4>1. k \in 1 .. Len(jobs) /\ jobs[k][a.positions[i + 1]] = a.lists[i + 1][k]
        BY <2>2
      <4> DEFINE at == Len(before) + k
      <4>2. after[at] = jobs[k] /\ at \in 1 .. Len(after)
        BY <2>4, <4>1
      <4> HIDE DEF at
      <4>3. after[at][a.positions[i + 1]] = a.lists[i + 1][k]
        BY <4>1, <4>2
      <4> QED
        BY <4>2, <4>3
    <3> QED
      BY <3>1
  <2> HIDE DEF Tries
  <2>9. \A j \in 1 .. i + 1 : j \in 1 .. i \/ j = i + 1
    OBVIOUS
  <2> QED
    BY <2>6, <2>7, <2>8, <2>9 DEF after
<1> HIDE DEF T
<1>6. n \in T
  BY <1>1, <1>4, <1>5, SetInduction
<1> DEFINE jobs == done[n]
<1>7. jobs \in Seq(J) /\ Len(jobs) = sum[n] /\ \A i \in 1 .. n : Tries(jobs, i)
  <2> HIDE DEF Tries
  <2>1. Len(done[n]) = sum[n] /\ \A i \in 1 .. n : Tries(done[n], i)
    BY <1>1, <1>6 DEF T
  <2> QED
    BY <1>1, <1>3, <2>1
<1> HIDE DEF jobs
<1>8. DOMAIN jobs = 1 .. Len(jobs) /\ \A k \in DOMAIN jobs : jobs[k] \in J
  BY <1>7, LenProperties, ElementOfSeq
<1>9. Jobs(a) = jobs /\ Count(a) = sum[n]
  BY <1>2, <1>3 DEF Jobs, Count, jobs
<1>10. ASSUME NEW k \in DOMAIN jobs
       PROVE  DOMAIN jobs[k] = DOMAIN a.base /\ Cardinality(Inserted(a, jobs[k])) <= 1
  <2>1. PICK i \in Listed(a), payload \in P : jobs[k] = Set(a.base, a.positions[i], payload)
    BY <1>8 DEF J, OneSet
  <2>2. LET job == Set(a.base, a.positions[i], payload)
        IN  job \in [DOMAIN a.base -> P] /\ Cardinality(Inserted(a, job)) <= 1
    BY OneSetFacts
  <2> QED
    BY <2>1, <2>2
<1>11. ASSUME NEW i \in Listed(a), NEW payload \in ToSet(a.lists[i])
       PROVE  \E l \in DOMAIN jobs : jobs[l][a.positions[i]] = payload
  <2>1. PICK k \in 1 .. Len(a.lists[i]) : payload = a.lists[i][k]
    BY <1>1 DEF ToSet
  <2> QED
    BY <1>1, <1>7, <1>8, <2>1
<1> QED
  BY <1>7, <1>9, <1>10, <1>11 DEF JobsAsDocumented

\* The reading of the odometer as a number: every list is a digit, of base its length.
Ranks(a, t) ==
    {r \in [0 .. Inserts(a) -> Nat] :
        r[0] = 0 /\ \A i \in 1 .. Inserts(a) : r[i] = r[i - 1] * Len(a.lists[i]) + (t[i] - 1)}

Ranking(a, t) == CHOOSE r : r \in Ranks(a, t)
Rank(a, t) == Ranking(a, t)[Inserts(a)]

LEMMA WheelFacts ==
    ASSUME NEW N, NEW P, NEW a, Documented(a, N, P), NEW t \in Wheels(a)
    PROVE  /\ Inserts(a) \in Nat /\ Listed(a) = 1 .. Inserts(a)
           /\ t \in [1 .. Inserts(a) -> Nat]
           /\ \A i \in 1 .. Inserts(a) : /\ Len(a.lists[i]) \in Nat /\ t[i] \in Nat
                                         /\ 1 <= t[i] /\ t[i] <= Len(a.lists[i])
BY AttackFacts DEF Wheels

LEMMA RankingFacts ==
    ASSUME NEW N, NEW P, NEW a, Documented(a, N, P), NEW t \in Wheels(a)
    PROVE  Ranking(a, t) \in Ranks(a, t) /\ Rank(a, t) \in Nat
<1> DEFINE n == Inserts(a)
           step == [i \in 1 .. n |-> [m \in Nat |-> m * Len(a.lists[i]) + (t[i] - 1)]]
<1>1. n \in Nat /\ \A i \in 1 .. n : /\ Len(a.lists[i]) \in Nat /\ t[i] \in Nat /\ 1 <= t[i]
                                     /\ t[i] - 1 \in Nat
  BY WheelFacts
<1> HIDE DEF n
<1>2. ASSUME NEW i \in 1 .. n, NEW m \in Nat PROVE m * Len(a.lists[i]) + (t[i] - 1) \in Nat
  <2>1. PICK l, d \in Nat : l = Len(a.lists[i]) /\ d = t[i] - 1
    BY <1>1
  <2>2. m * l + d \in Nat
    OBVIOUS
  <2> QED
    BY <2>1, <2>2
<1>3. step \in [1 .. n -> [Nat -> Nat]]
  BY <1>2
<1>4. \A i \in 1 .. n, m \in Nat : step[i][m] = m * Len(a.lists[i]) + (t[i] - 1)
  OBVIOUS
<1> HIDE DEF step
<1>5. PICK r \in [0 .. n -> Nat] : r[0] = 0 /\ \A i \in 1 .. n : r[i] = step[i][r[i - 1]]
  <2>1. \A first \in Nat : \E g \in [0 .. n -> Nat] :
           g[0] = first /\ \A i \in 1 .. n : g[i] = step[i][g[i - 1]]
    BY <1>1, <1>3, NatRecursion
  <2> QED
    BY <2>1
<1>6. \A i \in 1 .. n : i - 1 \in 0 .. n /\ r[i - 1] \in Nat
  BY <1>1
<1>7. \A i \in 1 .. n : r[i] = r[i - 1] * Len(a.lists[i]) + (t[i] - 1)
  BY <1>4, <1>5, <1>6
<1>8. r \in Ranks(a, t)
  BY <1>5, <1>7 DEF Ranks, n
<1>9. Ranking(a, t) \in Ranks(a, t)
  BY <1>8 DEF Ranking
<1> QED
  BY <1>1, <1>9 DEF Ranks, Rank, n

LEMMA NextDigit ==
    ASSUME NEW x \in Nat, NEW y \in Nat, NEW m \in Nat, x + 1 <= y
    PROVE  x * m + m <= y * m
<1>1. PICK d \in Nat : y = (x + 1) + d
  <2>1. y - (x + 1) \in Nat /\ y = (x + 1) + (y - (x + 1))
    OBVIOUS
  <2> QED
    BY <2>1
<1>2. y * m = x * m + m + d * m
  BY <1>1
<1>3. d * m \in Nat /\ x * m \in Nat
  OBVIOUS
<1> QED
  BY <1>2, <1>3

\* There are as many readings as the lengths of the lists make, multiplied.
LEMMA RankBelow ==
    ASSUME NEW N, NEW P, NEW a, Documented(a, N, P), NEW t \in Wheels(a)
    PROVE  /\ LengthsMultiplied(a) \in Nat
           /\ Rank(a, t) + 1 <= LengthsMultiplied(a)
           /\ Full(a, t) = Listed(a) => Rank(a, t) + 1 = LengthsMultiplied(a)
<1> DEFINE n == Inserts(a)
           r == Ranking(a, t)
           full == Full(a, t) = Listed(a)
<1>0. PICK product \in Products(a) : LengthsMultiplied(a) = product[n]
  BY ProductFacts
<1>1. /\ product \in [0 .. n -> Nat] /\ product[0] = 1
      /\ \A i \in 1 .. n : product[i] = product[i - 1] * Len(a.lists[i])
  BY DEF Products
<1>2. /\ n \in Nat /\ Listed(a) = 1 .. n
      /\ \A i \in 1 .. n : /\ Len(a.lists[i]) \in Nat /\ t[i] \in Nat
                           /\ 1 <= t[i] /\ t[i] <= Len(a.lists[i])
  BY WheelFacts
<1>3. /\ r \in [0 .. n -> Nat] /\ r[0] = 0 /\ Rank(a, t) = r[n]
      /\ \A i \in 1 .. n : r[i] = r[i - 1] * Len(a.lists[i]) + (t[i] - 1)
  BY RankingFacts DEF Ranks, Rank
<1>4. full => \A i \in 1 .. n : t[i] = Len(a.lists[i])
  BY <1>2 DEF Full
<1> HIDE DEF n, r, full
<1> DEFINE T == {i \in Nat : i <= n => r[i] + 1 <= product[i] /\ (full => r[i] + 1 = product[i])}
<1>5. 0 \in T
  BY <1>1, <1>3
<1>6. ASSUME NEW i \in Nat, i \in T PROVE i + 1 \in T
  <2> SUFFICES ASSUME i + 1 <= n
               PROVE  r[i + 1] + 1 <= product[i + 1] /\ (full => r[i + 1] + 1 = product[i + 1])
    OBVIOUS
  <2>1. i + 1 \in 1 .. n /\ (i + 1) - 1 = i /\ i <= n /\ i \in 0 .. n
    BY <1>2
  <2>2. r[i] \in Nat /\ product[i] \in Nat
    BY <1>1, <1>3, <2>1
  <2>3. PICK m \in Nat : m = Len(a.lists[i + 1])
    BY <1>2, <2>1
  <2>4. r[i + 1] = r[i] * m + (t[i + 1] - 1) /\ product[i + 1] = product[i] * m
    BY <1>1, <1>3, <2>1, <2>3
  <2>5. t[i + 1] \in Nat /\ 1 <= t[i + 1] /\ t[i + 1] <= m /\ (full => t[i + 1] = m)
    BY <1>2, <1>4, <2>1, <2>3
  <2>6. r[i] + 1 <= product[i] /\ (full => r[i] + 1 = product[i])
    BY <1>6, <2>1
  <2>7. r[i] * m + m <= product[i] * m
    BY <2>2, <2>6, NextDigit
  <2>8. r[i] * m \in Nat /\ product[i] * m \in Nat
    BY <2>2
  <2>9. full => r[i] * m + m = product[i] * m
    <3>1. (r[i] + 1) * m = r[i] * m + m
      BY <2>2
    <3> QED
      BY <2>6, <3>1
  <2> QED
    BY <2>4, <2>5, <2>7, <2>8, <2>9
<1> HIDE DEF T
<1>7. n \in T
  BY <1>2, <1>5, <1>6, SetInduction
<1> QED
  BY <1>0, <1>1, <1>2, <1>3, <1>7 DEF T, full

\* A turn of the odometer is the next reading.
LEMMA TurnIsNext ==
    ASSUME NEW N, NEW P, NEW a, Documented(a, N, P), NEW t \in Wheels(a), Full(a, t) # Listed(a)
    PROVE  Turn(a, t) \in Wheels(a) /\ Rank(a, Turn(a, t)) = Rank(a, t) + 1
<1> DEFINE n == Inserts(a)
           r == Ranking(a, t)
           left == Listed(a) \ Full(a, t)
           wheel == Max(left)
           u == Turn(a, t)
           q == Ranking(a, u)
<1>1. /\ n \in Nat /\ Listed(a) = 1 .. n
      /\ \A i \in 1 .. n : /\ Len(a.lists[i]) \in Nat /\ t[i] \in Nat
                           /\ 1 <= t[i] /\ t[i] <= Len(a.lists[i])
  BY WheelFacts
<1>2. left \subseteq 1 .. n /\ left # {}
  BY <1>1 DEF Full
<1>3. wheel \in left /\ \A i \in left : i <= wheel
  BY <1>1, <1>2, GreatestOf
<1>4. /\ wheel \in 1 .. n /\ t[wheel] + 1 <= Len(a.lists[wheel])
      /\ \A i \in 1 .. n : i > wheel => t[i] = Len(a.lists[i])
  <2>1. wheel \in 1 .. n /\ t[wheel] # Len(a.lists[wheel])
    BY <1>1, <1>2, <1>3 DEF Full
  <2>2. ASSUME NEW i \in 1 .. n, i > wheel PROVE t[i] = Len(a.lists[i])
    <3> SUFFICES ASSUME t[i] # Len(a.lists[i]) PROVE FALSE
      OBVIOUS
    <3>1. i \in left
      BY <1>1 DEF Full
    <3> HIDE DEF left, wheel
    <3>2. i <= wheel
      BY <1>3, <3>1
    <3> QED
      BY <1>1, <2>1, <2>2, <3>2
  <2> HIDE DEF wheel, left
  <2> QED
    BY <1>1, <2>1, <2>2
<1>5. u = [i \in 1 .. n |->
              CASE i < wheel -> t[i] [] i = wheel -> t[i] + 1 [] OTHER -> 1]
  BY <1>1 DEF Turn
<1> HIDE DEF n, left, wheel, u
<1>6. \A i \in 1 .. n : /\ i < wheel => u[i] = t[i]
                        /\ i = wheel => u[i] = t[i] + 1
                        /\ i > wheel => u[i] = 1
  BY <1>4, <1>5
<1>7. ASSUME NEW i \in 1 .. n PROVE u[i] \in Nat /\ u[i] \in 1 .. Len(a.lists[i])
  BY <1>1, <1>4, <1>6
<1>8. u \in Wheels(a)
  <2>1. u \in [Listed(a) -> Nat]
    BY <1>1, <1>5, <1>7
  <2> QED
    BY <1>1, <1>7, <2>1 DEF Wheels
<1>9. /\ r \in [0 .. n -> Nat] /\ r[0] = 0 /\ Rank(a, t) = r[n]
      /\ \A i \in 1 .. n : r[i] = r[i - 1] * Len(a.lists[i]) + (t[i] - 1)
  BY RankingFacts DEF Ranks, Rank, n
<1>10. /\ q \in [0 .. n -> Nat] /\ q[0] = 0 /\ Rank(a, u) = q[n]
       /\ \A i \in 1 .. n : q[i] = q[i - 1] * Len(a.lists[i]) + (u[i] - 1)
  BY <1>8, RankingFacts DEF Ranks, Rank, n
<1> HIDE DEF r, q
<1> DEFINE T == {i \in Nat : i <= n => q[i] = IF i < wheel THEN r[i] ELSE r[i] + 1}
<1>11. 0 \in T
  BY <1>4, <1>9, <1>10
<1>12. ASSUME NEW i \in Nat, i \in T PROVE i + 1 \in T
  <2> SUFFICES ASSUME i + 1 <= n
               PROVE  q[i + 1] = IF i + 1 < wheel THEN r[i + 1] ELSE r[i + 1] + 1
    OBVIOUS
  <2>1. i + 1 \in 1 .. n /\ (i + 1) - 1 = i /\ i <= n /\ i \in 0 .. n /\ wheel \in Nat
    BY <1>1, <1>4
  <2>2. r[i] \in Nat /\ q[i] \in Nat
    BY <1>9, <1>10, <2>1
  <2>3. PICK m \in Nat : m = Len(a.lists[i + 1])
    BY <1>1, <2>1
  <2>4. r[i + 1] = r[i] * m + (t[i + 1] - 1) /\ q[i + 1] = q[i] * m + (u[i + 1] - 1)
    BY <1>9, <1>10, <2>1, <2>3
  <2>5. t[i + 1] \in Nat /\ r[i] * m \in Nat
    BY <1>1, <2>1, <2>2
  <2>6. q[i] = IF i < wheel THEN r[i] ELSE r[i] + 1
    BY <1>12, <2>1
  <2>7. CASE i + 1 < wheel
    <3>1. q[i] = r[i] /\ u[i + 1] = t[i + 1]
      BY <1>6, <2>1, <2>6, <2>7
    <3> QED
      BY <2>4, <2>7, <3>1
  <2>8. CASE i + 1 = wheel
    <3>1. q[i] = r[i] /\ u[i + 1] = t[i + 1] + 1
      BY <1>6, <2>1, <2>6, <2>8
    <3> QED
      BY <2>4, <2>5, <2>8, <3>1
  <2>9. CASE i + 1 > wheel
    <3>1. q[i] = r[i] + 1 /\ u[i + 1] = 1 /\ t[i + 1] = m
      BY <1>4, <1>6, <2>1, <2>3, <2>6, <2>9
    <3>2. (r[i] + 1) * m = r[i] * m + m
      BY <2>2
    <3> QED
      BY <2>1, <2>4, <2>5, <2>9, <3>1, <3>2
  <2> QED
    BY <2>1, <2>7, <2>8, <2>9
<1> HIDE DEF T
<1>13. n \in T
  BY <1>1, <1>11, <1>12, SetInduction
<1>14. q[n] = r[n] + 1
  BY <1>1, <1>4, <1>13 DEF T
<1> QED
  BY <1>8, <1>9, <1>10, <1>14 DEF u

\* The number x with one more digit d, of base m.
Digit(x, m, d) == x * m + d

LEMMA DigitsUnique ==
    \A x, y, m, d, e \in Nat :
        d < m /\ e < m /\ Digit(x, m, d) = Digit(y, m, e) => x = y /\ d = e
<1> SUFFICES ASSUME NEW x \in Nat, NEW y \in Nat, NEW m \in Nat, NEW d \in Nat, NEW e \in Nat,
                    d < m, e < m, x * m + d = y * m + e
             PROVE  x = y /\ d = e
  BY DEF Digit
<1>1. x * m \in Nat /\ y * m \in Nat
  OBVIOUS
<1>2. CASE x < y
  <2>1. x * m + m <= y * m
    BY <1>2, NextDigit
  <2> QED
    BY <1>1, <2>1
<1>3. CASE y < x
  <2>1. y * m + m <= x * m
    BY <1>3, NextDigit
  <2> QED
    BY <1>1, <2>1
<1>4. CASE x = y
  BY <1>1, <1>4
<1> QED
  BY <1>2, <1>3, <1>4

\* Different readings are different numbers.
LEMMA RankInjective ==
    ASSUME NEW N, NEW P, NEW a, Documented(a, N, P), NEW t \in Wheels(a), NEW u \in Wheels(a),
           Rank(a, t) = Rank(a, u)
    PROVE  t = u
<1> DEFINE n == Inserts(a)
           r == Ranking(a, t)
           q == Ranking(a, u)
<1>1. /\ n \in Nat /\ t \in [1 .. n -> Nat]
      /\ \A i \in 1 .. n : /\ Len(a.lists[i]) \in Nat /\ t[i] \in Nat
                           /\ 1 <= t[i] /\ t[i] <= Len(a.lists[i])
  BY WheelFacts
<1>2. u \in [1 .. n -> Nat] /\ \A i \in 1 .. n : u[i] \in Nat /\ 1 <= u[i] /\ u[i] <= Len(a.lists[i])
  BY WheelFacts
<1>3. /\ r \in [0 .. n -> Nat] /\ r[0] = 0 /\ Rank(a, t) = r[n]
      /\ \A i \in 1 .. n : r[i] = r[i - 1] * Len(a.lists[i]) + (t[i] - 1)
  BY RankingFacts DEF Ranks, Rank
<1>4. /\ q \in [0 .. n -> Nat] /\ q[0] = 0 /\ Rank(a, u) = q[n]
      /\ \A i \in 1 .. n : q[i] = q[i - 1] * Len(a.lists[i]) + (u[i] - 1)
  BY RankingFacts DEF Ranks, Rank
<1> HIDE DEF n, r, q
<1> DEFINE T == {k \in Nat : k <= n => /\ r[n - k] = q[n - k]
                                       /\ \A i \in 1 .. n : i > n - k => t[i] = u[i]}
<1>5. 0 \in T
  <2>1. r[n] = q[n]
    BY <1>3, <1>4
  <2>2. n - 0 = n /\ \A i \in 1 .. n : ~(i > n)
    BY <1>1
  <2> QED
    BY <2>1, <2>2
<1>6. ASSUME NEW k \in Nat, k \in T PROVE k + 1 \in T
  <2> DEFINE i == n - k
  <2> SUFFICES ASSUME k + 1 <= n
               PROVE  /\ r[n - (k + 1)] = q[n - (k + 1)]
                      /\ \A j \in 1 .. n : j > n - (k + 1) => t[j] = u[j]
    OBVIOUS
  <2>1. i \in 1 .. n /\ i - 1 \in 0 .. n /\ n - (k + 1) = i - 1 /\ k <= n
    BY <1>1
  <2>2. r[i] = q[i] /\ \A j \in 1 .. n : j > i => t[j] = u[j]
    BY <1>6, <2>1
  <2> HIDE DEF i
  <2>3. PICK m, d, e \in Nat : m = Len(a.lists[i]) /\ d = t[i] - 1 /\ e = u[i] - 1 /\ d < m /\ e < m
    <3>1. Len(a.lists[i]) \in Nat /\ t[i] - 1 \in Nat /\ t[i] - 1 < Len(a.lists[i])
      BY <1>1, <2>1
    <3>2. u[i] - 1 \in Nat /\ u[i] - 1 < Len(a.lists[i])
      BY <1>1, <1>2, <2>1
    <3> QED
      BY <3>1, <3>2
  <2>4. r[i] = r[i - 1] * m + d /\ q[i] = q[i - 1] * m + e /\ r[i - 1] \in Nat /\ q[i - 1] \in Nat
    BY <1>3, <1>4, <2>1, <2>3
  <2>5. r[i - 1] = q[i - 1] /\ d = e
    <3>1. PICK x, y \in Nat : x = r[i - 1] /\ y = q[i - 1]
      BY <2>4
    <3>2. Digit(x, m, d) = Digit(y, m, e)
      BY <2>2, <2>4, <3>1 DEF Digit
    <3>3. d < m /\ e < m
      BY <2>3
    <3>4. x = y /\ d = e
      BY <3>2, <3>3, DigitsUnique
    <3> QED
      BY <3>1, <3>4
  <2>6. t[i] = u[i]
    BY <1>1, <1>2, <2>1, <2>3, <2>5
  <2>7. \A j \in 1 .. n : j > i - 1 => j = i \/ j > i
    BY <2>1
  <2> QED
    BY <2>1, <2>2, <2>5, <2>6, <2>7
<1> HIDE DEF T
<1>7. n \in T
  BY <1>1, <1>5, <1>6, SetInduction
<1>8. \A i \in 1 .. n : t[i] = u[i]
  BY <1>1, <1>7 DEF T
<1> QED
  BY <1>1, <1>2, <1>8

\* The odometer starts at nought.
LEMMA StartIsNought ==
    ASSUME NEW N, NEW P, NEW a, Documented(a, N, P), \A i \in Listed(a) : a.lists[i] # <<>>
    PROVE  LET start == [i \in Listed(a) |-> 1]
           IN  start \in Wheels(a) /\ Rank(a, start) = 0
<1> DEFINE n == Inserts(a)
           start == [i \in Listed(a) |-> 1]
           r == Ranking(a, start)
<1>1. n \in Nat /\ Listed(a) = 1 .. n
  BY AttackFacts
<1>2. \A i \in 1 .. n : Len(a.lists[i]) \in Nat \ {0}
  <2>1. ASSUME NEW i \in 1 .. n PROVE a.lists[i] \in Seq(P)
    BY AttackFacts
  <2> QED
    BY <1>1, <2>1, EmptySeq
<1>3. start \in [1 .. n -> Nat] /\ \A i \in 1 .. n : start[i] = 1
  BY <1>1
<1> HIDE DEF n, start
<1>4. start \in Wheels(a)
  <2>1. \A i \in 1 .. n : start[i] \in 1 .. Len(a.lists[i])
    BY <1>2, <1>3
  <2> QED
    BY <1>1, <1>3, <2>1 DEF Wheels
<1>5. /\ r \in [0 .. n -> Nat] /\ r[0] = 0 /\ Rank(a, start) = r[n]
      /\ \A i \in 1 .. n : r[i] = r[i - 1] * Len(a.lists[i]) + (start[i] - 1)
  BY <1>4, RankingFacts DEF Ranks, Rank, n
<1> HIDE DEF r
<1> DEFINE T == {i \in Nat : i <= n => r[i] = 0}
<1>6. 0 \in T
  BY <1>5
<1>7. ASSUME NEW i \in Nat, i \in T PROVE i + 1 \in T
  <2> SUFFICES ASSUME i + 1 <= n PROVE r[i + 1] = 0
    OBVIOUS
  <2>1. i + 1 \in 1 .. n /\ (i + 1) - 1 = i /\ i <= n
    BY <1>1
  <2>2. r[i + 1] = r[i] * Len(a.lists[i + 1]) + (start[i + 1] - 1) /\ start[i + 1] = 1 /\ r[i] = 0
    BY <1>3, <1>5, <1>7, <2>1
  <2>3. Len(a.lists[i + 1]) \in Nat
    BY <1>2, <2>1
  <2> QED
    BY <2>2, <2>3
<1> HIDE DEF T
<1>8. n \in T
  BY <1>1, <1>6, <1>7, SetInduction
<1> QED
  BY <1>1, <1>4, <1>5, <1>8 DEF T, start

\* What the odometer reads from a reading on.
From(a, f, t) == <<t>> \o (IF Full(a, t) = Listed(a) THEN <<>> ELSE f[Turn(a, t)])

\* The readings that at most k turns are left of.
Near(a, k) == {t \in Wheels(a) : LengthsMultiplied(a) <= Rank(a, t) + k}

LEMMA NearFacts ==
    ASSUME NEW N, NEW P, NEW a, Documented(a, N, P), NEW k \in Nat
    PROVE  /\ Near(a, 0) = {} /\ Near(a, k) \subseteq Near(a, k + 1)
           /\ \A t \in Near(a, k + 1) : Full(a, t) # Listed(a) => Turn(a, t) \in Near(a, k)
           /\ Near(a, LengthsMultiplied(a)) = Wheels(a)
<1> DEFINE R == LengthsMultiplied(a)
<1>1. ASSUME NEW t \in Wheels(a) PROVE R \in Nat /\ Rank(a, t) \in Nat /\ Rank(a, t) + 1 <= R
  BY RankingFacts, RankBelow
<1>2. ASSUME NEW t \in Wheels(a), Full(a, t) # Listed(a)
      PROVE  Turn(a, t) \in Wheels(a) /\ Rank(a, Turn(a, t)) = Rank(a, t) + 1
  BY <1>2, TurnIsNext
<1> HIDE DEF R
<1>3. Near(a, 0) = {}
  BY <1>1 DEF Near, R
<1>4. Near(a, k) \subseteq Near(a, k + 1)
  BY <1>1 DEF Near, R
<1>5. ASSUME NEW t \in Near(a, k + 1), Full(a, t) # Listed(a) PROVE Turn(a, t) \in Near(a, k)
  <2>1. t \in Wheels(a) /\ R <= Rank(a, t) + (k + 1)
    BY DEF Near, R
  <2>2. Turn(a, t) \in Wheels(a) /\ Rank(a, Turn(a, t)) = Rank(a, t) + 1
    BY <1>2, <1>5, <2>1
  <2>3. R <= Rank(a, Turn(a, t)) + k
    BY <1>1, <2>1, <2>2
  <2> QED
    BY <2>2, <2>3 DEF Near, R
<1>6. Near(a, R) = Wheels(a)
  BY <1>1 DEF Near, R
<1> QED
  BY <1>3, <1>4, <1>5, <1>6 DEF R

LEMMA OdometerTurns ==
    ASSUME NEW N, NEW P, NEW a, Documented(a, N, P), \A i \in Listed(a) : a.lists[i] # <<>>
    PROVE  \E f : /\ \A t \in Wheels(a) : f[t] = From(a, f, t)
                  /\ Readings(a) = f[[i \in Listed(a) |-> 1]]
<1> DEFINE R == LengthsMultiplied(a)
           start == [i \in Listed(a) |-> 1]
           Is(f) == f = [turns \in Wheels(a) |->
                           <<turns>> \o (IF Full(a, turns) = Listed(a) THEN <<>>
                                         ELSE f[Turn(a, turns)])]
           from == CHOOSE f : Is(f)
           T == {k \in Nat : \E f : \A t \in Near(a, k) : f[t] = From(a, f, t)}
<1>1. Readings(a) = from[start]
  BY DEF Readings
<1>2. R \in Nat
  BY StartIsNought, RankBelow
<1> HIDE DEF start
<1>3. 0 \in T
  <2>1. Near(a, 0) = {}
    BY NearFacts
  <2> QED
    BY <2>1
<1>4. ASSUME NEW k \in Nat, k \in T PROVE k + 1 \in T
  <2>1. PICK f : \A t \in Near(a, k) : f[t] = From(a, f, t)
    BY <1>4
  <2>2. /\ Near(a, k) \subseteq Near(a, k + 1) /\ k + 1 \in Nat
        /\ \A t \in Near(a, k + 1) : Full(a, t) # Listed(a) => Turn(a, t) \in Near(a, k)
    BY NearFacts
  <2> DEFINE g == [t \in Near(a, k + 1) |-> From(a, f, t)]
  <2>3. \A t \in Near(a, k) : g[t] = f[t]
    BY <2>1, <2>2
  <2>4. \A t \in Near(a, k + 1) : g[t] = From(a, f, t)
    OBVIOUS
  <2> HIDE DEF g
  <2>5. ASSUME NEW t \in Near(a, k + 1) PROVE g[t] = From(a, g, t)
    <3>1. From(a, g, t) = From(a, f, t)
      BY <2>2, <2>3 DEF From
    <3> QED
      BY <2>4, <3>1
  <2> QED
    BY <2>2, <2>5
<1>5. R \in T
  <2> HIDE DEF T
  <2> QED
    BY <1>2, <1>3, <1>4, SetInduction
<1>6. PICK f : \A t \in Wheels(a) : f[t] = From(a, f, t)
  BY <1>5, NearFacts
<1> DEFINE g == [t \in Wheels(a) |-> f[t]]
<1>7. Is(g)
  <2>1. \A t \in Wheels(a) : Full(a, t) # Listed(a) => Turn(a, t) \in Wheels(a)
    BY TurnIsNext
  <2>2. \A t \in Wheels(a) : g[t] = f[t]
    OBVIOUS
  <2>3. \A t \in Wheels(a) : f[t] = From(a, g, t)
    <3> HIDE DEF g
    <3> QED
      BY <1>6, <2>1, <2>2 DEF From
  <2> QED
    BY <2>3 DEF From
<1> HIDE DEF g
<1>8. Is(from)
  BY <1>7
<1> HIDE DEF from
<1>9. \A t \in Wheels(a) : from[t] = From(a, from, t)
  BY <1>8 DEF From
<1> QED
  BY <1>1, <1>9 DEF start

\* The readings, in the order of their numbers.
LEMMA ReadingsFacts ==
    ASSUME NEW N, NEW P, NEW a, Documented(a, N, P), \A i \in Listed(a) : a.lists[i] # <<>>
    PROVE  /\ Readings(a) \in Seq(Wheels(a)) /\ Len(Readings(a)) = LengthsMultiplied(a)
           /\ \A k \in 1 .. LengthsMultiplied(a) : Rank(a, Readings(a)[k]) = k - 1
<1> DEFINE R == LengthsMultiplied(a)
           W == Wheels(a)
           start == [i \in Listed(a) |-> 1]
           Counts(readings, t) ==
              /\ readings \in Seq(W) /\ Len(readings) = R - Rank(a, t)
              /\ \A k \in 1 .. Len(readings) : Rank(a, readings[k]) = Rank(a, t) + k - 1
<1>1. start \in W /\ Rank(a, start) = 0
  BY StartIsNought
<1>2. PICK f : Readings(a) = f[start] /\ \A t \in W : f[t] = From(a, f, t)
  BY OdometerTurns
<1>3. ASSUME NEW t \in W
      PROVE  /\ R \in Nat /\ Rank(a, t) \in Nat
             /\ Full(a, t) = Listed(a) => Rank(a, t) + 1 = R
  BY RankingFacts, RankBelow
<1>4. ASSUME NEW t \in W, Full(a, t) # Listed(a)
      PROVE  Rank(a, Turn(a, t)) = Rank(a, t) + 1 /\ Turn(a, t) \in W
  BY <1>4, TurnIsNext
<1> DEFINE T == {k \in Nat : \A t \in Near(a, k) : Counts(f[t], t)}
<1>5. 0 \in T
  BY NearFacts
<1>6. ASSUME NEW k \in Nat, k \in T PROVE k + 1 \in T
  <2> SUFFICES ASSUME NEW t \in Near(a, k + 1) PROVE Counts(f[t], t)
    OBVIOUS
  <2>1. t \in W /\ f[t] = From(a, f, t)
    BY <1>2 DEF Near
  <2>2. Full(a, t) # Listed(a) => Turn(a, t) \in Near(a, k)
    BY NearFacts
  <2> HIDE DEF R, W
  <2>3. <<t>> \in Seq(W) /\ Len(<<t>>) = 1 /\ <<t>>[1] = t
    BY <2>1
  <2>4. CASE Full(a, t) = Listed(a)
    <3>1. f[t] = <<t>> \o <<>>
      BY <2>1, <2>4 DEF From
    <3>2. f[t] = <<t>>
      BY <2>3, <3>1, ConcatEmptySeq
    <3>3. R - Rank(a, t) = 1 /\ Rank(a, t) \in Nat
      BY <1>3, <2>1, <2>4
    <3>4. \A j \in 1 .. 1 : Rank(a, <<t>>[j]) = Rank(a, t) + j - 1
      BY <2>3, <3>3
    <3> QED
      BY <2>3, <3>2, <3>3, <3>4
  <2>5. CASE Full(a, t) # Listed(a)
    <3> DEFINE rest == f[Turn(a, t)]
               all == <<t>> \o rest
    <3>1. f[t] = all
      BY <2>1, <2>5 DEF From
    <3>2. Rank(a, Turn(a, t)) = Rank(a, t) + 1 /\ Turn(a, t) \in W /\ Rank(a, t) \in Nat /\ R \in Nat
      BY <1>3, <1>4, <2>1, <2>5
    <3>3. Counts(rest, Turn(a, t))
      BY <1>6, <2>2, <2>5
    <3> HIDE DEF rest
    <3>4. /\ rest \in Seq(W) /\ Len(rest) = R - Rank(a, t) - 1 /\ Len(rest) \in Nat
          /\ \A j \in 1 .. Len(rest) : Rank(a, rest[j]) = Rank(a, t) + j
      <4>1. rest \in Seq(W) /\ Len(rest) = R - Rank(a, Turn(a, t)) /\ Len(rest) \in Nat
        BY <3>3, LenProperties
      <4>2. ASSUME NEW j \in 1 .. Len(rest) PROVE Rank(a, rest[j]) = Rank(a, t) + j
        BY <3>2, <3>3
      <4> QED
        BY <3>2, <4>1, <4>2
    <3>5. all \in Seq(W) /\ Len(all) = 1 + Len(rest)
      BY <2>3, <3>4, ConcatProperties
    <3>6. \A j \in 1 .. 1 + Len(rest) : all[j] = IF j <= 1 THEN t ELSE rest[j - 1]
      BY <2>3, <3>4, ConcatProperties
    <3> HIDE DEF all
    <3>7. ASSUME NEW j \in 1 .. Len(all) PROVE Rank(a, all[j]) = Rank(a, t) + j - 1
      <4>1. CASE j = 1
        BY <3>2, <3>4, <3>5, <3>6, <4>1
      <4>2. CASE j # 1
        <5>1. j \in 1 .. 1 + Len(rest) /\ ~(j <= 1) /\ j - 1 \in 1 .. Len(rest)
          BY <3>4, <3>5, <4>2
        <5>2. all[j] = rest[j - 1]
          BY <3>6, <5>1
        <5>3. Rank(a, rest[j - 1]) = Rank(a, t) + (j - 1)
          BY <3>4, <5>1
        <5> QED
          BY <3>2, <5>1, <5>2, <5>3
      <4> QED
        BY <4>1, <4>2
    <3>8. Len(all) = R - Rank(a, t)
      BY <3>2, <3>4, <3>5
    <3> QED
      BY <3>1, <3>5, <3>7, <3>8
  <2> QED
    BY <2>4, <2>5
<1>7. R \in T
  <2>1. R \in Nat
    BY <1>1, <1>3
  <2> HIDE DEF T
  <2> QED
    BY <1>5, <1>6, <2>1, SetInduction
<1>8. Counts(f[start], start)
  BY <1>1, <1>7, NearFacts
<1> HIDE DEF start, W
<1>9. R - 0 = R /\ \A k \in Nat : 0 + k - 1 = k - 1
  BY <1>1, <1>3
<1> QED
  BY <1>1, <1>2, <1>8, <1>9 DEF W

\* With an empty list there is nothing to combine.
LEMMA NothingToMultiply ==
    ASSUME NEW N, NEW P, NEW a, Documented(a, N, P), NEW i \in Listed(a), a.lists[i] = <<>>
    PROVE  LengthsMultiplied(a) = 0
<1> DEFINE n == Inserts(a)
<1>1. PICK product \in Products(a) : LengthsMultiplied(a) = product[n]
  BY ProductFacts
<1>2. /\ product \in [0 .. n -> Nat]
      /\ \A j \in 1 .. n : product[j] = product[j - 1] * Len(a.lists[j])
  BY DEF Products
<1>3. n \in Nat /\ i \in 1 .. n /\ \A j \in 1 .. n : Len(a.lists[j]) \in Nat
  BY AttackFacts
<1>4. Len(a.lists[i]) = 0
  BY EmptySeq
<1> HIDE DEF n
<1> DEFINE T == {k \in Nat : i + k <= n => product[i + k] = 0}
<1>5. 0 \in T
  <2>1. product[i] = product[i - 1] * 0 /\ i - 1 \in 0 .. n
    BY <1>2, <1>3, <1>4
  <2>2. product[i - 1] \in Nat
    BY <1>2, <2>1
  <2>3. i + 0 = i
    BY <1>3
  <2> QED
    BY <2>1, <2>2, <2>3
<1>6. ASSUME NEW k \in Nat, k \in T PROVE k + 1 \in T
  <2> SUFFICES ASSUME i + (k + 1) <= n PROVE product[i + (k + 1)] = 0
    OBVIOUS
  <2>1. i + (k + 1) \in 1 .. n /\ (i + (k + 1)) - 1 = i + k /\ i + k <= n
    BY <1>3
  <2>2. product[i + (k + 1)] = product[i + k] * Len(a.lists[i + (k + 1)]) /\ product[i + k] = 0
    BY <1>2, <1>6, <2>1
  <2>3. Len(a.lists[i + (k + 1)]) \in Nat
    BY <1>3, <2>1
  <2> QED
    BY <2>2, <2>3
<1> HIDE DEF T
<1>7. n - i \in T /\ i + (n - i) = n
  BY <1>3, <1>5, <1>6, SetInduction
<1> QED
  BY <1>1, <1>3, <1>7 DEF T

\* The job of a reading tells which reading it was.
LEMMA ReadingJobFacts ==
    ASSUME NEW N, NEW P, NEW a, Documented(a, N, P), NEW t \in Wheels(a)
    PROVE  /\ DOMAIN ReadingJob(a, t) = DOMAIN a.base
           /\ \A i \in Listed(a) : ReadingJob(a, t)[a.positions[i]] = a.lists[i][t[i]]
<1> DEFINE payloads == [i \in Listed(a) |-> a.lists[i][t[i]]]
<1>1. \A i \in Listed(a) : t[i] \in 1 .. Len(a.lists[i])
  BY DEF Wheels
<1>2. \A i \in Listed(a) : \A k \in 1 .. Len(a.lists[i]) : a.lists[i][k] \in P
  BY PayloadFacts
<1>3. payloads \in [Listed(a) -> P]
  BY <1>1, <1>2
<1>4. ReadingJob(a, t) = Inserting(a, payloads) /\ \A i \in Listed(a) : payloads[i] = a.lists[i][t[i]]
  BY DEF ReadingJob
<1> HIDE DEF payloads
<1>5. /\ Inserting(a, payloads) \in [DOMAIN a.base -> P]
      /\ \A i \in Listed(a) : Inserting(a, payloads)[a.positions[i]] = payloads[i]
  BY <1>3, InsertingFacts
<1> QED
  BY <1>4, <1>5

LEMMA ReadingJobsDiffer ==
    ASSUME NEW N, NEW P, NEW a, Documented(a, N, P), NEW t \in Wheels(a), NEW u \in Wheels(a),
           ReadingJob(a, t) = ReadingJob(a, u)
    PROVE  t = u
<1> DEFINE n == Inserts(a)
<1>1. n \in Nat /\ Listed(a) = 1 .. n
  BY AttackFacts
<1> HIDE DEF n
<1>2. ASSUME NEW i \in 1 .. n PROVE t[i] = u[i]
  <2>1. t[i] \in 1 .. Len(a.lists[i]) /\ u[i] \in 1 .. Len(a.lists[i])
    BY <1>1 DEF Wheels
  <2>2. ReadingJob(a, t)[a.positions[i]] = a.lists[i][t[i]]
    BY <1>1, ReadingJobFacts
  <2>3. ReadingJob(a, u)[a.positions[i]] = a.lists[i][u[i]]
    BY <1>1, ReadingJobFacts
  <2>4. a.lists[i][t[i]] = a.lists[i][u[i]]
    BY <2>2, <2>3
  <2>5. \A k, l \in 1 .. Len(a.lists[i]) : a.lists[i][k] = a.lists[i][l] => k = l
    BY <1>1, PayloadFacts
  <2> QED
    BY <2>1, <2>4, <2>5
<1>3. t \in [1 .. n -> Nat] /\ u \in [1 .. n -> Nat]
  BY <1>1 DEF Wheels
<1>4. t = [i \in 1 .. n |-> t[i]] /\ u = [i \in 1 .. n |-> u[i]]
  BY <1>3
<1> HIDE DEF n
<1>5. [i \in 1 .. n |-> t[i]] = [i \in 1 .. n |-> u[i]]
  BY <1>2
<1> QED
  BY <1>4, <1>5

\* With cluster-bomb every combination of payloads is one job.
Combines(a, jobs) ==
    /\ Len(jobs) = LengthsMultiplied(a)
    /\ \A k \in DOMAIN jobs : DOMAIN jobs[k] = DOMAIN a.base
    /\ \A i \in Listed(a) : \A payload \in ToSet(a.lists[i]) :
          \E k \in DOMAIN jobs : jobs[k][a.positions[i]] = payload
    /\ IsInjective(jobs)

LEMMA ClusterBombCombines ==
    ASSUME NEW N, NEW P, NEW a, Documented(a, N, P), \A i \in Listed(a) : a.lists[i] # <<>>,
           Listed(a) # {}
    PROVE  Combines(a, ClusterBombJobs(a))
<1> DEFINE n == Inserts(a)
           R == LengthsMultiplied(a)
           readings == Readings(a)
           start == [i \in Listed(a) |-> 1]
           job(k) == ReadingJob(a, readings[k])
           jobs == ClusterBombJobs(a)
<1>1. /\ n \in Nat /\ Listed(a) = 1 .. n
      /\ \A i \in 1 .. n : Len(a.lists[i]) \in Nat /\ DOMAIN a.lists[i] = 1 .. Len(a.lists[i])
  <2>1. n \in Nat /\ Listed(a) = 1 .. n
    BY AttackFacts
  <2>2. ASSUME NEW i \in Listed(a)
        PROVE  Len(a.lists[i]) \in Nat /\ DOMAIN a.lists[i] = 1 .. Len(a.lists[i])
    BY PayloadFacts
  <2> QED
    BY <2>1, <2>2
<1>2. start \in Wheels(a)
  BY StartIsNought
<1>3. R \in Nat /\ \A t \in Wheels(a) : Rank(a, t) \in Nat /\ Rank(a, t) + 1 <= R
  BY <1>2, RankBelow, RankingFacts
<1>4. /\ readings \in Seq(Wheels(a)) /\ Len(readings) = R
      /\ \A k \in 1 .. R : Rank(a, readings[k]) = k - 1
  BY ReadingsFacts
<1>5. jobs = [k \in DOMAIN readings |-> job(k)]
  BY DEF ClusterBombJobs
<1> HIDE DEF n, R, readings, start, jobs
<1>6. DOMAIN readings = 1 .. R /\ \A k \in 1 .. R : readings[k] \in Wheels(a)
  BY <1>4, LenProperties, ElementOfSeq
<1>7. ASSUME NEW t \in Wheels(a)
      PROVE  /\ DOMAIN ReadingJob(a, t) = DOMAIN a.base
             /\ \A i \in 1 .. n : ReadingJob(a, t)[a.positions[i]] = a.lists[i][t[i]]
  BY <1>1, ReadingJobFacts
<1>8. Len(jobs) = R /\ DOMAIN jobs = 1 .. R /\ \A k \in 1 .. R : jobs[k] = job(k)
  BY <1>3, <1>5, <1>6
<1>9. ASSUME NEW k \in 1 .. R PROVE DOMAIN jobs[k] = DOMAIN a.base
  BY <1>6, <1>7, <1>8
<1>10. ASSUME NEW i \in Listed(a), NEW payload \in ToSet(a.lists[i])
       PROVE  \E k \in 1 .. R : jobs[k][a.positions[i]] = payload
  <2>1. PICK m \in 1 .. Len(a.lists[i]) : payload = a.lists[i][m]
    BY <1>1 DEF ToSet
  <2> DEFINE t == [start EXCEPT ![i] = m]
             k == Rank(a, t) + 1
  <2>2. t \in Wheels(a) /\ t[i] = m
    <3>1. start \in [1 .. n -> Nat] /\ \A j \in 1 .. n : start[j] \in 1 .. Len(a.lists[j])
      BY <1>1, <1>2 DEF Wheels
    <3>2. m \in Nat /\ i \in 1 .. n
      BY <1>1
    <3>3. t \in [1 .. n -> Nat] /\ t[i] = m /\ \A j \in 1 .. n : j # i => t[j] = start[j]
      BY <3>1, <3>2
    <3> HIDE DEF t
    <3>4. \A j \in 1 .. n : t[j] \in 1 .. Len(a.lists[j])
      BY <3>1, <3>3
    <3> QED
      BY <1>1, <3>3, <3>4 DEF Wheels
  <2> HIDE DEF t
  <2>3. k \in 1 .. R /\ k - 1 = Rank(a, t)
    BY <1>3, <2>2
  <2> HIDE DEF k
  <2>4. readings[k] \in Wheels(a) /\ Rank(a, readings[k]) = Rank(a, t)
    BY <1>4, <1>6, <2>3
  <2>5. readings[k] = t
    BY <2>2, <2>4, RankInjective
  <2>6. jobs[k][a.positions[i]] = a.lists[i][m]
    <3>1. jobs[k] = ReadingJob(a, t)
      BY <1>8, <2>3, <2>5
    <3>2. ReadingJob(a, t)[a.positions[i]] = a.lists[i][t[i]]
      BY <2>2, ReadingJobFacts
    <3> QED
      BY <2>2, <3>1, <3>2
  <2> QED
    BY <2>1, <2>3, <2>6
<1>11. ASSUME NEW k \in 1 .. R, NEW l \in 1 .. R, jobs[k] = jobs[l] PROVE k = l
  <2> DEFINE t == readings[k]
             u == readings[l]
  <2>1. t \in Wheels(a) /\ u \in Wheels(a) /\ ReadingJob(a, t) = ReadingJob(a, u)
    BY <1>6, <1>8, <1>11
  <2>2. Rank(a, t) = k - 1 /\ Rank(a, u) = l - 1
    BY <1>4
  <2> HIDE DEF t, u
  <2>3. t = u
    BY <2>1, ReadingJobsDiffer
  <2> QED
    BY <2>2, <2>3
<1>12. IsInjective(jobs)
  BY <1>8, <1>11 DEF IsInjective
<1> QED
  BY <1>8, <1>9, <1>10, <1>12 DEF Combines, R, jobs

LEMMA ClusterBombDone ==
    ASSUME NEW N, NEW P, NEW a, Documented(a, N, P), a.mode = "cluster-bomb"
    PROVE  JobsAsDocumented(a)
<1> DEFINE jobs == ClusterBombJobs(a)
<1>1. Jobs(a) = jobs /\ Count(a) = LengthsMultiplied(a)
  BY DEF Jobs, Count
<1>2. CASE Listed(a) = {}
  <2>1. jobs = <<a.base>>
    BY <1>2 DEF ClusterBombJobs
  <2>2. LengthsMultiplied(a) = 1
    <3>1. PICK product \in Products(a) : LengthsMultiplied(a) = product[Inserts(a)]
      BY ProductFacts
    <3>2. Inserts(a) = 0
      BY <1>2, AttackFacts
    <3> QED
      BY <3>1, <3>2 DEF Products
  <2> HIDE DEF jobs
  <2>3. Len(jobs) = 1 /\ DOMAIN jobs = {1} /\ jobs[1] = a.base
    BY <2>1
  <2> QED
    BY <1>1, <1>2, <2>2, <2>3 DEF JobsAsDocumented, IsInjective
<1>3. CASE \E i \in Listed(a) : a.lists[i] = <<>>
  <2>1. jobs = <<>>
    BY <1>3 DEF ClusterBombJobs
  <2>2. LengthsMultiplied(a) = 0
    BY <1>3, NothingToMultiply
  <2> HIDE DEF jobs
  <2>3. Len(jobs) = 0 /\ DOMAIN jobs = {}
    BY <2>1
  <2> QED
    BY <1>1, <2>1, <2>2, <2>3 DEF JobsAsDocumented, IsInjective
<1>4. CASE Listed(a) # {} /\ \A i \in Listed(a) : a.lists[i] # <<>>
  <2>1. Combines(a, jobs)
    BY <1>4, ClusterBombCombines
  <2> HIDE DEF jobs
  <2> QED
    BY <1>1, <2>1 DEF Combines, JobsAsDocumented
<1> QED
  BY <1>2, <1>3, <1>4

THEOREM AttacksAreAsDocumented ==
    ASSUME NEW N, NEW P, NEW a, Documented(a, N, P)
    PROVE  JobsAsDocumented(a)
<1>1. CASE a.mode \notin {"sniper", "battering-ram", "pitchfork", "cluster-bomb"}
  <2>1. Jobs(a) = <<a.base>> /\ Count(a) = 1
    BY <1>1 DEF Jobs, Count
  <2> QED
    BY <1>1, <2>1 DEF JobsAsDocumented
<1> QED
  BY <1>1, SniperDone, BatteringRamDone, PitchforkDone, ClusterBombDone

\* What the run checks of it is a part of that.
THEOREM AttacksOfTheRun == RepSpec => []AttacksAsDocumented
<1> DEFINE words == {<<"a">>, <<"a", "b">>, <<"c", "a", "b">>}
           names == <<"p", "q", "r">>
           P == {"a", "b", "c"}
           N == {"p", "q", "r"}
<1>1. names \in Seq(N) /\ Len(names) = 3 /\ \A i, j \in 1 .. 3 : names[i] = names[j] => i = j
  OBVIOUS
<1>2. ASSUME NEW word \in words
      PROVE  word \in Seq(P) /\ word # <<>> /\ IsInjective(word) /\ Head(word) \in P
  <2>1. CASE word = <<"a">>
    BY <2>1 DEF IsInjective
  <2>2. CASE word = <<"a", "b">>
    BY <2>2 DEF IsInjective
  <2>3. CASE word = <<"c", "a", "b">>
    BY <2>3 DEF IsInjective
  <2> QED
    BY <2>1, <2>2, <2>3
<1> HIDE DEF words, names, N, P
<1>3. ASSUME NEW mode, NEW n \in 0 .. 3, NEW lists \in [1 .. n -> words]
      PROVE  LET positions == SubSeq(names, 1, n)
                 base == [name \in ToSet(positions) |->
                             Head(lists[CHOOSE i \in 1 .. n : positions[i] = name])]
             IN  JobsAsDocumented([mode |-> mode, positions |-> positions,
                                   lists |-> lists, base |-> base])
  <2> DEFINE positions == SubSeq(names, 1, n)
             base == [name \in ToSet(positions) |->
                         Head(lists[CHOOSE i \in 1 .. n : positions[i] = name])]
             a == [mode |-> mode, positions |-> positions, lists |-> lists, base |-> base]
  <2>1. /\ positions \in Seq(N) /\ Len(positions) = n /\ DOMAIN positions = 1 .. n
        /\ \A i \in 1 .. n : i \in 1 .. 3 /\ positions[i] = names[i]
    BY <1>1, SubSeqProperties
  <2> HIDE DEF positions
  <2>2. IsInjective(positions)
    BY <1>1, <2>1 DEF IsInjective
  <2>3. lists \in Seq(Seq(P)) /\ Len(lists) = n /\ DOMAIN lists = 1 .. n
    BY <1>2
  <2>4. \A i \in DOMAIN lists : IsInjective(lists[i])
    BY <1>2, <2>3
  <2>5. base \in [ToSet(positions) -> P]
    <3>1. ASSUME NEW name \in ToSet(positions)
          PROVE  Head(lists[CHOOSE i \in 1 .. n : positions[i] = name]) \in P
      <4>1. \E i \in 1 .. n : positions[i] = name
        BY <2>1 DEF ToSet
      <4> QED
        BY <1>2, <4>1
    <3> QED
      BY <3>1
  <2> HIDE DEF base
  <2>6. Documented(a, N, P)
    BY <2>1, <2>2, <2>3, <2>4, <2>5 DEF Documented
  <2>7. JobsAsDocumented(a)
    BY <2>6, AttacksAreAsDocumented
  <2> QED
    BY <2>7 DEF base, positions
<1>4. AttacksAsDocumented
  BY <1>3 DEF AttacksAsDocumented, words, names
<1> QED
  BY <1>4, PTL
================================================================================
