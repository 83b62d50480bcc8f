------------------------------ MODULE StoreProofs ------------------------------
(***************************************************************************)
(* Proofs about Store, for any number of flows and writers and any         *)
(* capacity of the event channel, and about the list that shows its flows, *)
(* FlowList, for panes and lists of any size and any jump between hosts.   *)
(***************************************************************************)
EXTENDS MCStore, SequenceTheorems, FiniteSetTheorems, WellFoundedInduction, TLAPS

USE StoreAssumption DEF StoreAssumption, Recorded, Listed, Coming

-----------------------------------------------------------------------------
(* The inductive invariant.                                                *)

\* The screen shows an initial part of the store.
ShowsPrefix ==
    /\ Len(flows) <= Len(order)
    /\ \A i \in DOMAIN flows : flows[i] = order[i]

\* Before the UI subscribes nothing reaches it, and only early flows exist.
NothingBefore ==
    ~ subscribed =>
        /\ events = 0 /\ ~ relay
        /\ flows = <<>> /\ viewFlow = NoFlow
        /\ \A w \in Writers : pc[w] # "send"
        /\ \A f \in Flows : Recorded(f) => f \in Early

IInv == TypeOK /\ NothingBefore /\ ShowsPrefix /\ ListedOrComing /\ DetailLive

-----------------------------------------------------------------------------
\* Being a prefix is a matter of length and of the elements one by one.
LEMMA PrefixByElement ==
    ASSUME NEW S, NEW s \in Seq(S), NEW t \in Seq(S),
           Len(s) <= Len(t), \A i \in DOMAIN s : s[i] = t[i]
    PROVE  IsPrefix(s, t)
<1>1. Len(s) \in Nat /\ Len(t) \in Nat /\ DOMAIN s = 1 .. Len(s)
  OBVIOUS
<1>2. SubSeq(s, 1, Len(s)) = SubSeq(t, 1, Len(s))
  BY <1>1, SubSeqProperties
<1> QED
  BY <1>1, <1>2 DEF IsPrefix

\* Appending keeps the elements that were there and adds the new one.
LEMMA AppendKeeps ==
    ASSUME NEW S, NEW s \in Seq(S), NEW e \in S
    PROVE  /\ Append(s, e) \in Seq(S)
           /\ Len(Append(s, e)) = Len(s) + 1
           /\ \A i \in DOMAIN s : i \in DOMAIN Append(s, e) /\ Append(s, e)[i] = s[i]
           /\ \A i \in DOMAIN Append(s, e) : i \in DOMAIN s \/ Append(s, e)[i] = e
OBVIOUS

\* Initially nothing is recorded, shown or under way.
LEMMA InitInvariant == Init => IInv
<1> SUFFICES ASSUME Init PROVE IInv
  OBVIOUS
<1> USE DEF Init
<1>1. TypeOK
  <2>1. order \in Seq(Flows) /\ flows \in Seq(Flows)
    OBVIOUS
  <2>2. /\ rev \in [Flows -> 0 .. MaxRev] /\ viewRev \in 0 .. MaxRev
        /\ events \in 0 .. EventCap
    OBVIOUS
  <2>3. /\ pc \in [Writers -> {"idle", "changed", "publish", "send"}]
        /\ job \in [Writers -> Flows \cup {NoFlow}]
    OBVIOUS
  <2> QED
    BY <2>1, <2>2, <2>3 DEF TypeOK
<1>2. NothingBefore /\ ListedOrComing /\ DetailLive
  BY DEF NothingBefore, ListedOrComing, DetailLive
<1>3. ShowsPrefix
  BY DEF ShowsPrefix
<1> QED
  BY <1>1, <1>2, <1>3 DEF IInv

\* Every step keeps the variables in their types.
LEMMA TypeStep == TypeOK /\ [Next]_vars => TypeOK'
<1> SUFFICES ASSUME TypeOK, [Next]_vars PROVE TypeOK'
  OBVIOUS
<1> USE DEF TypeOK, storeVars, writerVars, uiVars, vars
<1>1. ASSUME NEW w \in Writers, NEW f \in Flows, Add(w, f) PROVE TypeOK'
  BY <1>1, AppendKeeps DEF Add, Begin
<1>2. ASSUME NEW w \in Writers, NEW f \in Flows, Change(w, f) PROVE TypeOK'
  BY <1>2 DEF Change
<1>3. ASSUME NEW w \in Writers, ReadSubs(w) PROVE TypeOK'
  BY <1>3 DEF ReadSubs
<1>4. ASSUME NEW w \in Writers, Send(w) PROVE TypeOK'
  BY <1>4 DEF Send
<1>5. CASE Subscribe
  BY <1>5 DEF Subscribe
<1>6. CASE Relay
  BY <1>6 DEF Relay
<1>7. CASE Refresh
  BY <1>7 DEF Refresh, List, Render
<1>8. ASSUME NEW f \in Flows, OpenDetail(f) PROVE TypeOK'
  BY <1>8 DEF OpenDetail
<1>9. CASE CloseDetail
  BY <1>9 DEF CloseDetail
<1>10. ASSUME NEW w \in Writers, Touch(w) PROVE TypeOK'
  BY <1>10 DEF Touch
<1>11. CASE UNCHANGED vars
  BY <1>11
<1> QED
  BY <1>1, <1>2, <1>3, <1>4, <1>5, <1>6, <1>7, <1>8, <1>9, <1>10, <1>11
     DEF Next, Publish

\* Nothing reaches the UI before it subscribes.
LEMMA BeforeStep == IInv /\ [Next]_vars => NothingBefore'
<1> SUFFICES ASSUME IInv, [Next]_vars PROVE NothingBefore'
  OBVIOUS
<1> USE DEF IInv, TypeOK, NothingBefore, storeVars, writerVars, uiVars, vars
<1>1. ASSUME NEW w \in Writers, NEW f \in Flows, Add(w, f) PROVE NothingBefore'
  <2>1. order' = Append(order, f) /\ (subscribed \/ f \in Early)
    BY <1>1 DEF Add
  <2>2. \A g \in Flows : Recorded(g)' => Recorded(g) \/ g = f
    BY <2>1, AppendKeeps
  <2> QED
    BY <1>1, <2>1, <2>2 DEF Add, Begin
<1>2. ASSUME NEW w \in Writers, NEW f \in Flows, Change(w, f) PROVE NothingBefore'
  BY <1>2 DEF Change
<1>3. ASSUME NEW w \in Writers, ReadSubs(w) PROVE NothingBefore'
  BY <1>3 DEF ReadSubs
<1>4. ASSUME NEW w \in Writers, Send(w) PROVE NothingBefore'
  BY <1>4 DEF Send
<1>5. CASE Subscribe \/ Relay \/ Refresh \/ CloseDetail
  BY <1>5 DEF Subscribe, Relay, Refresh, CloseDetail
<1>6. ASSUME NEW f \in Flows, OpenDetail(f) PROVE NothingBefore'
  BY <1>6 DEF OpenDetail
<1>7. ASSUME NEW w \in Writers, Touch(w) PROVE NothingBefore'
  BY <1>7 DEF Touch
<1>8. CASE UNCHANGED vars
  BY <1>8
<1> QED
  BY <1>1, <1>2, <1>3, <1>4, <1>5, <1>6, <1>7, <1>8 DEF Next, Publish

\* The screen is only ever a prefix of the store.
LEMMA PrefixStep == IInv /\ [Next]_vars => ShowsPrefix'
<1> SUFFICES ASSUME IInv, [Next]_vars PROVE ShowsPrefix'
  OBVIOUS
<1> USE DEF IInv, TypeOK, ShowsPrefix
<1>1. ASSUME NEW w \in Writers, NEW f \in Flows, Add(w, f) PROVE ShowsPrefix'
  <2>1. order' = Append(order, f) /\ flows' = flows
    BY <1>1 DEF Add, uiVars
  <2>2. \A i \in DOMAIN flows : i \in DOMAIN order
    OBVIOUS
  <2> QED
    BY <2>1, <2>2, AppendKeeps
<1>2. CASE Refresh
  BY <1>2 DEF Refresh, List, storeVars
<1>3. CASE UNCHANGED <<order, flows>>
  BY <1>3
<1> QED
  BY <1>1, <1>2, <1>3
     DEF Next, Publish, Change, Touch, ReadSubs, Send, Subscribe, Relay, OpenDetail,
         CloseDetail, storeVars, writerVars, uiVars, vars

\* What is coming for a flow keeps coming until the UI lists the store.
LEMMA ComingStep ==
    ASSUME IInv, [Next]_vars, subscribed, ~ Refresh, NEW f \in Flows, Coming(f)
    PROVE  Coming(f)'
<1> USE DEF IInv, TypeOK
<1>1. ASSUME NEW w \in Writers, NEW g \in Flows, Add(w, g) \/ Change(w, g) PROVE Coming(f)'
  BY <1>1 DEF Add, Change, Begin, uiVars
<1>2. ASSUME NEW w \in Writers, ReadSubs(w) PROVE Coming(f)'
  BY <1>2 DEF ReadSubs, uiVars, storeVars
<1>3. ASSUME NEW w \in Writers, Send(w) PROVE Coming(f)'
  BY <1>3 DEF Send
<1>4. CASE Subscribe \/ CloseDetail
  BY <1>4 DEF Subscribe, CloseDetail, storeVars, writerVars, uiVars
<1>5. CASE Relay
  BY <1>5 DEF Relay
<1>6. ASSUME NEW g \in Flows, OpenDetail(g) PROVE Coming(f)'
  BY <1>6 DEF OpenDetail, storeVars, writerVars
<1>7. ASSUME NEW w \in Writers, Touch(w) PROVE Coming(f)'
  BY <1>7 DEF Touch, storeVars, uiVars
<1>8. CASE UNCHANGED vars
  BY <1>8 DEF storeVars, writerVars, uiVars, vars
<1> QED
  BY <1>1, <1>2, <1>3, <1>4, <1>5, <1>6, <1>7, <1>8 DEF Next, Publish

\* A flow that is recorded is listed by the next refresh, or still coming.
LEMMA ListedStep == IInv /\ [Next]_vars => ListedOrComing'
<1> SUFFICES ASSUME IInv, [Next]_vars, NEW f \in Flows \ Early, Recorded(f)'
             PROVE  Listed(f)' \/ Coming(f)'
  BY DEF ListedOrComing
<1> USE DEF IInv, TypeOK
<1>1. CASE Refresh
  BY <1>1 DEF Refresh, List, storeVars
<1>2. ASSUME NEW w \in Writers, Add(w, f) PROVE Coming(f)'
  BY <1>2 DEF Add, Begin
<1>3. ASSUME ~ Refresh, \A w \in Writers : ~ Add(w, f) PROVE Listed(f)' \/ Coming(f)'
  <2>1. flows' = flows
    BY <1>3 DEF Next, Publish, Add, Change, Touch, ReadSubs, Send, Subscribe, Relay,
                OpenDetail, CloseDetail, uiVars, vars
  <2>2. Recorded(f)
    <3>1. ASSUME NEW w \in Writers, NEW g \in Flows \ {f}, Add(w, g) PROVE Recorded(f)
      <4>1. order' = Append(order, g)
        BY <3>1 DEF Add
      <4> QED
        BY <4>1, AppendKeeps
    <3>2. CASE order' = order
      BY <3>2
    <3> QED
      BY <1>3, <3>1, <3>2
         DEF Next, Publish, Change, Touch, ReadSubs, Send, Subscribe, Relay, OpenDetail,
             CloseDetail, storeVars, vars
  <2>3. CASE Listed(f)
    BY <2>1, <2>3
  <2>4. CASE Coming(f)
    <3>1. subscribed
      BY <2>2 DEF NothingBefore
    <3> QED
      BY <1>3, <2>4, <3>1, ComingStep
  <2> QED
    BY <2>2, <2>3, <2>4 DEF ListedOrComing
<1> QED
  BY <1>1, <1>2, <1>3

\* What was changed and not yet published is so until its goroutine calls Touch,
\* which has it published.
LEMMA OwedStep ==
    ASSUME IInv, [Next]_vars, NEW f \in Flows, Owed(f)
    PROVE  Owed(f)' \/ Coming(f)'
<1> USE DEF IInv, TypeOK, Owed
<1> PICK w \in Writers : job[w] = f /\ pc[w] = "changed"
  OBVIOUS
<1>1. CASE Touch(w)
  BY <1>1 DEF Touch
<1>2. CASE ~ Touch(w)
  <2>1. ASSUME NEW v \in Writers, NEW g \in Flows, Change(v, g) PROVE Owed(f)'
    BY <2>1 DEF Change
  <2>2. ASSUME NEW v \in Writers, NEW g \in Flows, Add(v, g) PROVE Owed(f)'
    BY <2>2 DEF Add, Begin
  <2>3. ASSUME NEW v \in Writers, Touch(v) \/ ReadSubs(v) \/ Send(v) PROVE Owed(f)'
    BY <1>2, <2>3 DEF Touch, ReadSubs, Send
  <2>4. CASE UNCHANGED <<pc, job>>
    BY <2>4
  <2> QED
    BY <2>1, <2>2, <2>3, <2>4
       DEF Next, Publish, Subscribe, Relay, Refresh, OpenDetail, CloseDetail, writerVars, vars
<1> QED
  BY <1>1, <1>2

\* The detail view is rendered by the refresh, or its flow is still coming or owed.
LEMMA DetailStep == IInv /\ [Next]_vars => DetailLive'
<1> DEFINE Follows == viewRev = rev[viewFlow] \/ Coming(viewFlow) \/ Owed(viewFlow)
<1> SUFFICES ASSUME IInv, [Next]_vars, viewFlow' # NoFlow PROVE Follows'
  BY DEF DetailLive
<1> USE DEF IInv, TypeOK
<1>1. CASE Refresh
  BY <1>1 DEF Refresh, Render, storeVars
<1>2. ASSUME NEW f \in Flows, OpenDetail(f) PROVE Follows'
  BY <1>2 DEF OpenDetail, storeVars
<1>3. ASSUME ~ Refresh, \A f \in Flows : ~ OpenDetail(f) PROVE Follows'
  <2>1. viewFlow' = viewFlow /\ viewRev' = viewRev /\ viewFlow \in Flows
    BY <1>3 DEF Next, Publish, Add, Change, Touch, ReadSubs, Send, Subscribe, Relay,
                CloseDetail, uiVars, vars
  <2>2. CASE Coming(viewFlow)
    <3>1. subscribed
      BY <2>1 DEF NothingBefore
    <3>2. Coming(viewFlow)'
      BY <1>3, <2>1, <2>2, <3>1, ComingStep
    <3> QED
      BY <3>2
  <2>3. CASE Owed(viewFlow)
    <3>1. Owed(viewFlow)' \/ Coming(viewFlow)'
      BY <2>1, <2>3, OwedStep
    <3> QED
      BY <3>1
  <2>4. ASSUME NEW w \in Writers, Change(w, viewFlow) PROVE Owed(viewFlow)'
    BY <2>1, <2>4 DEF Change, Owed
  <2>5. CASE viewRev = rev[viewFlow] /\ rev'[viewFlow] = rev[viewFlow]
    BY <2>1, <2>5
  <2>6. rev'[viewFlow] = rev[viewFlow] \/ \E w \in Writers : Change(w, viewFlow)
    <3>1. rev' = rev \/ \E w \in Writers, f \in Flows : Change(w, f)
      BY <1>3 DEF Next, Publish, Add, Touch, ReadSubs, Send, Subscribe, Relay,
                  CloseDetail, storeVars, vars
    <3>2. ASSUME NEW w \in Writers, NEW f \in Flows, Change(w, f), f # viewFlow
          PROVE  rev'[viewFlow] = rev[viewFlow]
      BY <2>1, <3>2 DEF Change
    <3> QED
      BY <3>1, <3>2
  <2> QED
    BY <2>1, <2>2, <2>3, <2>4, <2>5, <2>6 DEF DetailLive
<1> QED
  BY <1>1, <1>2, <1>3

-----------------------------------------------------------------------------
(* The theorems.                                                           *)

\* The invariant holds throughout every behaviour of the store.
THEOREM Invariance == Spec => []IInv
<1>1. IInv /\ [Next]_vars => IInv'
  BY TypeStep, BeforeStep, PrefixStep, ListedStep, DetailStep DEF IInv
<1> QED
  BY <1>1, InitInvariant, PTL DEF Spec

\* Every variable keeps its type; in particular the channel is never
\* overfilled.
THEOREM TypeCorrect == Spec => []TypeOK
<1>1. IInv => TypeOK
  BY DEF IInv
<1> QED
  BY <1>1, Invariance, PTL

\* Dropped events are harmless: a flow recorded while the UI listens is on the
\* screen or about to be.
THEOREM DropsHeal == Spec => []ListedOrComing
<1>1. IInv => ListedOrComing
  BY DEF IInv
<1> QED
  BY <1>1, Invariance, PTL

\* The detail view is left behind the flow it shows no longer than until the goroutine
\* that changed the flow has called Touch and the UI has come to render it again.
THEOREM DetailFollows == Spec => []DetailLive
<1>1. IInv => DetailLive
  BY DEF IInv
<1> QED
  BY <1>1, Invariance, PTL

\* The list on the screen only ever grows at its end.
THEOREM RowsKeepTheirPlaces == Spec => ListStable
<1>1. ASSUME IInv, IInv', [Next]_vars PROVE [IsPrefix(flows, flows')]_flows
  <2>1. CASE Refresh
    <3>1. flows' = order
      BY <2>1 DEF Refresh, List
    <3>2. flows \in Seq(Flows) /\ order \in Seq(Flows) /\ ShowsPrefix
      BY <1>1 DEF IInv, TypeOK
    <3>3. IsPrefix(flows, order)
      BY <3>2, PrefixByElement DEF ShowsPrefix
    <3> QED
      BY <3>1, <3>3
  <2>2. CASE ~ Refresh
    BY <1>1, <2>2 DEF Next, Publish, Add, Change, Touch, ReadSubs, Send, Subscribe, Relay,
                      OpenDetail, CloseDetail, uiVars, vars
  <2> QED
    BY <2>1, <2>2
<1> QED
  BY <1>1, Invariance, PTL DEF Spec, ListStable

-----------------------------------------------------------------------------
(* The list (FlowList): what is drawn, what is clicked and what is         *)
(* selected agree.                                                         *)

\* How many rows are drawn.
Count(p, n, selected) ==
    LET start == WindowStart(p, n, selected)
    IN  IF n - start < ListRows(p) THEN n - start ELSE ListRows(p)

-----------------------------------------------------------------------------
\* Clamp gives a row of the list, if there is any.
LEMMA ClampInList ==
    ASSUME NEW i \in Int, NEW n \in Nat
    PROVE  /\ Clamp(i, n) \in Nat
           /\ n > 0 => Clamp(i, n) < n
           /\ n = 0 => Clamp(i, n) = 0
BY DEF Clamp

\* The window begins in the list and holds the selection.
LEMMA Window ==
    ASSUME NEW p \in Panes, NEW n \in Nat, NEW selected \in Int
    PROVE  /\ ListTop(p) \in Nat /\ ListTop(p) >= 1
           /\ ListRows(p) \in Nat /\ ListRows(p) >= 1
           /\ WindowStart(p, n, selected) \in Nat
           /\ Count(p, n, selected) \in Nat
           /\ n > 0 => /\ WindowStart(p, n, selected) <= Clamp(selected, n)
                       /\ Clamp(selected, n) < WindowStart(p, n, selected) + Count(p, n, selected)
           /\ n = 0 => WindowStart(p, n, selected) = 0
<1>1. ListTop(p) \in Nat /\ ListTop(p) >= 1 /\ Reserved(p) \in Nat
  BY DEF Panes, ListTop, Reserved, One
<1>2. p.h \in Nat
  BY DEF Panes
<1>3. ListRows(p) \in Nat /\ ListRows(p) >= 1
  BY <1>1, <1>2 DEF ListRows
<1>4. /\ Clamp(selected, n) \in Nat
      /\ n > 0 => Clamp(selected, n) < n
      /\ n = 0 => Clamp(selected, n) = 0
  BY ClampInList
<1> QED
  BY <1>1, <1>3, <1>4 DEF WindowStart, Count

\* The lines of the pane, one by one.
LEMMA Lines ==
    ASSUME NEW p \in Panes, NEW n \in Nat, NEW selected \in Int
    PROVE  LET lines == Drawn(p, n, selected)
               top == ListTop(p)
               count == Count(p, n, selected)
           IN  /\ Len(lines) = top + count + (IF p.paused THEN 3 ELSE 0)
               /\ DOMAIN lines = 1 .. Len(lines)
               /\ \A y \in DOMAIN lines :
                     lines[y] = IF top < y /\ y <= top + count
                                THEN WindowStart(p, n, selected) + y - top - 1 ELSE NoRow
<1> DEFINE top == ListTop(p)
           start == WindowStart(p, n, selected)
           count == Count(p, n, selected)
           head == <<NoRow>> \o Line(p.filter) \o Line(p.cmdline)
           rows == [i \in 1 .. count |-> start + i - 1]
           prompt == IF p.paused THEN <<NoRow, NoRow, NoRow>> ELSE <<>>
<1>1. top \in Nat /\ start \in Nat /\ count \in Nat
  BY Window
<1>2. head \in Seq(Int) /\ Len(head) = top /\ \A y \in 1 .. top : head[y] = NoRow
  <2>1. \A b \in BOOLEAN :
          /\ Line(b) \in Seq({NoRow}) /\ Len(Line(b)) = One(b)
    <3>1. Line(TRUE) = <<NoRow>> /\ One(TRUE) = 1 /\ Line(FALSE) = <<>> /\ One(FALSE) = 0
      BY DEF Line, One
    <3>2. <<NoRow>> \in Seq({NoRow}) /\ Len(<<NoRow>>) = 1
      OBVIOUS
    <3>3. <<>> \in Seq({NoRow}) /\ Len(<<>>) = 0
      OBVIOUS
    <3>4. \A b \in BOOLEAN : b = TRUE \/ b = FALSE
      OBVIOUS
    <3> QED
      BY <3>1, <3>2, <3>3, <3>4
  <2>2. p.filter \in BOOLEAN /\ p.cmdline \in BOOLEAN
    BY DEF Panes
  <2>3. <<NoRow>> \in Seq({NoRow}) /\ Len(<<NoRow>>) = 1
    OBVIOUS
  <2>4. /\ <<NoRow>> \o Line(p.filter) \in Seq({NoRow})
        /\ Len(<<NoRow>> \o Line(p.filter)) = 1 + One(p.filter)
    BY <2>1, <2>2, <2>3, ConcatProperties
  <2>5. head \in Seq({NoRow}) /\ Len(head) = 1 + One(p.filter) + One(p.cmdline)
    <3> DEFINE upper == <<NoRow>> \o Line(p.filter)
    <3>1. upper \in Seq({NoRow}) /\ Len(upper) = 1 + One(p.filter)
      BY <2>4
    <3>2. /\ Line(p.cmdline) \in Seq({NoRow})
          /\ Len(Line(p.cmdline)) = One(p.cmdline)
      BY <2>1, <2>2
    <3> HIDE DEF upper
    <3>3. /\ upper \o Line(p.cmdline) \in Seq({NoRow})
          /\ Len(upper \o Line(p.cmdline)) = Len(upper) + Len(Line(p.cmdline))
      BY <3>1, <3>2, ConcatProperties
    <3> QED
      BY <3>1, <3>2, <3>3 DEF upper
  <2>6. Len(head) = top
    BY <2>5 DEF ListTop
  <2>7. \A y \in 1 .. Len(head) : head[y] \in {NoRow}
    BY <2>5, ElementOfSeq
  <2>8. head \in Seq(Int)
    <3> HIDE DEF head
    <3>1. Len(head) \in Nat /\ head = [y \in 1 .. Len(head) |-> head[y]]
      BY <2>5
    <3> QED
      BY <2>7, <3>1 DEF NoRow
  <2> QED
    BY <2>6, <2>7, <2>8
<1>3. rows \in Seq(Int) /\ Len(rows) = count /\ \A i \in 1 .. count : rows[i] = start + i - 1
  BY <1>1
<1>4. /\ prompt \in Seq(Int)
      /\ Len(prompt) = IF p.paused THEN 3 ELSE 0
      /\ \A i \in 1 .. Len(prompt) : prompt[i] = NoRow
  BY DEF NoRow
<1>5. Drawn(p, n, selected) = head \o rows \o prompt
  BY DEF Drawn, Count
<1> HIDE DEF head, rows, prompt, top, start, count
<1> DEFINE lines == head \o rows \o prompt
<1>6. /\ lines \in Seq(Int) /\ Len(lines) = top + count + Len(prompt)
      /\ \A y \in 1 .. Len(lines) :
            lines[y] = IF y <= top THEN head[y]
                       ELSE IF y <= top + count THEN rows[y - top]
                       ELSE prompt[y - top - count]
  <2>1. /\ head \o rows \in Seq(Int) /\ Len(head \o rows) = top + count
        /\ \A y \in 1 .. top + count :
              (head \o rows)[y] = IF y <= top THEN head[y] ELSE rows[y - top]
    BY <1>2, <1>3, ConcatProperties, ZenonT(30)
  <2>2. Len(prompt) \in Nat
    BY <1>4
  <2> DEFINE upper == head \o rows
  <2> HIDE DEF upper
  <2>3. /\ upper \o prompt \in Seq(Int)
        /\ Len(upper \o prompt) = Len(upper) + Len(prompt)
        /\ \A y \in 1 .. Len(upper) + Len(prompt) :
              (upper \o prompt)[y] = IF y <= Len(upper) THEN upper[y]
                                     ELSE prompt[y - Len(upper)]
    BY <1>4, <2>1, ConcatProperties, ZenonT(30) DEF upper
  <2>4. Len(upper) = top + count /\ lines = upper \o prompt
    BY <2>1 DEF upper
  <2>5. Len(lines) = top + count + Len(prompt)
    BY <2>3, <2>4
  <2>6. \A y \in 1 .. Len(lines) :
          lines[y] = IF y <= top + count THEN upper[y] ELSE prompt[y - (top + count)]
    BY <2>3, <2>4, <2>5
  <2>7. \A y \in 1 .. top + count : upper[y] = IF y <= top THEN head[y] ELSE rows[y - top]
    BY <2>1 DEF upper
  <2> HIDE DEF lines
  <2>8. \A y \in Int : y - (top + count) = y - top - count
    BY <1>1
  <2> QED
    BY <1>1, <2>2, <2>3, <2>4, <2>5, <2>6, <2>7, <2>8
<1>7. \A y \in 1 .. Len(lines) :
        lines[y] = IF top < y /\ y <= top + count THEN start + y - top - 1 ELSE NoRow
  BY <1>1, <1>2, <1>3, <1>4, <1>6
<1>8. lines = Drawn(p, n, selected)
  BY <1>5
<1> HIDE DEF lines
<1>9. Len(lines) = top + count + (IF p.paused THEN 3 ELSE 0) /\ DOMAIN lines = 1 .. Len(lines)
  BY <1>4, <1>6
<1> QED
  BY <1>7, <1>8, <1>9 DEF top, start, count

\* A click lands on the row that is drawn under it, or on nothing, in panes and
\* lists of any size and wherever the selection is (flowRowIndex).
THEOREM ClicksHitWhatIsDrawn ==
    ASSUME NEW p \in Panes, NEW n \in Nat, NEW selected \in Int, NEW y \in Nat
    PROVE  ClickHits(y, p, n, selected)
<1> DEFINE lines == Drawn(p, n, selected)
           top == ListTop(p)
           start == WindowStart(p, n, selected)
           count == Count(p, n, selected)
<1>1. /\ top \in Nat /\ top >= 1 /\ ListRows(p) \in Nat /\ start \in Nat /\ count \in Nat
      /\ count = IF n - start < ListRows(p) THEN n - start ELSE ListRows(p)
  BY Window DEF Count
<1>2. /\ Len(lines) = top + count + (IF p.paused THEN 3 ELSE 0)
      /\ DOMAIN lines = 1 .. Len(lines)
      /\ \A z \in DOMAIN lines :
            lines[z] = IF top < z /\ z <= top + count THEN start + z - top - 1 ELSE NoRow
  BY Lines
<1>3. DrawnAt(y, p, n, selected) = IF y < Len(lines) THEN lines[y + 1] ELSE NoRow
  BY DEF DrawnAt
<1>4. FlowRowIndex(y, p, n, selected)
        = IF y - top < 0 \/ y - top >= ListRows(p) \/ start + (y - top) >= n
          THEN NoRow ELSE start + (y - top)
  BY DEF FlowRowIndex
<1> HIDE DEF lines, top, start, count
<1>5. DrawnAt(y, p, n, selected)
        = IF top <= y /\ y < top + count THEN start + (y - top) ELSE NoRow
  <2>1. CASE y < Len(lines)
    <3>1. y + 1 \in DOMAIN lines
      BY <1>1, <1>2, <2>1
    <3>2. lines[y + 1] = IF top < y + 1 /\ y + 1 <= top + count
                         THEN start + (y + 1) - top - 1 ELSE NoRow
      BY <1>2, <3>1
    <3> QED
      BY <1>1, <1>3, <2>1, <3>2
  <2>2. CASE ~ (y < Len(lines))
    BY <1>1, <1>2, <1>3, <2>2
  <2> QED
    BY <2>1, <2>2
<1> QED
  BY <1>1, <1>4, <1>5 DEF ClickHits

\* The highlighted row is always on the screen (renderTraffic).
THEOREM SelectionStaysVisible ==
    ASSUME NEW p \in Panes, NEW n \in Nat, NEW selected \in Int
    PROVE  SelectionDrawn(p, n, selected)
<1> SUFFICES ASSUME n > 0
             PROVE  \E y \in DOMAIN Drawn(p, n, selected) :
                       Drawn(p, n, selected)[y] = Clamp(selected, n)
  BY DEF SelectionDrawn
<1> DEFINE top == ListTop(p)
           start == WindowStart(p, n, selected)
           count == Count(p, n, selected)
           row == Clamp(selected, n)
           lines == Drawn(p, n, selected)
           y == top + 1 + (row - start)
<1>1. /\ top \in Nat /\ start \in Nat /\ count \in Nat /\ row \in Nat
      /\ start <= row /\ row < start + count
  BY Window, ClampInList
<1>2. /\ Len(lines) = top + count + (IF p.paused THEN 3 ELSE 0)
      /\ DOMAIN lines = 1 .. Len(lines)
      /\ \A z \in DOMAIN lines :
            lines[z] = IF top < z /\ z <= top + count THEN start + z - top - 1 ELSE NoRow
  BY Lines
<1> SUFFICES \E z \in DOMAIN lines : lines[z] = row
  OBVIOUS
<1> HIDE DEF top, start, count, row, lines
<1>3. y \in DOMAIN lines
  BY <1>1, <1>2
<1>4. top < y /\ y <= top + count /\ start + y - top - 1 = row
  BY <1>1
<1> HIDE DEF y
<1>5. lines[y] = row
  BY <1>2, <1>3, <1>4
<1> QED
  BY <1>3, <1>5

\* A pane that has room for a row is never drawn higher than it is, so that
\* clicks keep to their rows (View, trafficRowLayout).
THEOREM PaneIsNeverOverdrawn ==
    ASSUME NEW p \in Panes, NEW n \in Nat, NEW selected \in Int
    PROVE  Fits(p, n, selected)
<1> SUFFICES ASSUME p.h > Reserved(p) PROVE Len(Drawn(p, n, selected)) <= p.h + 1
  BY DEF Fits
<1>1. /\ ListTop(p) \in Nat /\ p.h \in Nat
      /\ Reserved(p) = ListTop(p) + (IF p.paused THEN 2 ELSE 0)
  BY Window DEF Reserved, One, Panes
<1>2. ListRows(p) = p.h - Reserved(p)
  BY <1>1 DEF ListRows
<1>3. Count(p, n, selected) \in Nat /\ Count(p, n, selected) <= ListRows(p)
  <2>1. WindowStart(p, n, selected) \in Nat /\ Count(p, n, selected) \in Nat
    BY Window
  <2> QED
    BY <1>1, <1>2, <2>1 DEF Count
<1>4. Len(Drawn(p, n, selected))
        = ListTop(p) + Count(p, n, selected) + (IF p.paused THEN 3 ELSE 0)
  BY Lines
<1> QED
  BY <1>1, <1>2, <1>3, <1>4

\* Every motion of the cursor ends on a row of the list, or at its top when
\* the list is empty (onKey, onFilterKey).
THEOREM MotionsStayInList ==
    ASSUME NEW n \in Nat, NEW selected \in Nat, NEW count \in Nat
    PROVE  \A row \in {Top(count, n), Bottom(count, n), Down(selected, count, n),
                       Up(selected, count, n), Filtered(selected, n)} :
              row \in Nat /\ (row < n \/ row = 0)
BY DEF Top, Bottom, Down, Up, Filtered, Clamp

-----------------------------------------------------------------------------
(* Jumps from host to host.  Induction over the natural numbers is stated  *)
(* with a set: the library's theorems about it have a formula as a         *)
(* parameter.                                                              *)

LEMMA SetInduction ==
    ASSUME NEW S, 0 \in S, \A k \in Nat : k \in S => k + 1 \in S
    PROVE  Nat \subseteq S
<1> SUFFICES ASSUME Nat \ S # {} PROVE FALSE
  OBVIOUS
<1> DEFINE less == OpToRel(<, Nat)
<1>1. IsWellFoundedOn(less, Nat)
  BY NatLessThanWellFounded
<1>2. \A i, k \in Nat : i < k => <<i, k>> \in less
  BY DEF OpToRel
<1> HIDE DEF less
<1>3. PICK k \in Nat \ S : \A i \in Nat \ S : <<i, k>> \notin less
  BY <1>1, WFMin
<1>4. k # 0
  BY <1>3
<1>5. k - 1 \in Nat /\ (k - 1) + 1 = k /\ k - 1 < k
  BY <1>3, <1>4
<1>6. k - 1 \in S
  BY <1>2, <1>3, <1>5
<1> QED
  BY <1>3, <1>5, <1>6

LEMMA Largest ==
    ASSUME NEW n \in Nat, NEW S \in SUBSET (0 .. n), S # {}
    PROVE  \E x \in S : \A y \in S : y <= x
<1> DEFINE Found == \E x \in S : \A y \in S : y <= x
           T == {k \in Nat : (\E x \in S : x >= n - k) => Found}
<1>1. 0 \in T
  OBVIOUS
<1>2. ASSUME NEW k \in Nat, k \in T PROVE k + 1 \in T
  <2> SUFFICES ASSUME NEW x \in S, x >= n - (k + 1) PROVE Found
    OBVIOUS
  <2>1. CASE \E y \in S : y >= n - k
    BY <1>2, <2>1
  <2>2. CASE \A y \in S : ~ (y >= n - k)
    BY <2>2
  <2> QED
    BY <2>1, <2>2
<1> HIDE DEF T
<1>3. n \in T
  BY <1>1, <1>2, SetInduction
<1>4. \E x \in S : x >= n - n
  <2>1. PICK x \in S : x \in 0 .. n
    OBVIOUS
  <2> QED
    BY <2>1
<1> QED
  BY <1>3, <1>4 DEF T

LEMMA Smallest ==
    ASSUME NEW n \in Nat, NEW S \in SUBSET (0 .. n), S # {}
    PROVE  \E x \in S : \A y \in S : x <= y
<1> DEFINE Found == \E x \in S : \A y \in S : x <= y
           T == {k \in Nat : (\E x \in S : x <= k) => Found}
<1>1. 0 \in T
  OBVIOUS
<1>2. ASSUME NEW k \in Nat, k \in T PROVE k + 1 \in T
  <2> SUFFICES ASSUME NEW x \in S, x <= k + 1 PROVE Found
    OBVIOUS
  <2>1. CASE \E y \in S : y <= k
    BY <1>2, <2>1
  <2>2. CASE \A y \in S : ~ (y <= k)
    BY <2>2
  <2> QED
    BY <2>1, <2>2
<1> HIDE DEF T
<1>3. n \in T
  BY <1>1, <1>2, SetInduction
<1>4. \E x \in S : x <= n
  <2>1. PICK x \in S : x \in 0 .. n
    OBVIOUS
  <2> QED
    BY <2>1
<1> QED
  BY <1>3, <1>4 DEF T

\* The last row of a run, and the first: no host begins between them.
LEMMA RunEnds ==
    ASSUME NEW n \in Nat \ {0}, NEW host, NEW i \in 0 .. n - 1
    PROVE  LET last == LastOf(host, n, i)
           IN  /\ last \in i .. n - 1
               /\ \A b \in Begins(host, n) : i < b => last < b
               /\ last + 1 <= n - 1 => last + 1 \in Begins(host, n)
<1> DEFINE run == RunOf(host, n, i)
           last == LastOf(host, n, i)
<1>1. i \in run /\ run \subseteq 0 .. n - 1 /\ n - 1 \in Nat
  BY DEF RunOf
<1>2. last \in run /\ \A k \in run : k <= last
  <2>1. \E j \in run : \A k \in run : k <= j
    BY <1>1, Largest
  <2> QED
    BY <2>1 DEF LastOf
<1>3. last \in 0 .. n - 1 /\ i <= last
  BY <1>1, <1>2
<1>4. \A k \in i .. last : host[k] = host[i]
  BY <1>2, <1>3 DEF RunOf
<1> HIDE DEF last
<1>5. ASSUME NEW b \in Begins(host, n), i < b PROVE last < b
  <2> SUFFICES ASSUME b <= last PROVE FALSE
    BY <1>3, <1>5 DEF Begins
  <2>1. b \in 1 .. n - 1 /\ host[b] # host[b - 1]
    BY <1>5 DEF Begins
  <2>2. b \in i .. last /\ b - 1 \in i .. last
    BY <1>3, <1>5, <2>1
  <2> QED
    BY <1>4, <2>1, <2>2
<1>6. ASSUME last + 1 <= n - 1 PROVE last + 1 \in Begins(host, n)
  <2> DEFINE next == last + 1
  <2>1. next \in 1 .. n - 1 /\ next - 1 = last /\ i <= last
    BY <1>3, <1>6
  <2>2. host[last] = host[i]
    BY <1>3, <1>4
  <2>3. next \notin run
    BY <1>2, <1>3, <2>1
  <2>4. ASSUME host[next] = host[last] PROVE next \in run
    <3> SUFFICES ASSUME NEW k \in 0 .. n - 1, i <= k, k <= next PROVE host[k] = host[i]
      BY <2>1 DEF RunOf
    <3>1. k = next \/ k \in i .. last
      BY <1>3
    <3> QED
      BY <1>4, <2>2, <2>4, <3>1
  <2> QED
    BY <2>1, <2>3, <2>4 DEF Begins
<1> QED
  BY <1>3, <1>5, <1>6 DEF last

LEMMA RunStarts ==
    ASSUME NEW n \in Nat \ {0}, NEW host, NEW i \in 0 .. n - 1
    PROVE  LET first == FirstOf(host, n, i)
           IN  /\ first \in 0 .. i
               /\ \A b \in Begins(host, n) : b <= i => b <= first
               /\ first \in Begins(host, n)
<1> DEFINE run == RunOf(host, n, i)
           first == FirstOf(host, n, i)
<1>1. i \in run /\ run \subseteq 0 .. n - 1 /\ n - 1 \in Nat
  BY DEF RunOf
<1>2. first \in run /\ \A k \in run : first <= k
  <2>1. \E j \in run : \A k \in run : j <= k
    BY <1>1, Smallest
  <2> QED
    BY <2>1 DEF FirstOf
<1>3. first \in 0 .. n - 1 /\ first <= i
  BY <1>1, <1>2
<1>4. \A k \in first .. i : host[k] = host[i]
  BY <1>2, <1>3 DEF RunOf
<1> HIDE DEF first
<1>5. ASSUME NEW b \in Begins(host, n), b <= i PROVE b <= first
  <2> SUFFICES ASSUME first < b PROVE FALSE
    BY <1>3, <1>5 DEF Begins
  <2>1. b \in 1 .. n - 1 /\ host[b] # host[b - 1]
    BY <1>3 DEF Begins
  <2>2. b \in first .. i /\ b - 1 \in first .. i
    BY <1>3, <1>5, <2>1
  <2> QED
    BY <1>4, <2>1, <2>2
<1>6. first \in Begins(host, n)
  <2> SUFFICES ASSUME first # 0 PROVE first \in 1 .. n - 1 /\ host[first] # host[first - 1]
    BY DEF Begins
  <2> DEFINE previous == first - 1
  <2>1. first \in 1 .. n - 1 /\ previous \in 0 .. n - 1 /\ previous + 1 = first /\ previous < first
    BY <1>3
  <2>2. host[first] = host[i]
    BY <1>3, <1>4
  <2>3. previous \notin run
    BY <1>2, <1>3, <2>1
  <2>4. ASSUME host[first] = host[previous] PROVE previous \in run
    <3> SUFFICES ASSUME NEW k \in 0 .. n - 1, previous <= k, k <= i PROVE host[k] = host[i]
      BY <1>3, <2>1 DEF RunOf
    <3>1. k = previous \/ k \in first .. i
      BY <1>3
    <3> QED
      BY <1>4, <2>2, <2>4, <3>1
  <2> QED
    BY <2>1, <2>3, <2>4
<1> QED
  BY <1>3, <1>5, <1>6 DEF first

\* One jump ahead, and one back.
LEMMA JumpAhead ==
    ASSUME NEW n \in Nat \ {0}, NEW host, NEW i \in 0 .. n - 1
    PROVE  LET j == NextHost(host, n, i)
           IN  /\ j \in i .. n - 1
               /\ \/ j \in Begins(host, n) /\ i < j
                  \/ j = n - 1 /\ \A b \in Begins(host, n) : b <= i
               /\ \A b \in Begins(host, n) : i < b => j <= b
<1> DEFINE last == LastOf(host, n, i)
<1>1. /\ last \in i .. n - 1
      /\ \A b \in Begins(host, n) : i < b => last < b
      /\ last + 1 <= n - 1 => last + 1 \in Begins(host, n)
  BY RunEnds
<1>2. NextHost(host, n, i) = IF last + 1 >= n THEN n - 1 ELSE last + 1
  BY <1>1 DEF NextHost, Clamp
<1>3. \A b \in Begins(host, n) : b \in 0 .. n - 1
  BY DEF Begins
<1> HIDE DEF last
<1> QED
  BY <1>1, <1>2, <1>3

LEMMA JumpBack ==
    ASSUME NEW n \in Nat \ {0}, NEW host, NEW i \in 0 .. n - 1
    PROVE  LET j == PrevHost(host, n, i)
           IN  /\ j \in 0 .. i /\ j \in Begins(host, n)
               /\ j < i \/ i = 0
               /\ \A b \in Begins(host, n) : b < i => b <= j
<1> DEFINE first == FirstOf(host, n, i)
           before == FirstOf(host, n, i - 1)
<1>1. /\ first \in 0 .. i /\ first \in Begins(host, n)
      /\ \A b \in Begins(host, n) : b <= i => b <= first
  BY RunStarts
<1>2. i > 0 =>
         /\ before \in 0 .. i - 1 /\ before \in Begins(host, n)
         /\ \A b \in Begins(host, n) : b <= i - 1 => b <= before
  <2> SUFFICES ASSUME i > 0 PROVE i - 1 \in 0 .. n - 1
    BY RunStarts
  <2> QED
    OBVIOUS
<1>3. PrevHost(host, n, i) = IF first = i /\ i > 0 THEN before ELSE first
  BY DEF PrevHost
<1>4. \A b \in Begins(host, n) : b \in 0 .. n - 1
  BY DEF Begins
<1> HIDE DEF first, before
<1> QED
  BY <1>1, <1>2, <1>3, <1>4


\* Counting the beginnings that a jump passes.
LEMMA OneMore ==
    ASSUME NEW S, NEW T, NEW j, IsFiniteSet(S), j \notin S, T = S \cup {j}
    PROVE  Cardinality(T) = Cardinality(S) + 1
BY FS_AddElement

LEMMA Finite ==
    ASSUME NEW n \in Nat \ {0}, NEW host, NEW i, NEW j
    PROVE  /\ IsFiniteSet(Ahead(host, n, i, j)) /\ Cardinality(Ahead(host, n, i, j)) \in Nat
           /\ IsFiniteSet(Behind(host, n, i, j)) /\ Cardinality(Behind(host, n, i, j)) \in Nat
<1>1. IsFiniteSet(0 .. n - 1) /\ Begins(host, n) \subseteq 0 .. n - 1
  <2>1. 0 \in Int /\ n - 1 \in Int /\ 0 \in 0 .. n - 1
    OBVIOUS
  <2>2. IsFiniteSet(0 .. n - 1)
    BY <2>1, FS_Interval
  <2> QED
    BY <2>1, <2>2 DEF Begins
<1>2. /\ Ahead(host, n, i, j) \in SUBSET (0 .. n - 1)
      /\ Behind(host, n, i, j) \in SUBSET (0 .. n - 1)
  BY <1>1 DEF Ahead, Behind
<1> QED
  BY <1>1, <1>2, FS_Subset, FS_CardinalityType

\* Where c jumps from i have led, forwards ...
Forth(host, n, i, c, a) ==
    /\ a \in i .. n - 1
    /\ IF Cardinality(Ahead(host, n, i, n - 1)) < c THEN a = n - 1
       ELSE /\ Cardinality(Ahead(host, n, i, a)) = c
            /\ c > 0 => a \in Begins(host, n)

\* ... and backwards.
Back(host, n, i, c, a) ==
    /\ a \in 0 .. i
    /\ IF Cardinality(Behind(host, n, i, 0)) < c THEN a = 0
       ELSE /\ Cardinality(Behind(host, n, i, a)) = c
            /\ c > 0 => a \in Begins(host, n)

LEMMA ForthStep ==
    ASSUME NEW n \in Nat \ {0}, NEW host, NEW i \in 0 .. n - 1, NEW c \in Nat, NEW a,
           Forth(host, n, i, c, a)
    PROVE  Forth(host, n, i, c + 1, NextHost(host, n, a))
<1> DEFINE j == NextHost(host, n, a)
           all == Ahead(host, n, i, n - 1)
           before == Ahead(host, n, i, a)
           after == Ahead(host, n, i, j)
           B == Begins(host, n)
<1>1. a \in 0 .. n - 1 /\ i <= a
  BY DEF Forth
<1>2. /\ j \in a .. n - 1
      /\ (j \in B /\ a < j) \/ (j = n - 1 /\ \A b \in B : b <= a)
      /\ \A b \in B : a < b => j <= b
  BY <1>1, JumpAhead
<1>3. /\ IsFiniteSet(all) /\ IsFiniteSet(before) /\ IsFiniteSet(after)
      /\ Cardinality(all) \in Nat /\ Cardinality(before) \in Nat /\ Cardinality(after) \in Nat
  BY Finite
<1>4. \A b \in B : b \in 0 .. n - 1
  BY DEF Begins
<1>5. IF Cardinality(all) < c THEN a = n - 1 ELSE Cardinality(before) = c
  BY DEF Forth
<1>6. CASE j \in B /\ a < j
  <2>1. after = before \cup {j} /\ j \notin before
    BY <1>1, <1>2, <1>4, <1>6 DEF Ahead
  <2>2. Cardinality(after) = Cardinality(before) + 1
    BY <1>3, <2>1, OneMore
  <2>3. after \in SUBSET all
    BY <1>2, <1>4 DEF Ahead
  <2>4. Cardinality(after) <= Cardinality(all)
    BY <1>3, <2>3, FS_Subset
  <2>5. a # n - 1
    BY <1>1, <1>2, <1>6
  <2> HIDE DEF j, all, before, after, B
  <2>6. Cardinality(after) = c + 1 /\ ~ (Cardinality(all) < c + 1)
    BY <1>3, <1>5, <2>2, <2>4, <2>5
  <2>7. j \in i .. n - 1
    BY <1>1, <1>2
  <2> QED
    BY <1>6, <2>6, <2>7 DEF Forth, j, all, after, B
<1>7. CASE j = n - 1 /\ \A b \in B : b <= a
  <2>1. all = before
    BY <1>1, <1>4, <1>7 DEF Ahead
  <2> HIDE DEF j, all, before, after, B
  <2>2. Cardinality(all) < c + 1
    BY <1>3, <1>5, <2>1
  <2>3. j \in i .. n - 1
    BY <1>1, <1>2
  <2> QED
    BY <1>7, <2>2, <2>3 DEF Forth, j, all
<1> QED
  BY <1>2, <1>6, <1>7

LEMMA BackStep ==
    ASSUME NEW n \in Nat \ {0}, NEW host, NEW i \in 0 .. n - 1, NEW c \in Nat, NEW a,
           Back(host, n, i, c, a)
    PROVE  Back(host, n, i, c + 1, PrevHost(host, n, a))
<1> DEFINE j == PrevHost(host, n, a)
           all == Behind(host, n, i, 0)
           before == Behind(host, n, i, a)
           after == Behind(host, n, i, j)
           B == Begins(host, n)
<1>1. a \in 0 .. n - 1 /\ a <= i
  BY DEF Back
<1>2. /\ j \in 0 .. a /\ j \in B
      /\ j < a \/ a = 0
      /\ \A b \in B : b < a => b <= j
  BY <1>1, JumpBack
<1>3. /\ IsFiniteSet(all) /\ IsFiniteSet(before) /\ IsFiniteSet(after)
      /\ Cardinality(all) \in Nat /\ Cardinality(before) \in Nat /\ Cardinality(after) \in Nat
  BY Finite
<1>4. \A b \in B : b \in 0 .. n - 1
  BY DEF Begins
<1>5. IF Cardinality(all) < c THEN a = 0 ELSE Cardinality(before) = c
  BY DEF Back
<1>6. CASE j < a
  <2>1. after = before \cup {j} /\ j \notin before
    BY <1>1, <1>2, <1>4, <1>6 DEF Behind
  <2>2. Cardinality(after) = Cardinality(before) + 1
    BY <1>3, <2>1, OneMore
  <2>3. after \in SUBSET all
    BY <1>2, <1>4 DEF Behind
  <2>4. Cardinality(after) <= Cardinality(all)
    BY <1>3, <2>3, FS_Subset
  <2>5. a # 0
    BY <1>1, <1>2, <1>6
  <2> HIDE DEF j, all, before, after, B
  <2>6. Cardinality(after) = c + 1 /\ ~ (Cardinality(all) < c + 1)
    BY <1>3, <1>5, <2>2, <2>4, <2>5
  <2>7. j \in 0 .. i
    BY <1>1, <1>2
  <2> QED
    BY <1>2, <2>6, <2>7 DEF Back, j, all, after, B
<1>7. CASE a = 0
  <2>1. all = before /\ j = 0
    BY <1>2, <1>7
  <2> HIDE DEF j, all, before, after, B
  <2>2. Cardinality(all) < c + 1
    BY <1>3, <1>5, <2>1
  <2> QED
    BY <2>1, <2>2 DEF Back, j, all
<1> QED
  BY <1>2, <1>6, <1>7


\* The runs of a loop that takes the same step n times.
Iterations(S, base, n, step) ==
    {f \in [0 .. n -> S] : f[0] = base /\ \A i \in 1 .. n : f[i] = step[f[i - 1]]}

LEMMA Iteration ==
    ASSUME NEW S, NEW base \in S, NEW n \in Nat, NEW step \in [S -> S]
    PROVE  Iterations(S, base, n, step) # {}
<1> DEFINE T == {k \in Nat : Iterations(S, base, k, step) # {}}
<1>1. 0 \in T
  <2> DEFINE f == [i \in 0 .. 0 |-> base]
  <2>1. f \in Iterations(S, base, 0, step)
    BY DEF Iterations
  <2> QED
    BY <2>1
<1>2. ASSUME NEW k \in Nat, k \in T PROVE k + 1 \in T
  <2>1. PICK f \in [0 .. k -> S] : f[0] = base /\ \A i \in 1 .. k : f[i] = step[f[i - 1]]
    BY <1>2 DEF Iterations
  <2>2. k \in 0 .. k /\ f[k] \in S
    OBVIOUS
  <2> DEFINE next == step[f[k]]
             g == [i \in 0 .. k + 1 |-> IF i = k + 1 THEN next ELSE f[i]]
  <2>3. next \in S
    BY <2>2
  <2> HIDE DEF next
  <2>4. \A i \in 0 .. k + 1 : i # k + 1 => i \in 0 .. k
    OBVIOUS
  <2>5. g \in [0 .. k + 1 -> S]
    BY <2>3, <2>4
  <2>6. g[k + 1] = next /\ \A i \in 0 .. k : g[i] = f[i]
    OBVIOUS
  <2> HIDE DEF g
  <2>7. g[0] = base
    BY <2>1, <2>6
  <2>8. ASSUME NEW i \in 1 .. k + 1 PROVE g[i] = step[g[i - 1]]
    <3>1. CASE i = k + 1
      <4>1. i - 1 = k /\ g[k] = f[k]
        BY <3>1, <2>6
      <4> QED
        BY <3>1, <4>1, <2>6 DEF next
    <3>2. CASE i # k + 1
      <4>1. i \in 1 .. k /\ i \in 0 .. k /\ i - 1 \in 0 .. k
        BY <3>2
      <4>2. f[i] = step[f[i - 1]]
        BY <2>1, <4>1
      <4> QED
        BY <4>1, <4>2, <2>6
    <3> QED
      BY <3>1, <3>2
  <2>9. g \in Iterations(S, base, k + 1, step)
    BY <2>5, <2>7, <2>8 DEF Iterations
  <2> QED
    BY <2>9
<1> HIDE DEF T
<1>3. n \in T
  BY <1>1, <1>2, SetInduction
<1> QED
  BY <1>3 DEF T

Jump(host, n, dir, i) == IF dir > 0 THEN NextHost(host, n, i) ELSE PrevHost(host, n, i)

\* The loop of hostJump, jump by jump.
JumpRuns(host, n, from, dir, count) ==
    {at \in [0 .. count -> 0 .. n - 1] :
        /\ at[0] = Clamp(from, n)
        /\ \A c \in 1 .. count : at[c] = Jump(host, n, dir, at[c - 1])
        /\ HostJump(host, n, from, dir, count) = at[count]}

LEMMA JumpLoop ==
    ASSUME NEW n \in Nat \ {0}, NEW host, NEW from \in Int, NEW dir \in {1, -1},
           NEW count \in Nat
    PROVE  JumpRuns(host, n, from, dir, count) # {}
<1> DEFINE start == Clamp(from, n)
           Is(f) == f = [c \in 0 .. count |->
                           IF c = 0 THEN start
                           ELSE IF dir > 0 THEN NextHost(host, n, f[c - 1])
                           ELSE PrevHost(host, n, f[c - 1])]
           at == CHOOSE f : Is(f)
           Rows == 0 .. n - 1
<1>1. start \in Rows
  BY DEF Clamp
<1>2. HostJump(host, n, from, dir, count) = at[count]
  BY DEF HostJump
<1>3. PICK step \in [Rows -> Rows] : \A i \in Rows : step[i] = Jump(host, n, dir, i)
  <2> DEFINE jump == [i \in Rows |-> Jump(host, n, dir, i)]
  <2>1. ASSUME NEW i \in Rows PROVE Jump(host, n, dir, i) \in Rows
    <3>1. NextHost(host, n, i) \in i .. n - 1 /\ PrevHost(host, n, i) \in 0 .. i
      BY JumpAhead, JumpBack
    <3> QED
      BY <3>1 DEF Jump
  <2>2. jump \in [Rows -> Rows]
    BY <2>1
  <2> QED
    BY <2>2
<1> HIDE DEF start, Rows
<1>4. PICK f \in [0 .. count -> Rows] :
         f[0] = start /\ \A c \in 1 .. count : f[c] = step[f[c - 1]]
  <2>1. PICK base \in Rows : base = start
    BY <1>1
  <2>2. Iterations(Rows, base, count, step) # {}
    BY <1>3, Iteration
  <2> QED
    BY <2>1, <2>2 DEF Iterations
<1>5. ASSUME NEW c \in 1 .. count PROVE f[c] = Jump(host, n, dir, f[c - 1])
  <2>1. c - 1 \in 0 .. count
    OBVIOUS
  <2>2. f[c - 1] \in Rows
    BY <2>1
  <2> QED
    BY <1>3, <1>4, <2>2
<1>6. Is(f)
  <2>1. \A c \in 0 .. count : c = 0 \/ c \in 1 .. count
    OBVIOUS
  <2>2. \A c \in 0 .. count : f[c] = IF c = 0 THEN start ELSE Jump(host, n, dir, f[c - 1])
    BY <1>4, <1>5, <2>1
  <2>3. f = [c \in 0 .. count |-> f[c]]
    OBVIOUS
  <2> QED
    BY <2>2, <2>3 DEF Jump
<1>7. Is(at)
  BY <1>6
<1> HIDE DEF at
<1>8. /\ at[0] = start
      /\ \A c \in 1 .. count : at[c] = Jump(host, n, dir, at[c - 1])
  <2>1. 0 \in 0 .. count /\ \A c \in 1 .. count : c \in 0 .. count /\ c # 0
    OBVIOUS
  <2> QED
    BY <1>7, <2>1 DEF Jump
<1>9. \A c \in Nat : c \in 0 .. count => at[c] \in Rows
  <2> DEFINE T == {c \in Nat : c \in 0 .. count => at[c] \in Rows}
  <2>1. 0 \in T
    BY <1>1, <1>8
  <2>2. ASSUME NEW c \in Nat, c \in T PROVE c + 1 \in T
    <3> SUFFICES ASSUME c + 1 \in 0 .. count PROVE at[c + 1] \in Rows
      OBVIOUS
    <3>1. c + 1 \in 1 .. count /\ (c + 1) - 1 = c /\ c \in 0 .. count
      OBVIOUS
    <3>2. at[c] \in Rows /\ at[c + 1] = Jump(host, n, dir, at[c])
      BY <1>8, <2>2, <3>1
    <3>3. at[c + 1] = step[at[c]]
      BY <1>3, <3>2
    <3> QED
      BY <3>2, <3>3
  <2> HIDE DEF T
  <2>3. Nat \subseteq T
    BY <2>1, <2>2, SetInduction
  <2> QED
    BY <2>3 DEF T
<1>10. at \in [0 .. count -> Rows]
  <2>1. at = [c \in 0 .. count |-> at[c]]
    BY <1>7
  <2>2. \A c \in 0 .. count : at[c] \in Rows
    BY <1>9
  <2> QED
    BY <2>1, <2>2
<1>11. at \in [0 .. count -> 0 .. n - 1] /\ at[0] = Clamp(from, n)
  BY <1>8, <1>10 DEF start, Rows
<1>12. at \in JumpRuns(host, n, from, dir, count)
  BY <1>2, <1>8, <1>11 DEF JumpRuns
<1> QED
  BY <1>12

LEMMA Jumps ==
    ASSUME NEW n \in Nat \ {0}, NEW host, NEW from \in Int, NEW dir \in {1, -1},
           NEW count \in Nat
    PROVE  LET i == Clamp(from, n)
               a == HostJump(host, n, from, dir, count)
           IN  IF dir > 0 THEN Forth(host, n, i, count, a) ELSE Back(host, n, i, count, a)
<1> DEFINE i == Clamp(from, n)
           Right(c, a) == IF dir > 0 THEN Forth(host, n, i, c, a) ELSE Back(host, n, i, c, a)
<1>1. PICK at \in [0 .. count -> 0 .. n - 1] :
         /\ at[0] = Clamp(from, n)
         /\ \A c \in 1 .. count : at[c] = Jump(host, n, dir, at[c - 1])
         /\ HostJump(host, n, from, dir, count) = at[count]
  <2>1. JumpRuns(host, n, from, dir, count) # {}
    BY JumpLoop
  <2> QED
    BY <2>1 DEF JumpRuns
<1>2. i \in 0 .. n - 1
  BY DEF Clamp
<1> DEFINE T == {c \in Nat : c \in 0 .. count => Right(c, at[c])}
<1>3. 0 \in T
  <2>1. Ahead(host, n, i, i) = {} /\ Behind(host, n, i, i) = {}
    <3>1. \A b \in Begins(host, n) : b \in 0 .. n - 1
      BY DEF Begins
    <3> QED
      BY <1>2, <3>1 DEF Ahead, Behind
  <2>2. /\ Cardinality(Ahead(host, n, i, i)) = 0
        /\ Cardinality(Behind(host, n, i, i)) = 0
    BY <2>1, FS_EmptySet
  <2>3. /\ Cardinality(Ahead(host, n, i, n - 1)) \in Nat
        /\ Cardinality(Behind(host, n, i, 0)) \in Nat
    BY Finite
  <2>4. at[0] = i
    BY <1>1
  <2> HIDE DEF i
  <2>5. Forth(host, n, i, 0, i) /\ Back(host, n, i, 0, i)
    BY <1>2, <2>2, <2>3 DEF Forth, Back
  <2> QED
    BY <2>4, <2>5
<1>4. ASSUME NEW c \in Nat, c \in T PROVE c + 1 \in T
  <2> SUFFICES ASSUME c + 1 \in 0 .. count PROVE Right(c + 1, at[c + 1])
    OBVIOUS
  <2>1. c + 1 \in 1 .. count /\ (c + 1) - 1 = c /\ c \in 0 .. count
    OBVIOUS
  <2>2. Right(c, at[c]) /\ at[c + 1] = Jump(host, n, dir, at[c])
    BY <1>1, <1>4, <2>1
  <2> HIDE DEF i
  <2> QED
    BY <1>2, <2>2, ForthStep, BackStep DEF Jump
<1> HIDE DEF T
<1>5. count \in T
  BY <1>3, <1>4, SetInduction
<1>6. count \in 0 .. count
  OBVIOUS
<1> QED
  BY <1>1, <1>5, <1>6 DEF T

\* However many rows, hosts and jumps: a jump passes as many beginnings of hosts as
\* it was told to, or stops at the end of the list (hostJump).
THEOREM JumpsLand ==
    ASSUME NEW n \in Nat, NEW host, NEW from \in Int, NEW count \in Nat \ {0}
    PROVE  JumpLands(host, n, from, count)
<1> SUFFICES ASSUME n > 0 PROVE JumpLands(host, n, from, count)
  BY DEF JumpLands
<1> DEFINE i == Clamp(from, n)
           forth == HostJump(host, n, from, 1, count)
           back == HostJump(host, n, from, -1, count)
<1>1. Forth(host, n, i, count, forth) /\ Back(host, n, i, count, back)
  <2>1. 1 \in {1, -1} /\ -1 \in {1, -1} /\ 1 > 0 /\ ~ (-1 > 0) /\ n \in Nat \ {0}
    OBVIOUS
  <2> QED
    BY <2>1, Jumps
<1>2. count > 0
  OBVIOUS
<1> HIDE DEF i, forth, back
<1>3. /\ IF Cardinality(Ahead(host, n, i, n - 1)) < count THEN forth = n - 1
         ELSE forth \in Begins(host, n) /\ Cardinality(Ahead(host, n, i, forth)) = count
      /\ IF Cardinality(Behind(host, n, i, 0)) < count THEN back = 0
         ELSE back \in Begins(host, n) /\ Cardinality(Behind(host, n, i, back)) = count
  BY <1>1, <1>2 DEF Forth, Back
<1> QED
  BY <1>3 DEF JumpLands, i, forth, back

\* What the run checks of clicks, the window and the jumps is a part of that.
THEOREM ListAgreesWithScreen == Spec => []ClicksAndMotionsLand
<1>1. ClicksAndMotionsLand
  <2>1. ASSUME NEW p \in [h : 0 .. 8, filter : BOOLEAN, cmdline : BOOLEAN, paused : BOOLEAN],
               NEW n \in 0 .. 4, NEW selected \in 0 .. 5
        PROVE  /\ SelectionDrawn(p, n, selected)
               /\ Fits(p, n, selected)
               /\ \A y \in 0 .. 10 : ClickHits(y, p, n, selected)
    <3>1. p \in Panes /\ n \in Nat /\ selected \in Int
      BY DEF Panes
    <3> QED
      BY <3>1, SelectionStaysVisible, PaneIsNeverOverdrawn, ClicksHitWhatIsDrawn
  <2>2. ASSUME NEW n \in 0 .. 5, NEW host \in [0 .. n - 1 -> {"a", "b"}],
               NEW from \in 0 .. n, NEW count \in 1 .. 3
        PROVE  JumpLands(host, n, from, count)
    BY JumpsLand
  <2> QED
    BY <2>1, <2>2 DEF ClicksAndMotionsLand
<1> QED
  BY <1>1, PTL

==============================================================================
