-------------------------------- MODULE FlowList --------------------------------
(***************************************************************************)
(* The traffic list of the UI (internal/tui): which rows are drawn, which  *)
(* row a click lands on, and where the motions of the cursor lead.  Rows   *)
(* are numbered from 0, as in the code, and n is how many are visible      *)
(* under the filter.                                                       *)
(***************************************************************************)
EXTENDS Integers, Sequences, FiniteSets

\* No row: a line of the pane that shows something else.
NoRow == -1

\* clampIndex.
Clamp(i, n) ==
    IF n = 0 \/ i < 0 THEN 0 ELSE IF i >= n THEN n - 1 ELSE i

-----------------------------------------------------------------------------
(* Drawing and hit-testing.  The pane is h lines high and shows, besides   *)
(* the header, what of the filter line, the command line and the prompt of *)
(* a paused message is up.                                                 *)

Panes == [h : Nat, filter : BOOLEAN, cmdline : BOOLEAN, paused : BOOLEAN]

One(shown) == IF shown THEN 1 ELSE 0

\* trafficRowLayout.
ListTop(p) == 1 + One(p.filter) + One(p.cmdline)

Reserved(p) == ListTop(p) + 2 * One(p.paused)

ListRows(p) == IF p.h - Reserved(p) < 1 THEN 1 ELSE p.h - Reserved(p)

\* The first row of the window that keeps the selection visible.
WindowStart(p, n, selected) ==
    LET sel == Clamp(selected, n)
    IN  IF sel >= ListRows(p) THEN sel - ListRows(p) + 1 ELSE 0

Line(shown) == IF shown THEN <<NoRow>> ELSE <<>>

\* renderTraffic: what each line of the pane shows, from the top.
Drawn(p, n, selected) ==
    LET start == WindowStart(p, n, selected)
        count == IF n - start < ListRows(p) THEN n - start ELSE ListRows(p)
    IN  <<NoRow>> \o Line(p.filter) \o Line(p.cmdline)
           \o [i \in 1 .. count |-> start + i - 1]
           \o (IF p.paused THEN <<NoRow, NoRow, NoRow>> ELSE <<>>)

\* Mutation: the command line is forgotten.
WithoutCommandLine(y, p, n, selected) ==
    LET row == y - 1 - One(p.filter)
        idx == WindowStart(p, n, selected) + row
    IN  IF row < 0 \/ row >= ListRows(p) \/ idx >= n THEN NoRow ELSE idx

\* flowRowIndex: the row under a click on line y.
FlowRowIndex(y, p, n, selected) ==
    LET row == y - ListTop(p)
        idx == WindowStart(p, n, selected) + row
    IN  IF row < 0 \/ row >= ListRows(p) \/ idx >= n THEN NoRow ELSE idx

\* The row on line y of the screen.
DrawnAt(y, p, n, selected) ==
    LET lines == Drawn(p, n, selected)
    IN  IF y < Len(lines) THEN lines[y + 1] ELSE NoRow

-----------------------------------------------------------------------------
(* The cursor.                                                             *)

\* onKey: gg and G, with a numeric prefix or without (0), ...
Top(count, n) == IF count > 0 THEN Clamp(count - 1, n) ELSE 0

Bottom(count, n) == Clamp(IF count > 0 THEN count - 1 ELSE n - 1, n)

\* ... and j and k.
Down(selected, count, n) == Clamp(selected + count, n)
Up(selected, count, n) == Clamp(selected - count, n)

\* onFilterKey and :filter: a selection that the new filter leaves out of
\* range goes to the first match.
Filtered(selected, n) == IF selected >= n THEN 0 ELSE selected

\* selectedFlow: the row that keys act on, which is none when the list has
\* shrunk since the cursor last moved.
SelectedFlow(selected, n) == IF selected \in 0 .. n - 1 THEN selected ELSE NoRow

\* The run of rows around i that have its host.
RunOf(host, n, i) ==
    {j \in 0 .. n - 1 : \A k \in 0 .. n - 1 :
        (i <= k /\ k <= j) \/ (j <= k /\ k <= i) => host[k] = host[i]}

FirstOf(host, n, i) ==
    CHOOSE j \in RunOf(host, n, i) : \A k \in RunOf(host, n, i) : j <= k

LastOf(host, n, i) ==
    CHOOSE j \in RunOf(host, n, i) : \A k \in RunOf(host, n, i) : k <= j

\* hostJump, once: to the first row of the next host, ...
NextHost(host, n, i) == Clamp(LastOf(host, n, i) + 1, n)

\* ... or to the first row of this one, and from there of the previous one.
PrevHost(host, n, i) ==
    LET first == FirstOf(host, n, i)
    IN  IF first = i /\ i > 0 THEN FirstOf(host, n, i - 1) ELSE first

\* hostJump, count times.
HostJump(host, n, from, dir, count) ==
    LET at[c \in 0 .. count] ==
            IF c = 0 THEN Clamp(from, n)
            ELSE IF dir > 0 THEN NextHost(host, n, at[c - 1])
            ELSE PrevHost(host, n, at[c - 1])
    IN  IF n = 0 THEN 0 ELSE at[count]

-----------------------------------------------------------------------------
(* Properties.                                                             *)

\* A click lands on the row that is drawn under it, or on nothing
\* (flowRowIndex: "so a click always lands on the row the user actually sees").
ClickHits(y, p, n, selected) ==
    FlowRowIndex(y, p, n, selected) = DrawnAt(y, p, n, selected)

\* The selection is on the screen (renderTraffic: "Slide the window so the
\* selection stays visible").
SelectionDrawn(p, n, selected) ==
    n > 0 =>
        \E y \in DOMAIN Drawn(p, n, selected) :
            Drawn(p, n, selected)[y] = Clamp(selected, n)

\* Whatever has room for a row fits the pane, whose content is one line higher
\* than what renderTraffic is given (View), so that it does not push the panes
\* down and clicks off their rows.
Fits(p, n, selected) ==
    p.h > Reserved(p) => Len(Drawn(p, n, selected)) <= p.h + 1

\* Where a host begins.
Begins(host, n) == {k \in 1 .. n - 1 : host[k] # host[k - 1]} \cup {0}

\* The beginnings that a jump from i to j passes, forwards and backwards.
Ahead(host, n, i, j) == {b \in Begins(host, n) : i < b /\ b <= j}
Behind(host, n, i, j) == {b \in Begins(host, n) : j <= b /\ b < i}

\* A jump over count hosts passes exactly that many beginnings of hosts, and
\* stops at the last or the first row when there are fewer (hostJump: "Neither
\* direction wraps").
JumpLands(host, n, from, count) ==
    LET i == Clamp(from, n)
        forth == HostJump(host, n, from, 1, count)
        back == HostJump(host, n, from, -1, count)
    IN  n > 0 =>
        /\ IF Cardinality(Ahead(host, n, i, n - 1)) < count THEN forth = n - 1
           ELSE forth \in Begins(host, n) /\ Cardinality(Ahead(host, n, i, forth)) = count
        /\ IF Cardinality(Behind(host, n, i, 0)) < count THEN back = 0
           ELSE back \in Begins(host, n) /\ Cardinality(Behind(host, n, i, back)) = count

\* The row that keys act on is the one highlighted (selectedFlow: "the
\* currently highlighted flow in the filtered list").  The code does not keep
\* this: when a flow changes so that the filter no longer shows it, the last
\* row is highlighted and keys act on nothing.
HighlightIsSelected(selected, n) ==
    n > 0 => SelectedFlow(selected, n) = Clamp(selected, n)

==============================================================================
