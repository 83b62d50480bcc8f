-------------------------------- MODULE MCStore --------------------------------
(***************************************************************************)
(* The store with its list, and on the side how the list is drawn, clicked *)
(* and walked, over small lists and panes.                                 *)
(***************************************************************************)
EXTENDS Store, FlowList

\* The pure computations are checked once, in the initial state.

\* Clicks, the window and the jumps of the cursor agree with what is drawn
\* (renderTraffic, flowRowIndex, hostJump).
ClicksAndMotionsLand ==
    Init =>
    /\ \A p \in [h : 0 .. 8, filter : BOOLEAN, cmdline : BOOLEAN, paused : BOOLEAN],
          n \in 0 .. 4, selected \in 0 .. 5 :
            /\ SelectionDrawn(p, n, selected)
            /\ Fits(p, n, selected)
            /\ \A y \in 0 .. 10 : ClickHits(y, p, n, selected)
    /\ \A n \in 0 .. 5 : \A host \in [0 .. n - 1 -> {"a", "b"}] :
            \A from \in 0 .. n, count \in 1 .. 3 : JumpLands(host, n, from, count)
================================================================================
