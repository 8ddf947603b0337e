------------------------------- MODULE Canvas -------------------------------
(***************************************************************************)
(* What the expansion stage promises the merger, with no buffer, no index  *)
(* list and no lock: the grid on offer is always one whole SLAM map laid   *)
(* over an all-Unknown canvas (or the blank canvas before the first one),  *)
(* and every heartbeat broadcasts the grid then on offer.                  *)
(***************************************************************************)
EXTENDS CanvasGeometry

VARIABLES
  board,   \* the grid on offer
  shown    \* the grid of the last heartbeat, latched on the topic

Init ==
  /\ board = Blank
  /\ shown = Blank

\* A new map replaces the old one entirely: nothing of the old map remains.
Replace(m) ==
  /\ Acceptable(m)
  /\ board' = Overlay(m)
  /\ UNCHANGED shown

Heartbeat ==
  /\ shown' = board
  /\ UNCHANGED board

Next == Heartbeat \/ \E m \in Scans : Replace(m)

Spec == Init /\ [][Next]_<<board, shown>>
=============================================================================
