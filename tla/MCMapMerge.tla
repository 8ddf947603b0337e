----------------------------- MODULE MCMapMerge -----------------------------
(* Maps of one cell, or of 2 by 2 for the clipped update.  The second robot *)
(* has a configured offset, the identity of the deployed launch files, or   *)
(* none.  The updates: one that fits, one that is off the map, a negative.  *)
EXTENDS MapMerge, TLC

Uniform(v) == [p \in Cells |-> v]

MCFullMaps == {Uniform(0)}

Patch(x, y, w, h, data) == [x |-> x, y |-> y, width |-> w, height |-> h, data |-> data]

MCUpdates == {Patch(0, 0, 1, 1, <<100>>), Patch(1, 0, 1, 1, <<50>>), Patch(-1, 0, 1, 1, <<50>>)}

MCInitPoses == {1 :> "identity" @@ 2 :> p : p \in Poses}

MCMessages == 1 :> 3 @@ 2 :> 1

DeployedPoses == {[r \in Robots |-> "identity"]}

\* Two columns wide, hanging over the right edge of a 2 by 2 map.
HangingUpdates == {Patch(1, 0, 2, 2, <<10, 20, 30, 40>>)}
=============================================================================
