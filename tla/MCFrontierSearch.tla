-------------------------- MODULE MCFrontierSearch ---------------------------
(* All 3 by 3 grids of free and unknown cells and all 3 by 2 grids with       *)
(* obstacles, from every cell; and a corridor of 12 by 2 cells, unknown at    *)
(* one end or at both, from near its ends and from off the map.               *)
EXTENDS FrontierSearch

CallsOn(w, h, costs) ==
  {[map |-> [w |-> w, h |-> h, cost |-> f], pos |-> i] :
     f \in [0 .. w * h - 1 -> costs], i \in 0 .. w * h - 1}

Corridor(unknown) ==
  [w |-> 12, h |-> 2,
   cost |-> [k \in 0 .. 23 |-> IF k % 12 \in unknown THEN NO_INFORMATION ELSE FREE_SPACE]]

InCorridors ==
  {[map |-> Corridor(unknown), pos |-> i] : unknown \in {{0, 11}, {11}}, i \in {1, 21, OffMap}}

MCCalls ==
  CallsOn(3, 3, {FREE_SPACE, NO_INFORMATION}) \cup CallsOn(3, 2, {FREE_SPACE, 254, NO_INFORMATION})
    \cup InCorridors
=============================================================================
