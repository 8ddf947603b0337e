--------------------------- MODULE MCMapExpansion ---------------------------
(* A canvas of 3 by 2 cells, two length units a cell.  The scans: a 2 by 2  *)
(* room; the same room shifted by a cell, in another frame; a shrunk map;   *)
(* one hanging over the left edge; one over the top and the right edge; one *)
(* off the canvas; the two malformed kinds.                                 *)
EXTENDS MapExpansion

GridOf(frame, res, w, h, x, y, data) ==
  [frame |-> frame, resolution |-> res, width |-> w, height |-> h,
   x |-> x, y |-> y, data |-> data]

MCScans == {
  GridOf("map",  2, 2, 2, -2, -2, <<0, 100, 100, -1>>),
  GridOf("odom", 2, 2, 2,  0, -2, <<0, 100, 100, -1>>),
  GridOf("map",  2, 1, 1,  2,  0, <<100>>),
  GridOf("map",  2, 2, 1, -3, -2, <<100, 0>>),
  GridOf("map",  2, 2, 2,  2, -4, <<0, 0, 100, 100>>),
  GridOf("map",  2, 1, 1, 20, 20, <<100>>),
  GridOf("map",  1, 1, 1,  0,  0, <<100>>),
  GridOf("map",  2, 2, 2, -2, -2, <<100, 100>>) }

MCOrigin == -2
=============================================================================
