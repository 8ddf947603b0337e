--------------------------- MODULE CanvasGeometry ---------------------------
(***************************************************************************)
(* Where the cells of a SLAM map land on the fixed canvas of               *)
(* map_expansion_node.cpp.  Lengths are integers in a unit finer than a    *)
(* cell (Resolution units make one cell), so that std::round has something *)
(* to round.  The canvas buffer is the row-major vector canvas_data_; the  *)
(* grid a reader of the topic sees is the two-dimensional function Board.  *)
(***************************************************************************)
EXTENDS Integers, Sequences

CONSTANTS
  Width, Height,      \* canvas_width, canvas_height, in cells
  Resolution,         \* canvas_resolution, in length units
  CanvasX, CanvasY,   \* canvas_origin_x/y
  OffsetX, OffsetY,   \* robot_offset_x/y: where the robot was put down
  Frames,             \* header.frame_id values SLAM may use
  Scans               \* the OccupancyGrid messages SLAM may publish

Unknown == -1
Occupancy == -1 .. 100

Scan == [frame : Frames, resolution : Int, width : Nat, height : Nat,
         x : Int, y : Int, data : Seq(Occupancy)]

ASSUME GeometryAssumption ==
  /\ Width \in Nat \ {0} /\ Height \in Nat \ {0} /\ Resolution \in Nat \ {0}
  /\ CanvasX \in Int /\ CanvasY \in Int /\ OffsetX \in Int /\ OffsetY \in Int
  /\ Scans \subseteq Scan

Rows == 0 .. Height - 1
Cols == 0 .. Width - 1
Cells == 0 .. Width * Height - 1

\* std::round(n / d): to the nearest integer, ties away from zero.
RoundDiv(n, d) ==
  IF n >= 0 THEN (2 * n + d) \div (2 * d) ELSE -((d - 2 * n) \div (2 * d))

\* offset_x and offset_y: the canvas column and row of the scan's first cell.
Left(m) == RoundDiv(m.x + OffsetX - CanvasX, Resolution)
Top(m)  == RoundDiv(m.y + OffsetY - CanvasY, Resolution)

\* Guards 1 and 2 of mapCallback.
Acceptable(m) ==
  /\ m.resolution = Resolution
  /\ Len(m.data) = m.width * m.height

CanvasIdx(r, c) == r * Width + c

\* The value of the scan's cell in its row r and column c.
ScanCell(m, r, c) == m.data[r * m.width + c + 1]

\* Mutant: the columns are not clipped to the canvas.
RowCellsUnclipped(m, r) ==
  IF Top(m) + r \in Rows
    THEN {CanvasIdx(Top(m) + r, Left(m) + k) : k \in 0 .. m.width - 1}
    ELSE {}

\* The canvas indices that row r of the scan writes: none when the row falls
\* outside the canvas, and only the columns inside it otherwise.
RowCells(m, r) ==
  IF Top(m) + r \in Rows
    THEN {CanvasIdx(Top(m) + r, k) :
             k \in {j \in Cols : j - Left(m) \in 0 .. m.width - 1}}
    ELSE {}

\* The buffer after the writes of row r.
WithRow(buffer, m, r) ==
  [i \in Cells |->
     IF i \in RowCells(m, r)
       THEN ScanCell(m, r, i - CanvasIdx(Top(m) + r, Left(m)))
       ELSE buffer[i]]

-----------------------------------------------------------------------------
(* What a reader of the published grid sees.                               *)

Board(buffer) == [p \in Rows \X Cols |-> buffer[CanvasIdx(p[1], p[2])]]

Blank == [p \in Rows \X Cols |-> Unknown]

\* The first n rows of the scan laid over an empty canvas, and all of them.
OverlayRows(m, n) ==
  [p \in Rows \X Cols |->
     IF p[1] - Top(m) \in 0 .. n - 1 /\ p[2] - Left(m) \in 0 .. m.width - 1
       THEN ScanCell(m, p[1] - Top(m), p[2] - Left(m))
       ELSE Unknown]

Overlay(m) == OverlayRows(m, m.height)
=============================================================================
