------------------------- MODULE MapExpansionProofs -------------------------
(***************************************************************************)
(* What holds of map_expansion_node.cpp for every canvas size, every set   *)
(* of maps and either kind of executor.                                    *)
(***************************************************************************)
EXTENDS MapExpansion, TLAPS

-----------------------------------------------------------------------------
(* Row-major indices                                                       *)

\* Multiplication by a natural number is monotone.
LEMMA TimesMonotone ==
  ASSUME NEW a \in Int, NEW b \in Int, NEW w \in Nat, a >= b
  PROVE  a * w >= b * w /\ a * w \in Int /\ b * w \in Int
OBVIOUS

\* A position on the canvas has its index inside canvas_data_.
LEMMA IndexInBuffer ==
  ASSUME NEW r \in Rows, NEW c \in Cols
  PROVE  CanvasIdx(r, c) \in Cells
<1>1. r * Width + c >= 0 /\ r * Width + c \in Int
  BY GeometryAssumption DEF Rows, Cols
<1>2. r * Width <= (Height - 1) * Width
  BY TimesMonotone, GeometryAssumption DEF Rows
<1>3. (Height - 1) * Width = Height * Width - Width
  BY GeometryAssumption
<1>. QED
  BY <1>1, <1>2, <1>3, GeometryAssumption DEF Rows, Cols, Cells, CanvasIdx

\* Two positions of the canvas never share an index of canvas_data_.
LEMMA IndexInjective ==
  ASSUME NEW r \in Int, NEW c \in Cols, NEW s \in Int, NEW d \in Cols,
         CanvasIdx(r, c) = CanvasIdx(s, d)
  PROVE  r = s /\ c = d
<1>1. ASSUME NEW p \in Int, NEW q \in Int, p < q, NEW e \in Cols, NEW f \in Cols
      PROVE  CanvasIdx(p, e) < CanvasIdx(q, f)
  <2>1. (p + 1) * Width <= q * Width /\ (p + 1) * Width = p * Width + Width
    BY TimesMonotone, <1>1, GeometryAssumption
  <2>. QED
    BY <2>1, <1>1, GeometryAssumption DEF CanvasIdx, Cols
<1>. QED
  BY <1>1, GeometryAssumption DEF CanvasIdx, Cols

-----------------------------------------------------------------------------
(* Stamping one row                                                        *)

\* The start-up value of the queue is not a map.
LEMMA NoScanIsNoScan == NoScan \notin Scans
BY GeometryAssumption, ExpansionAssumption DEF NoScan, Scan

\* The canvas offsets of a map are integers.
LEMMA OffsetsAreIntegers ==
  ASSUME NEW m \in Scans
  PROVE  Left(m) \in Int /\ Top(m) \in Int
<1>1. ASSUME NEW n \in Int, NEW d \in Nat \ {0}
      PROVE  RoundDiv(n, d) \in Int
  BY DEF RoundDiv
<1>2. m \in Scan
  BY GeometryAssumption
<1>3. m.x \in Int /\ m.y \in Int
  BY <1>2 DEF Scan
<1>4. m.x + OffsetX - CanvasX \in Int /\ m.y + OffsetY - CanvasY \in Int
  BY <1>3, GeometryAssumption
<1>. QED
  BY <1>1, <1>4, GeometryAssumption DEF Left, Top

\* Reading the map at one of its rows and columns stays inside its data.
LEMMA ScanCellInRange ==
  ASSUME NEW m \in Scans, Acceptable(m),
         NEW r \in 0 .. m.height - 1, NEW c \in 0 .. m.width - 1
  PROVE  ScanCell(m, r, c) \in Occupancy
<1>1. m \in Scan
  BY GeometryAssumption
<1>2. m.width \in Nat /\ m.height \in Nat /\ m.data \in Seq(Occupancy)
  BY <1>1 DEF Scan
<1>3. (m.height - 1) * m.width >= r * m.width /\ r * m.width >= 0
      /\ r * m.width \in Int
  <2>1. r \in Int /\ m.height - 1 \in Int /\ m.height - 1 >= r /\ r >= 0
    BY <1>2
  <2>2. r * m.width >= 0 * m.width
    BY <1>2, <2>1, TimesMonotone
  <2>. QED
    BY <1>2, <2>1, <2>2, TimesMonotone
<1>4. (m.height - 1) * m.width = m.width * m.height - m.width
  BY <1>2
<1>5. r * m.width + c + 1 \in 1 .. Len(m.data)
  BY <1>2, <1>3, <1>4 DEF Acceptable
<1>. QED
  BY <1>2, <1>5 DEF ScanCell

\* A row is written inside the canvas, at the positions the map covers.
LEMMA RowCellsExact ==
  ASSUME NEW m \in Scans, NEW r \in Nat, NEW a \in Rows, NEW b \in Cols
  PROVE  CanvasIdx(a, b) \in RowCells(m, r)
           <=> (a = Top(m) + r /\ b - Left(m) \in 0 .. m.width - 1)
<1>. Top(m) + r \in Int
  BY OffsetsAreIntegers
<1>1. ASSUME CanvasIdx(a, b) \in RowCells(m, r)
      PROVE  a = Top(m) + r /\ b - Left(m) \in 0 .. m.width - 1
  <2>1. PICK k \in Cols : /\ k - Left(m) \in 0 .. m.width - 1
                          /\ CanvasIdx(a, b) = CanvasIdx(Top(m) + r, k)
    BY <1>1 DEF RowCells
  <2>2. a \in Int
    BY DEF Rows
  <2>3. a = Top(m) + r /\ b = k
    BY <2>1, <2>2, IndexInjective
  <2>. QED
    BY <2>1, <2>3
<1>2. ASSUME a = Top(m) + r, b - Left(m) \in 0 .. m.width - 1
      PROVE  CanvasIdx(a, b) \in RowCells(m, r)
  BY <1>2 DEF RowCells
<1>. QED
  BY <1>1, <1>2

LEMMA RowCellsInBuffer ==
  ASSUME NEW m \in Scans, NEW r \in Nat
  PROVE  RowCells(m, r) \subseteq Cells
BY IndexInBuffer DEF RowCells

\* A row's writes keep the buffer a buffer.
LEMMA WithRowType ==
  ASSUME NEW m \in Scans, Acceptable(m), NEW r \in 0 .. m.height - 1,
         NEW buffer \in [Cells -> Occupancy]
  PROVE  WithRow(buffer, m, r) \in [Cells -> Occupancy]
<1>1. ASSUME NEW i \in RowCells(m, r)
      PROVE  ScanCell(m, r, i - CanvasIdx(Top(m) + r, Left(m))) \in Occupancy
  <2>1. PICK k \in Cols : /\ k - Left(m) \in 0 .. m.width - 1
                          /\ i = CanvasIdx(Top(m) + r, k)
    BY <1>1 DEF RowCells
  <2>2. (Top(m) + r) * Width \in Int /\ k \in Int /\ Left(m) \in Int
    BY OffsetsAreIntegers, GeometryAssumption DEF Cols, Scan
  <2>3. i - CanvasIdx(Top(m) + r, Left(m)) = k - Left(m)
    BY <2>1, <2>2 DEF CanvasIdx
  <2>. QED
    BY <2>1, <2>3, ScanCellInRange
<1>. QED
  BY <1>1 DEF WithRow

\* One turn of the row loop extends the overlay by one row and disturbs
\* nothing else.
LEMMA RowOnBoard ==
  ASSUME NEW m \in Scans, Acceptable(m), NEW r \in 0 .. m.height - 1,
         NEW buffer \in [Cells -> Occupancy],
         Board(buffer) = OverlayRows(m, r)
  PROVE  Board(WithRow(buffer, m, r)) = OverlayRows(m, r + 1)
<1>. DEFINE after == WithRow(buffer, m, r)
<1>. Left(m) \in Int /\ Top(m) \in Int /\ m.width \in Nat /\ r \in Nat
  BY OffsetsAreIntegers, GeometryAssumption DEF Scan
<1>1. ASSUME NEW a \in Rows, NEW b \in Cols
      PROVE  after[CanvasIdx(a, b)] = OverlayRows(m, r + 1)[<<a, b>>]
  <2>. DEFINE i == CanvasIdx(a, b)
  <2>. a \in Int /\ b \in Int /\ <<a, b>> \in Rows \X Cols
    BY DEF Rows, Cols
  <2>1. i \in Cells
    BY IndexInBuffer
  <2>2. i \in RowCells(m, r)
          <=> (a = Top(m) + r /\ b - Left(m) \in 0 .. m.width - 1)
    BY RowCellsExact
  <2>3. CASE i \in RowCells(m, r)
    <3>1. (Top(m) + r) * Width \in Int
      BY GeometryAssumption
    <3>2. a = Top(m) + r /\ b - Left(m) \in 0 .. m.width - 1
      BY <2>2, <2>3
    <3>3. i - CanvasIdx(Top(m) + r, Left(m)) = b - Left(m)
      BY <3>1, <3>2 DEF CanvasIdx
    <3>4. after[i] = ScanCell(m, r, b - Left(m))
      BY <2>1, <2>3, <3>3 DEF WithRow
    <3>5. a - Top(m) = r /\ r \in 0 .. (r + 1) - 1
      BY <3>2
    <3>. QED
      BY <3>2, <3>4, <3>5 DEF OverlayRows
  <2>4. CASE i \notin RowCells(m, r)
    <3>1. after[i] = OverlayRows(m, r)[<<a, b>>]
      <4>1. after[i] = buffer[i]
        BY <2>1, <2>4 DEF WithRow
      <4>2. Board(buffer)[<<a, b>>] = buffer[i]
        BY DEF Board
      <4>. QED
        BY <4>1, <4>2
    <3>2. (a - Top(m) \in 0 .. r - 1 /\ b - Left(m) \in 0 .. m.width - 1)
            <=> (a - Top(m) \in 0 .. (r + 1) - 1 /\ b - Left(m) \in 0 .. m.width - 1)
      BY <2>2, <2>4
    <3>. QED
      BY <3>1, <3>2 DEF OverlayRows
  <2>. QED
    BY <2>3, <2>4
<1>2. ASSUME NEW p \in Rows \X Cols
      PROVE  Board(after)[p] = OverlayRows(m, r + 1)[p]
  <2>1. PICK a \in Rows, b \in Cols : p = <<a, b>>
    OBVIOUS
  <2>2. Board(after)[p] = after[CanvasIdx(a, b)]
    BY <2>1 DEF Board
  <2>. QED
    BY <1>1, <2>1, <2>2
<1>3. /\ Board(after) = [p \in Rows \X Cols |-> Board(after)[p]]
      /\ OverlayRows(m, r + 1) = [p \in Rows \X Cols |-> OverlayRows(m, r + 1)[p]]
  BY DEF Board, OverlayRows
<1>. DEFINE shown == Board(after)
            wanted == OverlayRows(m, r + 1)
<1>4. shown = wanted
  <2>. HIDE DEF shown, wanted
  <2>1. /\ \A p \in Rows \X Cols : shown[p] = wanted[p]
        /\ shown = [p \in Rows \X Cols |-> shown[p]]
        /\ wanted = [p \in Rows \X Cols |-> wanted[p]]
    BY <1>2, <1>3 DEF shown, wanted
  <2>. QED
    BY <2>1
<1>. QED
  BY <1>4

\* An empty overlay is a blank canvas.
LEMMA NoRowsIsBlank ==
  ASSUME NEW m \in Scans
  PROVE  OverlayRows(m, 0) = Blank
BY OffsetsAreIntegers DEF OverlayRows, Blank, Rows

LEMMA UnknownBufferIsBlank ==
  ASSUME NEW buffer, \A i \in Cells : buffer[i] = Unknown
  PROVE  Board(buffer) = Blank
BY IndexInBuffer DEF Board, Blank

-----------------------------------------------------------------------------
(* The inductive invariant                                                 *)

IInv == TypeOK /\ LoopInvariant /\ PartialResetIsFull /\ CanvasIsLastScan

LEMMA InitIInv == Init => IInv
<1>. SUFFICES ASSUME Init PROVE IInv
  OBVIOUS
<1>1. TypeOK
  <2>1. AllUnknown \in [Cells -> Occupancy]
    BY DEF AllUnknown, Unknown, Occupancy
  <2>2. map_fixed \in [frame : FrameNames, data : [Cells -> Occupancy]]
    BY <2>1 DEF Init, FrameNames
  <2>. QED
    BY <2>1, <2>2 DEF Init, TypeOK, FrameNames
<1>2. LoopInvariant
  BY DEF Init, LoopInvariant
<1>3. PartialResetIsFull
  BY DEF Init, PartialResetIsFull, AllUnknown
<1>4. CanvasIsLastScan
  BY UnknownBufferIsBlank DEF Init, CanvasIsLastScan, LastOverlay, AllUnknown
<1>. QED
  BY <1>1, <1>2, <1>3, <1>4 DEF IInv

\* The steps that leave the canvas and the map callback's loop alone.
LEMMA OtherStepsIInv ==
  ASSUME IInv,
         \/ \E m \in Scans : SlamPublish(m)
         \/ RejectScan
         \/ Bookkeep
         \/ PublishCanvas
         \/ UNCHANGED vars
  PROVE  IInv'
<1>. USE DEF IInv, params, mapVars, pubVars, vars
<1>1. TypeOK'
  <2>1. ASSUME NEW m \in Scans, SlamPublish(m) PROVE TypeOK'
    BY <2>1 DEF SlamPublish, TypeOK
  <2>2. CASE RejectScan
    BY <2>2 DEF RejectScan, TypeOK
  <2>3. CASE Bookkeep
    <3>1. incoming_map \in Scan
      BY <2>3, GeometryAssumption DEF Bookkeep, TypeOK, LoopInvariant
    <3>2. incoming_map.frame \in FrameNames
      BY <3>1 DEF Scan, FrameNames
    <3>. QED
      BY <2>3, <3>2 DEF Bookkeep, TypeOK
  <2>4. CASE FillHeader
    BY <2>4 DEF FillHeader, TypeOK
  <2>5. CASE CopyCanvas
    BY <2>5 DEF CopyCanvas, TypeOK
  <2>6. CASE Publish
    <3>1. map_fixed' \in [frame : FrameNames, data : [Cells -> Occupancy]]
      BY <2>6 DEF Publish, TypeOK
    <3>. QED
      BY <2>6, <3>1 DEF Publish, TypeOK
  <2>7. CASE UNCHANGED vars
    BY <2>7 DEF TypeOK
  <2>. QED
    BY <2>1, <2>2, <2>3, <2>4, <2>5, <2>6, <2>7 DEF PublishCanvas
<1>2. /\ UNCHANGED <<canvas_data, last_written, incoming_map, row, locked>>
      /\ \/ UNCHANGED map_pc
         \/ map_pc = "bookkeep" /\ map_pc' = "idle"
  BY DEF SlamPublish, RejectScan, Bookkeep, PublishCanvas, FillHeader,
     CopyCanvas, Publish
<1>3. LoopInvariant'
  BY <1>2 DEF LoopInvariant, Acceptable
<1>4. PartialResetIsFull'
  BY <1>2 DEF PartialResetIsFull
<1>5. CanvasIsLastScan'
  BY <1>2 DEF CanvasIsLastScan, LastOverlay, Board, Overlay, OverlayRows,
     ScanCell, Left, Top
<1>. QED
  BY <1>1, <1>3, <1>4, <1>5

LEMMA EraseIInv ==
  ASSUME IInv, EraseLastScan
  PROVE  IInv'
<1>. USE DEF IInv, EraseLastScan, params, pubVars
<1>1. inbox \in Scans /\ incoming_map' = inbox /\ row' = 0
  BY DEF TypeOK, CanStartMap
<1>2. inbox.height \in Nat
  BY <1>1, GeometryAssumption DEF Scan
<1>3. TypeOK'
  BY DEF TypeOK, Unknown, Occupancy
<1>4. LoopInvariant'
  BY <1>1, <1>2, NoScanIsNoScan DEF LoopInvariant
<1>5. \A i \in Cells : canvas_data'[i] = Unknown
  BY DEF PartialResetIsFull, TypeOK
<1>6. PartialResetIsFull'
  BY <1>5 DEF PartialResetIsFull
<1>7. Board(canvas_data') = OverlayRows(inbox, 0)
  BY <1>1, <1>5, UnknownBufferIsBlank, NoRowsIsBlank
<1>8. CanvasIsLastScan'
  BY <1>1, <1>7 DEF CanvasIsLastScan
<1>. QED
  BY <1>3, <1>4, <1>6, <1>8

LEMMA StampRowIInv ==
  ASSUME IInv, StampRow
  PROVE  IInv'
<1>. USE DEF IInv, StampRow, params, pubVars
<1>1. incoming_map \in Scans /\ Acceptable(incoming_map)
  BY DEF TypeOK, LoopInvariant
<1>2. incoming_map.height \in Nat /\ row \in 0 .. incoming_map.height - 1
  BY <1>1, GeometryAssumption DEF TypeOK, Scan
<1>3. TypeOK'
  BY <1>1, <1>2, WithRowType, RowCellsInBuffer DEF TypeOK
<1>4. LoopInvariant'
  BY <1>2 DEF LoopInvariant, Acceptable
<1>5. PartialResetIsFull'
  BY DEF PartialResetIsFull, WithRow
<1>6. CanvasIsLastScan'
  <2>1. Board(canvas_data) = OverlayRows(incoming_map, row)
    BY DEF CanvasIsLastScan
  <2>2. Board(canvas_data') = OverlayRows(incoming_map, row + 1)
    BY <1>1, <1>2, <2>1, RowOnBoard DEF TypeOK
  <2>. QED
    BY <2>2 DEF CanvasIsLastScan
<1>. QED
  BY <1>3, <1>4, <1>5, <1>6

LEMMA UnlockIInv ==
  ASSUME IInv, Unlock
  PROVE  IInv'
<1>. USE DEF IInv, Unlock, params, pubVars
<1>1. TypeOK'
  BY DEF TypeOK
<1>2. LoopInvariant'
  BY DEF LoopInvariant, Acceptable
<1>3. PartialResetIsFull'
  BY DEF PartialResetIsFull
<1>4. CanvasIsLastScan'
  <2>1. Board(canvas_data) = Overlay(incoming_map)
    BY DEF CanvasIsLastScan, Overlay
  <2>2. incoming_map # NoScan
    BY DEF LoopInvariant
  <2>. QED
    BY <2>1, <2>2 DEF CanvasIsLastScan, LastOverlay
<1>. QED
  BY <1>1, <1>2, <1>3, <1>4

LEMMA NextIInv == IInv /\ [Next]_vars => IInv'
BY OtherStepsIInv, EraseIInv, StampRowIInv, UnlockIInv
   DEF Next, MapCallback

\* The invariant that carries everything else: every variable keeps its type,
\* the mutex brackets the stamping loop, and at each turn of the loop the
\* canvas is the rows stamped so far over Unknown.
THEOREM Invariance == Spec => []IInv
BY InitIInv, NextIInv, PTL DEF Spec

\* Type correctness of the node's state, index bounds included.
THEOREM TypeCorrect == Spec => []TypeOK
<1>1. IInv => TypeOK
  BY DEF IInv
<1>. QED
  BY <1>1, Invariance, PTL

\* The partial reset of last_written_indices_ erases as much as a full one.
THEOREM PartialResetCorrect == Spec => []PartialResetIsFull
<1>1. IInv => PartialResetIsFull
  BY DEF IInv
<1>. QED
  BY <1>1, Invariance, PTL

\* Between callbacks the canvas is the last accepted map and nothing else.
THEOREM CanvasCorrect == Spec => []CanvasIsLastScan
<1>1. IInv => CanvasIsLastScan
  BY DEF IInv
<1>. QED
  BY <1>1, Invariance, PTL

-----------------------------------------------------------------------------
(* The node keeps the promise of Canvas                                    *)

\* The geometry Canvas uses is this module's.
LEMMA SameGeometry ==
  /\ Promise!Blank = Blank
  /\ \A m : Promise!Overlay(m) = Overlay(m)
  /\ \A m : Promise!Acceptable(m) <=> Acceptable(m)
BY DEF Promise!Blank, Blank, Promise!Overlay, Overlay, Promise!OverlayRows,
   OverlayRows, Promise!Rows, Rows, Promise!Cols, Cols, Promise!Unknown, Unknown,
   Promise!Top, Top, Promise!Left, Left, Promise!RoundDiv, RoundDiv,
   Promise!ScanCell, ScanCell, Promise!Acceptable, Acceptable

LEMMA InitPromise == Init => Promise!Init
BY SameGeometry, UnknownBufferIsBlank DEF Init, Promise!Init, AllUnknown

LEMMA StepPromise ==
  ASSUME IInv, [Next]_vars
  PROVE  [Promise!Next]_<<IF map_pc = "stamp" THEN Overlay(incoming_map)
                                              ELSE Board(canvas_data),
                          Board(IF pub_pc = "publish" THEN output_data
                                                      ELSE map_fixed.data)>>
<1>. USE SameGeometry DEF params, mapVars, pubVars, vars
<1>. DEFINE shown == Board(IF pub_pc = "publish" THEN output_data
                                             ELSE map_fixed.data)
<1>1. ASSUME NEW m \in Scans, SlamPublish(m)
      PROVE  UNCHANGED <<map_pc, incoming_map, canvas_data>>
  BY <1>1 DEF SlamPublish
<1>2. ASSUME RejectScan \/ FillHeader \/ Publish \/ UNCHANGED vars
      PROVE  UNCHANGED <<map_pc, incoming_map, canvas_data>>
  BY <1>2 DEF RejectScan, FillHeader, Publish
<1>3. ASSUME UNCHANGED <<map_pc, incoming_map, canvas_data>>, UNCHANGED shown
      PROVE  UNCHANGED <<IF map_pc = "stamp" THEN Overlay(incoming_map)
                                             ELSE Board(canvas_data), shown>>
  BY <1>3 DEF Overlay, OverlayRows, Board, ScanCell, Left, Top
<1>4. ASSUME UNCHANGED pubVars
      PROVE  UNCHANGED shown
  BY <1>4 DEF Board
<1>5. ASSUME FillHeader \/ Publish
      PROVE  UNCHANGED shown
  <2>1. (IF pub_pc = "publish" THEN output_data ELSE map_fixed.data)'
          = IF pub_pc = "publish" THEN output_data ELSE map_fixed.data
    BY <1>5 DEF FillHeader, Publish
  <2>. QED
    BY <2>1 DEF Board
<1>6. CASE (\E m \in Scans : SlamPublish(m)) \/ RejectScan \/ UNCHANGED vars
  <2>1. UNCHANGED pubVars
    BY <1>6 DEF SlamPublish, RejectScan
  <2>2. UNCHANGED shown
    BY <2>1, <1>4
  <2>. QED
    BY <1>1, <1>2, <1>3, <1>6, <2>2
<1>7. CASE FillHeader \/ Publish
  BY <1>2, <1>3, <1>5, <1>7
<1>8. CASE EraseLastScan
  <2>1. inbox \in Scans /\ Acceptable(inbox) /\ map_pc # "stamp"
    BY <1>8 DEF EraseLastScan, CanStartMap, IInv, TypeOK
  <2>2. UNCHANGED shown
    BY <1>4, <1>8 DEF EraseLastScan
  <2>3. Promise!Replace(inbox)
    BY <1>8, <2>1, <2>2 DEF EraseLastScan, Promise!Replace
  <2>. QED
    BY <2>1, <2>3 DEF Promise!Next
<1>9. CASE StampRow
  <2>1. UNCHANGED shown
    BY <1>4, <1>9 DEF StampRow
  <2>. QED
    BY <1>9, <2>1 DEF StampRow, Overlay, OverlayRows, ScanCell, Left, Top
<1>10. CASE Unlock
  <2>1. Board(canvas_data') = Overlay(incoming_map)
    BY <1>10 DEF Unlock, IInv, CanvasIsLastScan, Overlay
  <2>2. UNCHANGED shown
    BY <1>4, <1>10 DEF Unlock
  <2>. QED
    BY <1>10, <2>1, <2>2 DEF Unlock, Board
<1>11. CASE Bookkeep
  <2>1. UNCHANGED shown
    BY <1>4, <1>11 DEF Bookkeep
  <2>. QED
    BY <1>11, <2>1 DEF Bookkeep, Board
<1>12. CASE CopyCanvas
  <2>1. map_pc # "stamp" /\ map_pc' = map_pc
    BY <1>12 DEF CopyCanvas, IInv, LoopInvariant
  <2>2. shown' = Board(canvas_data) /\ canvas_data' = canvas_data
    BY <1>12 DEF CopyCanvas, Board
  <2>3. Promise!Heartbeat
    BY <2>1, <2>2 DEF Promise!Heartbeat, Board
  <2>. QED
    BY <2>3 DEF Promise!Next
<1>. QED
  BY <1>6, <1>7, <1>8, <1>9, <1>10, <1>11, <1>12
     DEF Next, MapCallback, PublishCanvas

\* The detailed node, with its index list, its row loop and its mutex,
\* implements Canvas: every heartbeat carries one whole map.
THEOREM Refinement == Spec => KeepsPromise
<1>1. IInv /\ [Next]_vars
        => [Promise!Next]_<<IF map_pc = "stamp" THEN Overlay(incoming_map)
                                                ELSE Board(canvas_data),
                            Board(IF pub_pc = "publish" THEN output_data
                                                        ELSE map_fixed.data)>>
  BY StepPromise
<1>. QED
  BY <1>1, InitPromise, Invariance, PTL DEF Spec, KeepsPromise, Promise!Spec

-----------------------------------------------------------------------------
(* The frame of a broadcast                                                *)

FInv == FrameInvariant /\ DataUnderItsFrame

LEMMA InitFInv == Init => FInv
BY UnknownBufferIsBlank DEF Init, FInv, FrameInvariant, DataUnderItsFrame, AllUnknown

LEMMA NextFInv ==
  ASSUME IInv, FInv, [Next]_vars
  PROVE  FInv'
<1>. USE DEF FInv, FrameInvariant, DataUnderItsFrame, params, mapVars, pubVars,
     vars, Board
<1>1. ASSUME NEW m \in Scans, SlamPublish(m) PROVE FInv'
  BY <1>1 DEF SlamPublish
<1>2. CASE RejectScan
  BY <1>2 DEF RejectScan
<1>3. CASE EraseLastScan
  BY <1>3 DEF EraseLastScan, CanStartMap
<1>4. CASE StampRow
  BY <1>4 DEF StampRow
<1>5. CASE Unlock
  BY <1>5 DEF Unlock
<1>6. CASE Bookkeep
  BY <1>6 DEF Bookkeep
<1>7. CASE FillHeader
  BY <1>7 DEF FillHeader
<1>8. CASE CopyCanvas
  <2>1. ASSUME ~overlap, Board(canvas_data) # Blank
        PROVE  slam_received
    <3>1. map_pc = "idle"
      BY <1>8, <2>1 DEF CopyCanvas
    <3>2. incoming_map # NoScan
      BY <2>1, <3>1 DEF IInv, CanvasIsLastScan, LastOverlay
    <3>. QED
      BY <2>1, <3>1, <3>2
  <2>. QED
    BY <1>8, <2>1 DEF CopyCanvas
<1>9. CASE Publish
  BY <1>9 DEF Publish
<1>10. CASE UNCHANGED vars
  BY <1>10
<1>. QED
  BY <1>1, <1>2, <1>3, <1>4, <1>5, <1>6, <1>7, <1>8, <1>9, <1>10
     DEF Next, MapCallback, PublishCanvas

\* Where callbacks exclude each other, map data is broadcast under the frame
\* in force, although the frame is read and set outside the mutex.
THEOREM FrameCorrect == Spec => []DataUnderItsFrame
<1>1. IInv /\ FInv /\ [Next]_vars => FInv'
  BY NextFInv
<1>2. FInv => DataUnderItsFrame
  BY DEF FInv
<1>. QED
  BY <1>1, <1>2, InitFInv, Invariance, PTL DEF Spec
=============================================================================
