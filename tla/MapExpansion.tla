---------------------------- MODULE MapExpansion ----------------------------
(***************************************************************************)
(* map_expansion_node.cpp: mapCallback stamps each SLAM map on a canvas of *)
(* fixed size, erasing only the cells the previous map wrote; a timer      *)
(* broadcasts the canvas whether or not SLAM is alive.                     *)
(*                                                                         *)
(* The deployed node spins one thread with one callback at a time          *)
(* (overlap = FALSE).  The comments of the code argue for executors that   *)
(* run both callbacks at once (overlap = TRUE); both cases are modelled.   *)
(***************************************************************************)
EXTENDS CanvasGeometry

CONSTANTS
  OutputFrames,   \* values the output_frame_id parameter may be given
  Overlaps        \* whether the executor may run both callbacks at once

NoFrame == ""
DefaultFrame == "map"
NoScan == [frame |-> NoFrame]

FrameNames == Frames \cup OutputFrames \cup {NoFrame, DefaultFrame}

ASSUME ExpansionAssumption == NoFrame \notin Frames /\ Overlaps \subseteq BOOLEAN

VARIABLES
  output_frame_id,  \* parameters, fixed at start
  overlap,
  inbox,            \* the subscription's queue, of depth 1
  canvas_data,
  last_written,     \* last_written_indices_
  locked,           \* mapCallback holds canvas_mutex_
  incoming_map,     \* the map of the running callback, else of the last one
  row,              \* the loop variable of mapCallback
  map_pc,           \* where mapCallback is
  slam_received,
  frame_id,
  pub_pc,           \* where publishCanvas is
  header_frame,     \* output_map.header.frame_id, a local of publishCanvas
  output_data,      \* output_map.data, another
  map_fixed         \* the last message on the latched output topic

mapVars == <<canvas_data, last_written, locked, incoming_map, row, map_pc,
             slam_received, frame_id>>
pubVars == <<pub_pc, header_frame, output_data, map_fixed>>
params  == <<output_frame_id, overlap>>
vars    == <<params, inbox, mapVars, pubVars>>

AllUnknown == [i \in Cells |-> Unknown]

\* Before the first heartbeat a reader has nothing, shown here as blank.
Init ==
  /\ output_frame_id \in OutputFrames
  /\ overlap \in Overlaps
  /\ inbox = NoScan
  /\ canvas_data = AllUnknown
  /\ last_written = {}
  /\ locked = FALSE
  /\ incoming_map = NoScan
  /\ row = 0
  /\ map_pc = "idle"
  /\ slam_received = FALSE
  /\ frame_id = IF output_frame_id = NoFrame THEN DefaultFrame ELSE output_frame_id
  /\ pub_pc = "idle"
  /\ header_frame = NoFrame
  /\ output_data = AllUnknown
  /\ map_fixed = [frame |-> NoFrame, data |-> AllUnknown]

-----------------------------------------------------------------------------
(* SLAM publishes; a map the node has not taken yet is overwritten.        *)

SlamPublish(m) ==
  /\ inbox' = m
  /\ UNCHANGED <<params, mapVars, pubVars>>

-----------------------------------------------------------------------------
(* mapCallback                                                             *)

CanStartMap == map_pc = "idle" /\ inbox # NoScan /\ (overlap \/ pub_pc = "idle")

RejectScan ==
  /\ CanStartMap
  /\ ~Acceptable(inbox)
  /\ inbox' = NoScan
  /\ UNCHANGED <<params, mapVars, pubVars>>

\* Mutant: the new map is stamped over the old one.
EraseNothing ==
  /\ CanStartMap
  /\ Acceptable(inbox)
  /\ ~locked
  /\ locked' = TRUE
  /\ incoming_map' = inbox
  /\ inbox' = NoScan
  /\ last_written' = {}
  /\ row' = 0
  /\ map_pc' = "stamp"
  /\ UNCHANGED <<params, canvas_data, slam_received, frame_id, pubVars>>

\* The partial reset, under the mutex.
EraseLastScan ==
  /\ CanStartMap
  /\ Acceptable(inbox)
  /\ ~locked
  /\ locked' = TRUE
  /\ incoming_map' = inbox
  /\ inbox' = NoScan
  /\ canvas_data' = [i \in Cells |-> IF i \in last_written THEN Unknown
                                                           ELSE canvas_data[i]]
  /\ last_written' = {}
  /\ row' = 0
  /\ map_pc' = "stamp"
  /\ UNCHANGED <<params, slam_received, frame_id, pubVars>>

\* Mutant: the index list holds the last row only.
StampRowForgetting ==
  /\ map_pc = "stamp"
  /\ row < incoming_map.height
  /\ canvas_data' = WithRow(canvas_data, incoming_map, row)
  /\ last_written' = RowCells(incoming_map, row)
  /\ row' = row + 1
  /\ UNCHANGED <<params, inbox, locked, incoming_map, map_pc, slam_received,
                 frame_id, pubVars>>

StampRow ==
  /\ map_pc = "stamp"
  /\ row < incoming_map.height
  /\ canvas_data' = WithRow(canvas_data, incoming_map, row)
  /\ last_written' = last_written \cup RowCells(incoming_map, row)
  /\ row' = row + 1
  /\ UNCHANGED <<params, inbox, locked, incoming_map, map_pc, slam_received,
                 frame_id, pubVars>>

\* Mutant: the mutex is never released.
UnlockForgotten ==
  /\ map_pc = "stamp"
  /\ row = incoming_map.height
  /\ map_pc' = "bookkeep"
  /\ UNCHANGED <<params, inbox, canvas_data, last_written, locked, incoming_map,
                 row, slam_received, frame_id, pubVars>>

Unlock ==
  /\ map_pc = "stamp"
  /\ row = incoming_map.height
  /\ locked' = FALSE
  /\ map_pc' = "bookkeep"
  /\ UNCHANGED <<params, inbox, canvas_data, last_written, incoming_map, row,
                 slam_received, frame_id, pubVars>>

\* Mutant: every map's frame is adopted, not only the first one's.
BookkeepEveryMap ==
  /\ map_pc = "bookkeep"
  /\ frame_id' = IF output_frame_id = NoFrame THEN incoming_map.frame ELSE frame_id
  /\ slam_received' = TRUE
  /\ map_pc' = "idle"
  /\ UNCHANGED <<params, inbox, canvas_data, last_written, locked,
                 incoming_map, row, pubVars>>

\* The first-message bookkeeping comes after the mutex is released.
Bookkeep ==
  /\ map_pc = "bookkeep"
  /\ frame_id' = IF ~slam_received /\ output_frame_id = NoFrame
                   THEN incoming_map.frame ELSE frame_id
  /\ slam_received' = TRUE
  /\ map_pc' = "idle"
  /\ UNCHANGED <<params, inbox, canvas_data, last_written, locked,
                 incoming_map, row, pubVars>>

-----------------------------------------------------------------------------
(* publishCanvas: the header is filled before the mutex is taken, and the  *)
(* message goes out after it is given back.                                *)

FillHeader ==
  /\ pub_pc = "idle"
  /\ overlap \/ map_pc = "idle"
  /\ header_frame' = frame_id
  /\ pub_pc' = "copy"
  /\ UNCHANGED <<params, inbox, mapVars, output_data, map_fixed>>

\* Mutant: the canvas is copied without the mutex.
CopyUnlocked ==
  /\ pub_pc = "copy"
  /\ output_data' = canvas_data
  /\ pub_pc' = "publish"
  /\ UNCHANGED <<params, inbox, mapVars, header_frame, map_fixed>>

CopyCanvas ==
  /\ pub_pc = "copy"
  /\ ~locked
  /\ output_data' = canvas_data
  /\ pub_pc' = "publish"
  /\ UNCHANGED <<params, inbox, mapVars, header_frame, map_fixed>>

Publish ==
  /\ pub_pc = "publish"
  /\ map_fixed' = [frame |-> header_frame, data |-> output_data]
  /\ pub_pc' = "idle"
  /\ UNCHANGED <<params, inbox, mapVars, header_frame, output_data>>

-----------------------------------------------------------------------------
MapCallback == RejectScan \/ EraseLastScan \/ StampRow \/ Unlock \/ Bookkeep

PublishCanvas == FillHeader \/ CopyCanvas \/ Publish

Next ==
  \/ \E m \in Scans : SlamPublish(m)
  \/ MapCallback
  \/ PublishCanvas

\* A callback that runs is never abandoned, and the wall timer keeps firing.
\* SLAM owes nothing.
Fairness == WF_vars(StampRow \/ Unlock \/ Bookkeep) /\ WF_vars(PublishCanvas)

Spec == Init /\ [][Next]_vars

FairSpec == Spec /\ Fairness

-----------------------------------------------------------------------------
(* Properties                                                              *)

TypeOK ==
  /\ output_frame_id \in OutputFrames
  /\ overlap \in Overlaps
  /\ inbox \in Scans \cup {NoScan}
  /\ canvas_data \in [Cells -> Occupancy]
  /\ last_written \subseteq Cells
  /\ locked \in BOOLEAN
  /\ incoming_map \in Scans \cup {NoScan}
  /\ row \in Nat
  /\ map_pc \in {"idle", "stamp", "bookkeep"}
  /\ slam_received \in BOOLEAN
  /\ frame_id \in FrameNames
  /\ pub_pc \in {"idle", "copy", "publish"}
  /\ header_frame \in FrameNames
  /\ output_data \in [Cells -> Occupancy]
  /\ map_fixed \in [frame : FrameNames, data : [Cells -> Occupancy]]

\* The cells the next partial reset will not erase are Unknown already, so
\* the partial reset does what a fill of the whole canvas would: no wall of
\* an older, larger or shifted map survives a new one (lines 364-374).
PartialResetIsFull == \A i \in Cells \ last_written : canvas_data[i] = Unknown

LastOverlay == IF incoming_map = NoScan THEN Blank ELSE Overlay(incoming_map)

\* Outside the loop the canvas is exactly the last accepted map, and inside it
\* exactly the rows stamped so far; a rejected message leaves no trace, and a
\* robot that falls silent stays on the canvas as it was last seen.
CanvasIsLastScan ==
  Board(canvas_data) = IF map_pc = "stamp" THEN OverlayRows(incoming_map, row)
                                           ELSE LastOverlay

\* With callbacks that exclude each other, map data is never broadcast under
\* the start-up frame: the broadcast's frame is the one in force (lines
\* 234-238 and 418-424).
DataUnderItsFrame ==
  (~overlap /\ Board(map_fixed.data) # Blank)
     => map_fixed.frame = frame_id /\ slam_received

\* Why those hold, for the inductive argument: the mutex is held exactly while
\* rows are stamped, the rows stamped are rows of an accepted map, and without
\* overlap a heartbeat under way has the header of the frame in force.
LoopInvariant ==
  /\ locked <=> map_pc = "stamp"
  /\ incoming_map # NoScan => Acceptable(incoming_map)
  /\ map_pc # "idle" => incoming_map # NoScan
  /\ map_pc = "stamp" => row <= incoming_map.height

FrameInvariant ==
  ~overlap =>
    /\ map_pc # "idle" => pub_pc = "idle"
    /\ pub_pc # "idle" => header_frame = frame_id
    /\ (pub_pc = "publish" /\ Board(output_data) # Blank) => slam_received
    /\ (map_pc = "idle" /\ incoming_map # NoScan) => slam_received

\* The node keeps the promise of Canvas.  A map counts as on offer from the
\* moment the mutex is taken, no reader can see the canvas in between, and as
\* shown from the moment it is copied.
Promise == INSTANCE Canvas WITH
  board <- IF map_pc = "stamp" THEN Overlay(incoming_map) ELSE Board(canvas_data),
  shown <- Board(IF pub_pc = "publish" THEN output_data ELSE map_fixed.data)

KeepsPromise == Promise!Spec

\* Every accepted map is broadcast, unless a newer one is being stamped first.
AcceptedIsBroadcast ==
  \A m \in {s \in Scans : Acceptable(s)} :
    (map_pc = "bookkeep" /\ incoming_map = m)
      ~> (Board(map_fixed.data) = Overlay(m) \/ map_pc = "stamp")
=============================================================================
