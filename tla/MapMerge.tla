------------------------------ MODULE MapMerge ------------------------------
(***************************************************************************)
(* map_merge.cpp and merging_pipeline: the merger discovers robots by      *)
(* their map topics, keeps the newest map of each (full maps replace it,   *)
(* partial updates patch it) and periodically composes one merged map,     *)
(* either with configured poses or with poses it estimates by matching.    *)
(*                                                                         *)
(* The node spins the single-threaded executor, so each callback is one    *)
(* action.  What interleaves is the order of the callbacks and of the      *)
(* messages of different topics.  A robot is the rank of its topic's name  *)
(* in the order get_topic_names_and_types lists them.  A grid message is   *)
(* its stamp and its cells: every map_fixed canvas has the same geometry.  *)
(***************************************************************************)
EXTENDS Integers, FiniteSets, Sequences, Functions

CONSTANTS
  Robots,
  MapWidth, MapHeight,
  FullMaps,     \* the contents a full map may have
  Updates,      \* the OccupancyGridUpdates: [x, y, width, height, data]
  KnownModes,   \* values of known_init_poses
  InitPoses,    \* the configurations of init_pose_*, one pose per robot
  Messages      \* of each robot: the bound on the messages it publishes

Cells == (0 .. MapHeight - 1) \X (0 .. MapWidth - 1)
Values == -1 .. 100
Grid == [stamp : Nat \ {0}, data : [Cells -> Values]]
NoGrid == [stamp |-> 0]

\* A transform: not there (an empty cv::Mat), exactly the identity, or another.
Poses == {"none", "identity", "offset"}

ASSUME MergeAssumption ==
  /\ Robots \subseteq Nat /\ IsFiniteSet(Robots)
  /\ MapWidth \in Nat \ {0} /\ MapHeight \in Nat \ {0}
  /\ FullMaps \subseteq [Cells -> Values]
  /\ Updates \subseteq [x : Int, y : Int, width : Nat, height : Nat, data : Seq(Values)]
  /\ \A u \in Updates : Len(u.data) = u.width * u.height
  /\ KnownModes \subseteq BOOLEAN /\ InitPoses \subseteq [Robots -> Poses]
  /\ Messages \in [Robots -> Nat]

VARIABLES
  known_init_poses, init_pose,  \* parameters, fixed at start
  visible,        \* the robots whose map topic is in the ROS graph
  clock,          \* of each robot: the stamp of its last message
  latched,        \* the full map a late subscriber of the robot is given
  maps, updates,  \* of each robot: messages on their way to the two callbacks
  subscriptions,  \* subscriptions_: the robots in the order of the forward_list
  readonly_map,
  writable,       \* whether writable_map is set: it then is readonly_map's grid
  grids,          \* grids_ and images_ of the pipeline: [robot, grid]
  aliased,        \* the robots whose entry of grids is readonly_map's grid itself
  transforms,     \* transforms_ of the pipeline: [robot, pose]
  merged,         \* the last merged map: what it shows of each robot in it
  ended           \* "" while the process runs, else what ended it

params    == <<known_init_poses, init_pose>>
incoming  == <<visible, clock, latched, maps, updates>>
storage   == <<subscriptions, readonly_map, writable>>
pipeline  == <<grids, aliased, transforms>>
vars == <<params, incoming, storage, pipeline, merged, ended>>

Init ==
  /\ known_init_poses \in KnownModes
  /\ init_pose \in InitPoses
  /\ visible = {}
  /\ clock = [r \in Robots |-> 0]
  /\ latched = [r \in Robots |-> NoGrid]
  /\ maps = [r \in Robots |-> <<>>]
  /\ updates = [r \in Robots |-> <<>>]
  /\ subscriptions = <<>>
  /\ readonly_map = [r \in Robots |-> NoGrid]
  /\ writable = [r \in Robots |-> FALSE]
  /\ grids = <<>>
  /\ aliased = {}
  /\ transforms = <<>>
  /\ merged = <<>>
  /\ ended = ""

Subscribed == Range(subscriptions)

-----------------------------------------------------------------------------
(* The robots: topics appear, stamps grow, a topic delivers in order.      *)

TopicAppears(r) ==
  /\ visible' = visible \cup {r}
  /\ UNCHANGED <<params, clock, latched, maps, updates, storage, pipeline,
                 merged, ended>>

CanPublish(r) == r \in visible /\ clock[r] < Messages[r]

Stamp(r) == clock' = [clock EXCEPT ![r] = @ + 1]

\* The map topics are transient_local.
PublishMap(r, data) ==
  LET m == [stamp |-> clock[r] + 1, data |-> data]
  IN  /\ CanPublish(r)
      /\ Stamp(r)
      /\ latched' = [latched EXCEPT ![r] = m]
      /\ maps' = IF r \in Subscribed THEN [maps EXCEPT ![r] = Append(@, m)] ELSE maps
      /\ UNCHANGED <<params, visible, updates, storage, pipeline, merged, ended>>

PublishUpdate(r, u) ==
  /\ CanPublish(r)
  /\ r \in Subscribed
  /\ Stamp(r)
  /\ updates' = [updates EXCEPT ![r] = Append(@, [stamp |-> clock[r] + 1, patch |-> u])]
  /\ UNCHANGED <<params, visible, latched, maps, storage, pipeline, merged, ended>>

-----------------------------------------------------------------------------
(* topicSubscribing: in the order of the topic names, each new robot is    *)
(* put in front of the list.                                               *)

\* Mutant: robots_ is not consulted.
NewcomersAgain == {r \in visible : known_init_poses => init_pose[r] # "none"}

Newcomers == {r \in visible \ Subscribed : known_init_poses => init_pose[r] # "none"}

TopicSubscribing ==
  /\ ended = ""
  /\ \E front \in [1 .. Cardinality(Newcomers) -> Newcomers] :
       /\ \A i, j \in DOMAIN front : i < j => front[i] > front[j]
       /\ subscriptions' = front \o subscriptions
  /\ maps' = [r \in Robots |-> IF r \in Newcomers /\ latched[r] # NoGrid
                                 THEN <<latched[r]>> ELSE maps[r]]
  /\ UNCHANGED <<params, visible, clock, latched, updates, readonly_map,
                 writable, pipeline, merged, ended>>

-----------------------------------------------------------------------------
(* fullMapUpdate and partialMapUpdate                                      *)

\* Mutant: the stamps are not compared.
FullMapUpdateUnchecked(r) ==
  /\ ended = ""
  /\ maps[r] # <<>>
  /\ maps' = [maps EXCEPT ![r] = Tail(@)]
  /\ readonly_map' = [readonly_map EXCEPT ![r] = Head(maps[r])]
  /\ writable' = [writable EXCEPT ![r] = FALSE]
  /\ aliased' = aliased \ {r}
  /\ UNCHANGED <<params, visible, clock, latched, updates, subscriptions, grids,
                 transforms, merged, ended>>

FullMapUpdate(r) ==
  /\ ended = ""
  /\ maps[r] # <<>>
  /\ maps' = [maps EXCEPT ![r] = Tail(@)]
  /\ LET m == Head(maps[r]) IN
       IF readonly_map[r].stamp > m.stamp
         THEN UNCHANGED <<storage, aliased>>
         ELSE /\ readonly_map' = [readonly_map EXCEPT ![r] = m]
              /\ writable' = [writable EXCEPT ![r] = FALSE]
              /\ aliased' = aliased \ {r}
              /\ UNCHANGED subscriptions
  /\ UNCHANGED <<params, visible, clock, latched, updates, grids, transforms,
                 merged, ended>>

\* The cells of the grid that the update covers, and how many of a row.
Covered(u) == {p \in Cells : p[1] - u.y \in 0 .. u.height - 1
                          /\ p[2] - u.x \in 0 .. u.width - 1}

CopiedPerRow(u) == IF u.x + u.width <= MapWidth THEN u.width ELSE MapWidth - u.x

\* The index i into the update's data counts the cells copied so far.
Patched(data, u) ==
  [p \in Cells |-> IF p \in Covered(u)
                     THEN u.data[(p[1] - u.y) * CopiedPerRow(u) + p[2] - u.x + 1]
                     ELSE data[p]]

\* Mutant: an update that was overrun is kept.
PartialMapUpdateUnchecked(r) ==
  /\ ended = ""
  /\ updates[r] # <<>>
  /\ updates' = [updates EXCEPT ![r] = Tail(@)]
  /\ LET u == Head(updates[r]) IN
       IF u.patch.x < 0 \/ u.patch.y < 0 \/ readonly_map[r] = NoGrid
         THEN UNCHANGED <<storage, aliased>>
         ELSE /\ readonly_map' = [readonly_map EXCEPT ![r] =
                    [stamp |-> u.stamp, data |-> Patched(@.data, u.patch)]]
              /\ writable' = [writable EXCEPT ![r] = TRUE]
              /\ aliased' = aliased \ {r}
              /\ UNCHANGED subscriptions
  /\ UNCHANGED <<params, visible, clock, latched, maps, grids, transforms,
                 merged, ended>>

\* The first update after a full map patches a copy of it, kept unless its
\* stamp is the older one.  Later ones patch that copy in place, where the
\* pipeline sees it, and there the comparison is of the map with itself.
PartialMapUpdate(r) ==
  /\ ended = ""
  /\ updates[r] # <<>>
  /\ updates' = [updates EXCEPT ![r] = Tail(@)]
  /\ LET u == Head(updates[r])
         valid == u.patch.x >= 0 /\ u.patch.y >= 0 /\ readonly_map[r] # NoGrid
         overrun == ~writable[r] /\ readonly_map[r].stamp > u.stamp
         map == [stamp |-> u.stamp, data |-> Patched(readonly_map[r].data, u.patch)]
     IN  IF ~valid \/ overrun
           THEN UNCHANGED <<storage, grids, aliased>>
           ELSE /\ readonly_map' = [readonly_map EXCEPT ![r] = map]
                /\ writable' = [writable EXCEPT ![r] = TRUE]
                /\ grids' = [i \in DOMAIN grids |->
                               IF writable[r] /\ r \in aliased /\ grids[i].robot = r
                                 THEN [grids[i] EXCEPT !.grid = map] ELSE grids[i]]
                /\ aliased' = IF writable[r] THEN aliased ELSE aliased \ {r}
                /\ UNCHANGED subscriptions
  /\ UNCHANGED <<params, visible, clock, latched, maps, transforms, merged, ended>>

-----------------------------------------------------------------------------
(* mapMerging                                                              *)

\* pipeline_.feed of the current maps.
Fed == [i \in DOMAIN subscriptions |->
          [robot |-> subscriptions[i], grid |-> readonly_map[subscriptions[i]]]]

\* pipeline_.setTransforms of the initial poses.
InitialTransforms == [i \in DOMAIN subscriptions |->
          [robot |-> subscriptions[i], pose |-> init_pose[subscriptions[i]]]]

\* What composeGrids draws: the grids that are there and have a transform.
Drawn(gs, ts) == {i \in DOMAIN gs : gs[i].grid # NoGrid /\ ts[i].pose # "none"}

\* The resolution is taken from the first identity transform's grid.
ReferenceIsMissing(gs, ts) ==
  \E i \in DOMAIN ts :
    /\ ts[i].pose = "identity" /\ gs[i].grid = NoGrid
    /\ \A j \in 1 .. i - 1 : ts[j].pose # "identity"

Merge(gs, ts) ==
  [r \in {gs[i].robot : i \in Drawn(gs, ts)} |->
     LET i == CHOOSE k \in Drawn(gs, ts) : gs[k].robot = r
     IN  [grid |-> gs[i].grid, pose |-> ts[i].pose]]

\* Mutant: nothing is merged before every robot has sent a map.
ComposeWhenAllArrived(gs, ts) ==
  IF Len(gs) = Len(ts) /\ DOMAIN gs = Drawn(gs, ts) /\ gs # <<>>
    THEN merged' = Merge(gs, ts) /\ UNCHANGED ended
    ELSE UNCHANGED <<merged, ended>>

\* composeGrids: the size check throws out of the timer callback, and a null
\* grid is dereferenced.
ComposeGrids(gs, ts) ==
  \/ /\ Len(gs) # Len(ts)
     /\ ended' = "size check"
     /\ UNCHANGED merged
  \/ /\ Len(gs) = Len(ts)
     /\ Drawn(gs, ts) = {}
     /\ UNCHANGED <<merged, ended>>
  \/ /\ Len(gs) = Len(ts)
     /\ Drawn(gs, ts) # {}
     /\ IF ReferenceIsMissing(gs, ts)
          THEN ended' = "null grid" /\ UNCHANGED merged
          ELSE merged' = Merge(gs, ts) /\ UNCHANGED ended

MapMerging ==
  /\ ended = ""
  /\ IF known_init_poses
       THEN /\ grids' = Fed
            /\ aliased' = Subscribed
            /\ transforms' = InitialTransforms
       ELSE UNCHANGED pipeline
  /\ ComposeGrids(grids', transforms')
  /\ UNCHANGED <<params, incoming, storage>>

-----------------------------------------------------------------------------
(* poseEstimation, when the poses are not known.  Which maps OpenCV finds  *)
(* to match, and whether its bundle adjuster succeeds, is its own affair.  *)

Arrived == {i \in DOMAIN Fed : Fed[i].grid # NoGrid}

SetTransforms(pose) ==
  transforms' = [i \in DOMAIN Fed |-> [robot |-> Fed[i].robot, pose |-> pose[i]]]

\* No match: the first map that is there becomes the reference frame.
NoMatch ==
  SetTransforms([i \in DOMAIN Fed |->
    IF i \in Arrived /\ \A j \in 1 .. i - 1 : j \notin Arrived
      THEN "identity" ELSE "none"])

\* Mutant: maps that are not there take part in the matching.
MatchedMissing ==
  \E good \in SUBSET DOMAIN Fed :
    \E reference \in good :
      /\ good # {reference}
      /\ SetTransforms([i \in DOMAIN Fed |->
           IF i \notin good THEN "none"
                            ELSE IF i = reference THEN "identity" ELSE "offset"])

Matched ==
  \E good \in SUBSET Arrived :
    \E reference \in good :
      /\ good # {reference}
      /\ SetTransforms([i \in DOMAIN Fed |->
           IF i \notin good THEN "none"
                            ELSE IF i = reference THEN "identity" ELSE "offset"])

\* Mutant: a failed estimation resizes the transforms it keeps.
AdjusterFailsResizing ==
  /\ \E i, j \in Arrived : i # j
  /\ transforms' = [i \in DOMAIN Fed |->
                      IF i \in DOMAIN transforms THEN transforms[i]
                                                 ELSE [robot |-> Fed[i].robot, pose |-> "none"]]

\* The adjuster fails: the old transforms stay, however many there are.
AdjusterFails ==
  /\ \E i, j \in Arrived : i # j
  /\ UNCHANGED transforms

PoseEstimation ==
  /\ ended = ""
  /\ ~known_init_poses
  /\ grids' = Fed
  /\ aliased' = Subscribed
  /\ IF Fed = <<>> THEN UNCHANGED transforms
                   ELSE NoMatch \/ Matched \/ AdjusterFails
  /\ UNCHANGED <<params, incoming, storage, merged, ended>>

-----------------------------------------------------------------------------
Environment(r) ==
  \/ TopicAppears(r)
  \/ \E data \in FullMaps : PublishMap(r, data)
  \/ \E u \in Updates : PublishUpdate(r, u)

Callback ==
  \/ \E r \in Robots : FullMapUpdate(r) \/ PartialMapUpdate(r)
  \/ TopicSubscribing \/ MapMerging \/ PoseEstimation

Next == Callback \/ \E r \in Robots : Environment(r)

\* The timers keep firing.
Fairness == WF_vars(MapMerging) /\ WF_vars(TopicSubscribing)

Spec == Init /\ [][Next]_vars

FairSpec == Spec /\ Fairness

-----------------------------------------------------------------------------
(* Properties                                                              *)

\* The types, and that no two list entries are of one robot: robots_ and
\* subscriptions_ agree (lines 147-172).
TypeOK ==
  /\ known_init_poses \in KnownModes /\ init_pose \in InitPoses
  /\ visible \subseteq Robots
  /\ clock \in [Robots -> Nat]
  /\ latched \in [Robots -> Grid \cup {NoGrid}]
  /\ maps \in [Robots -> Seq(Grid)]
  /\ updates \in [Robots -> Seq([stamp : Nat \ {0}, patch : Updates])]
  /\ subscriptions \in Seq(visible)
  /\ \A i, j \in DOMAIN subscriptions : subscriptions[i] = subscriptions[j] => i = j
  /\ readonly_map \in [Robots -> Grid \cup {NoGrid}]
  /\ writable \in [Robots -> BOOLEAN]
  /\ grids \in Seq([robot : Robots, grid : Grid \cup {NoGrid}])
  /\ aliased \subseteq Subscribed
  /\ transforms \in Seq([robot : Robots, pose : Poses])
  /\ merged \in [DOMAIN merged -> [grid : Grid, pose : Poses]]
  /\ DOMAIN merged \subseteq Robots
  /\ ended \in {"", "size check", "null grid"}

\* A map is only ever drawn with its own robot's transform.  Transforms are
\* found by index, new robots are put in front of the list, and a failed
\* estimation keeps old transforms: only the size check of composeGrids stands
\* between an old transform and the map of another robot (lines 51-173, 188).
PoseOfItsRobot ==
  Len(grids) = Len(transforms)
    => \A i \in DOMAIN grids : grids[i].robot = transforms[i].robot

\* The map kept of a robot never goes back in time, although full maps and
\* updates travel on separate topics and overtake each other (fullMapUpdate
\* lines 294-302, partialMapUpdate lines 370-382).
NeverOlder ==
  [][\A r \in Robots : readonly_map'[r].stamp >= readonly_map[r].stamp]_vars

\* Nor does what the merged map shows of a robot; and with known poses a robot
\* that is on the merged map stays on it, even when others join and the whole
\* list of grids shifts.
MergedNeverGoesBack ==
  [][/\ \A r \in DOMAIN merged \cap DOMAIN merged' :
          merged'[r].grid.stamp >= merged[r].grid.stamp
     /\ known_init_poses => DOMAIN merged \subseteq DOMAIN merged']_vars

\* With known poses every map a robot's subscription holds is drawn, unless a
\* newer one replaces it first or the process is gone.
HeldIsMerged ==
  \A r \in Robots : \A n \in 1 .. Messages[r] :
    (known_init_poses /\ readonly_map[r].stamp = n) ~>
       \/ ended # "" \/ readonly_map[r].stamp # n
       \/ r \in DOMAIN merged /\ merged[r].grid.stamp = n

\* Each mode has only its own way to end the process.  Transforms that were
\* estimated never need a grid that is not there, although they outlive the
\* estimation that found them and later ones fail beside them; and configured
\* ones always are as many as the images (merging_pipeline.cpp:101-103, 188).
EachModeFailsItsWay ==
  /\ ended = "null grid" => known_init_poses
  /\ ended = "size check" => ~known_init_poses

\* "We try to avoid setting empty grid as reference frame, in case some maps
\* never arrive" (merging_pipeline.cpp:101-103): composing never needs the
\* grid of a robot that has sent none.
ReferenceHasGrid == ended # "null grid"

\* The assertion of composeGrids (merging_pipeline.cpp:188): there is one
\* transform for each image.
OneTransformPerImage == ended # "size check"

\* "Received update doesn't fully fit into existing map, only part will be
\* copied" (map_merge.cpp:352-353): the part that fits gets the values the
\* update has for those cells.
PartFits ==
  [][\A r \in Robots :
       (PartialMapUpdate(r) /\ readonly_map'[r] # readonly_map[r]) =>
          LET u == Head(updates[r]).patch
          IN  \A p \in Covered(u) : readonly_map'[r].data[p]
                                     = u.data[(p[1] - u.y) * u.width + p[2] - u.x + 1]]_vars
=============================================================================
