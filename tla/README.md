# AUSRA communications and map merging: TLA+ development

AUSRA robots each run SLAM. A relay on every robot ships its map over WiFi, the
base station (or, in the decentralised set-up, every peer) restores it, lays it
on a canvas of fixed size and merges the canvases of all robots into one map.
This directory models that path from the code, checks it with TLC and proves
part of it with TLAPS.

```
 SLAM --/map--> relay_node ==WiFi/Zenoh==> map_decompressor_node --/r/map-->
   map_expansion_node (one per robot) --/r/map_fixed--> map_merge --/map_merged--> RViz, Nav2, explore
```

## Inventory

| Component | Source | State | Operations | What is hard | What makes it correct |
|---|---|---|---|---|---|
| relay_node | `ausra_comms/relay_node.py` | `last_map_sent`, `map_interval`, `last_map_hash`, two subscription queues, a latency thread | `map_cb_ns`, `map_cb_global` (both `_handle_map`), `heartbeat_cb`, `_latency_monitor_loop` | re-entrant callbacks on several threads with no lock; a wall clock that time sync may set; queues of depth 2 | no changed map suppressed, the newest map arrives, at most one evaluation per interval |
| map_decompressor_node | `ausra_comms/map_decompressor_node.py` (same file in `ausra_comms_base`) | no field but a counter: two queues and the threads' local variables | `_decompress_cb` | re-entrant callbacks of one robot overtake each other; malformed messages; a late start finds two messages | grids come out whole or not at all, overtaken only by callbacks that overlap; the last map is restored |
| map_expansion_node | `ausra_map_merge_HW/src/map_expansion_node.cpp` | `canvas_data_`, `last_written_indices_`, `canvas_mutex_`, `frame_id_`, `slam_received_` | `mapCallback`, `publishCanvas` | a partial reset that must equal a full one, snapshots, clipping at the canvas edge | the canvas is the last accepted map and nothing else |
| map_merge | `m-explore-ros2/map_merge/src/map_merge.cpp`, `merging_pipeline.*` | `subscriptions_`, `robots_`, `readonly_map` and `writable_map` per robot, `grids_`, `images_`, `transforms_` | `topicSubscribing`, `fullMapUpdate`, `partialMapUpdate`, `mapMerging`, `poseEstimation` | index-parallel vectors while robots join, aliasing of patched maps, failed estimations | maps keep their own transforms, never go back in time, and are all merged |
| warping, compositing | `grid_warper.cpp`, `grid_compositor.cpp` | none | `warp`, `compose` | overlapping cells | each merged cell comes from an input cell |
| explore | `m-explore-ros2/explore/src/explore.cpp` | `frontier_blacklist_`, `prev_goal_`, `last_progress_`, `resuming_` | `makePlan`, `reachedGoal`, `stop`, `resume`, `returnToInitialPose` | results of goals racing stop, resume and new goals; a goal and a time that are remembered from an earlier call | what is blacklisted was tried, the goal driven to is the one that is timed, exploration ends and the robot comes to rest for good |
| frontier search | `frontier_search.cpp`, `costmap_tools.h` | none | `searchFrom`, `buildNewFrontier`, `nearestCell` | grid borders, two nested searches that share a set of flags | the frontiers found are exactly the edges of the free room nearest to the robot |
| costmap client | `costmap_client.cpp` | Nav2's costmap | `updateFullMap`, `updatePartialMap`, `getRobotPose` | a costmap that changes under the search | none of its own: any view may follow any other |
| fake_robot_pub | `fake_robot_pub.py` | a position | timer | none | demonstration only |
| launch files, bridges | `*/launch/*.py`, `*.json5`, scripts | which machines and bridges run | boot, TimerActions, crash, respawn | topic names, parameter files, start-up order, latched messages delivered again | each robot's topics carry that robot's maps, and each merged map shows the robots that are configured |

The components share no memory. They interact by ROS topics (transient-local,
reliable, with short keep-last queues), so every interaction is a message that
may be late or overwritten by a newer one, and inside each node by callbacks
that its executor interleaves: several threads in relay and decompressor, one
thread in the expansion node, the merger and explore.

## Modules

| Module | Models | Role |
|---|---|---|
| `CanvasGeometry` | the offsets, clipping and indices of `mapCallback` | shared by the two below |
| `Canvas` | the abstract promise: whole maps replace whole maps | abstract specification |
| `MapExpansion` | `map_expansion_node.cpp` | detailed specification, implements `Canvas` |
| `MapExpansionProofs` | | theorems about `MapExpansion` |
| `Relay` | `relay_node.py` | specification |
| `RelayProofs` | | theorems about `Relay` |
| `MapMerge` | `map_merge.cpp`, `map_merge.h`, `merging_pipeline.*` | specification |
| `MapMergeProofs` | | theorems about `MapMerge`: types, transforms, the maps kept and merged, how it can end |
| `Decompressor` | `map_decompressor_node.py`, the packing in `relay_node.py` | specification, implements `Channel` |
| `Channel` | the abstract promise: maps that were sent, each at most once | abstract specification |
| `DecompressorProofs` | | theorems about `Decompressor` |
| `Deployment` | launch files, bridge and parameter files, `fake_robot_pub.py` | composition of all nodes, each as one that passes maps on |
| `DeploymentProofs` | | theorems about `Deployment`: whose maps a topic carries |
| `DeploymentOrderProofs` | | theorems about `Deployment`: types, and the order of maps |
| `FrontierSearch` | `frontier_search.cpp`, `costmap_tools.h` | specification, and a reference definition of rooms and edges |
| `FrontierSearchProofs` | | theorems about `FrontierSearch` |
| `Explore` | `explore.cpp`, `explore.h` | specification |
| `ExploreProofs` | | theorems about `Explore` |
| `MC...` | | constants of the runs |

Definitions headed "Mutant" are variants with a plausible mistake; no
specification uses them. For each property there is one that TLC must reject.

### MapExpansion

`canvas_data`, `frame_id`, `slam_received`, `header_frame` are the fields of
those names; `last_written` is the set of `last_written_indices_`; `locked` is
the mutex. `mapCallback` is `RejectScan` (guards 1 and 2), `EraseLastScan` (the
lock and the partial reset), `StampRow` (one turn of the outer loop, with the
row and column checks), `Unlock` and `Bookkeep`; `publishCanvas` is `FillHeader`
then `CopyCanvas` (the copy under the lock) and `Publish`. The split is where
another thread could come between.
The deployed node spins one thread with one callback at a time
(`overlap = FALSE`); the comments at lines 257-260 argue for a multi-threaded
executor, so `overlap = TRUE` is checked too. There a read of `frame_id_`
beside its first assignment would be a data race of a `std::string`; the frame
property is claimed without overlap only. Lengths are integers in a unit finer than a
cell; `RoundDiv` is `std::round`, halves away from zero. `overflow_count_` only
paces a log line and is left out.

### Relay

A callback is a thread stepping through `Take`, `Throttle`, `Mark`, `Compare`,
`RecordHash`, `Send`: every step reads or writes one shared field, and CPython
may switch threads between any two. Times are ages against the node's clock,
so setting the clock (`SyncClock`, from outside) shifts them all and a clock
set back gives negative ages, as it does in the code. `AdaptInterval` is the latency thread: any rating at
any time. Contents are abstract values and the hash is the contents (MD5 taken
as injective). In raw mode `Send` feeds the topic the node itself subscribes to.
Two history variables, which no action reads, name what overlapping threads do
to each other: a thread is `overtaken` when another one sets `last_map_sent`
between its test and its own assignment, or records a hash between its own hash
and its send, and the last map sent is `reverted` if such a thread sent it. The
properties hold with any number of threads but for these.

### MapMerge

Each callback is one action, as the executor runs one at a time. A subscription
is `readonly_map[r]`, and `writable[r]` says whether `writable_map` is set: the
code always makes it the same object then. `grids` holds `grids_` and `images_`
(a view of the same data); `aliased` says whose entry is still the object that
a later partial update patches in place. `ComposeGrids` is the size check, the
drawing and the search for the resolution, with both ways it ends the process.
`PoseEstimation` leaves to chance what OpenCV decides: no match, any set of
matching maps with any reference, or a failing bundle adjuster. Stamps of one
robot grow and each topic delivers in order; topics overtake each other.

### Decompressor

A callback has no state but its local variables, so it is two steps: `Take`
(the executor hands it the oldest message) and `PublishGrid`, or `Reject` for
the early returns and exceptions. `Fits` is the chain of guards in the code's
order, `Compressed` what the relay does to a map and `Decompressed` its
inverse; both work on cells, bytes and sizes, while zlib and JSON are taken to
undo themselves. A topic keeps its last messages for late joiners (`latest`)
and a subscription has its queue (`inbox`); both drop the oldest. `Start` is
late or again, `Stop` ends the process with its queues, threads and topics.
`packed` is history: which map each message was made from. `Channel` is what is
left of the node for those behind it: it may skip messages and forgets all when
it restarts, but shows none twice, and with one thread none out of order.

### Deployment

The launch files are functions from their arguments to sets of nodes: each node
has a kind, a machine, a robot, the topics it reads and writes and the delay of
its `TimerAction`. The nodes are coarse: each one passes on the last message it
heard (`Pass`), a merger keeps one map of every topic it found. A grid is the
set of (robot, version) pairs whose maps can be seen in it, which is all that
the properties ask of it. `out` is a node's last message. Relay and bridge are
transient-local of depth two: `kept` is the message before the last, and a node
that has sent nothing yet is given that one too, the older first (`Offered`).
SLAM's older message counts while a relay runs whose queue it can wait in.
`handled` is the last message a node dealt with, by which a relay knows that a
map is unchanged. What two re-entrant callbacks do in `Relay` and `Decompressor`
is one step here: `Overtake` sends the older map after the newer one, also the
relay's own in raw mode.

`TimerFires` makes a machine reach its next delay, so machines boot in any order
and at any speed; `Dies`, `BridgeCrashes` and `Respawn` are the faults. What
ends takes its messages with it (`Ends`), a bridge at both of its ends, and both
kept messages are delivered again after it has come back. `NullGrid` is the end
of `merge_reference`, which has no respawn. `ParamsApply` and `MergedTopic` say
which parameters of the YAML file reach a merger in which namespace. Mergers
subscribe to what their discovery matches, never to the topic they publish.

`NothingGoesBack` and `ShowsWhatIsExpected` state their exceptions. A topic may
go back to an older map of a robot only once a bridge of its has crashed or a
map of its was overtaken (`disordered`, history). A merged map shows the last
map of every configured robot that is brought up, compressed or not, unless an
overtaken map was sent last (`Overtaken`) or a null grid ended the merger. These
exceptions are the behaviours of `relay_stale` and `merge_reference`.

The documents promise more than the code does in some set-ups, and
`ShowsWhatIsExpected` is false of them, so that the run has none of them:

* raw maps over Zenoh: COMMUNICATION_ARCHITECTURE.md:38-44 lists `/ausra_X/map`
  as carried, but the bridges' allow lists have `map_compressed` only;
* the hardware base: the header of `map_merge_hw.launch.py` says that the robots'
  maps are merged, but its canvases listen to `map_relay`, which nobody publishes;
* a third robot at the base station, whose decompressor knows two;
* arguments that disagree: a robot that compresses, and a base without
  decompressor;
* the decentralised launch file with the repository's parameters, which is
  `deployment_echo`;
* no Zenoh in a set-up that is not `Straight` (see Proofs).

### FrontierSearch and Explore

`FrontierSearch` is one call of `searchFrom`: `nearestCell`, the main search and
`buildNewFrontier`, each a breadth-first search with a queue and a set of flags.
`phase` says which loop runs; `bfs` and `visited` are those of `nearestCell`,
then those of `searchFrom`, which are never in use together. A step takes a cell
from a queue (`LooksAround`, `Expands`, `Follows`) or looks at one of its
neighbours (`Reaches`; `Advances`, `MeetsFrontier`, `PassesBy`; `Grows`); `nbrs`
and `edge_nbrs` are the rest of the range that a `for` runs over. `Returns` is
the sort, in any order of rising cost, since `std::sort` is not stable. The
fields of a frontier that order it (size, least distance) are operators on its
cells; its centroid, which the search does not read, is left out. The search runs under the costmap's lock,
so nothing changes the map meanwhile. The warnings about cells off the map in
`nhood4` and `nhood8` are left out: `TypeOK` says that no such cell is asked
for. `SearchFindsEdges` compares the outcome with connected components, rooms
of free cells and edges of unknown cells next to them, which are defined
without any search: by columns and rows, and by cuts.

`Explore` is the node in one thread: every callback is one action, and
`makePlan` is an operator that five of them call with the members as they left
them. What the search returns is the variable `view`, which may change between
any two callbacks. `patience` is `last_progress_` against the clock. `Same` is
`same_point`, a tolerance of one centimetre and no equivalence: `prev_goal` is
overwritten by every plan, so that a centroid that creeps is never a new goal,
and `Drift` is how far it may get from the goal that was sent. Nav2 is
external: goals and cancellations reach it in either order, a newer goal aborts
the one it pursues, goals may be rejected, and results queue up on the way
back. Two behaviours of the code are kept as they are and no property denies
them. A goal that succeeds after `stop()` makes the node plan again while
paused, and so does the success of the goal it then sends: the robot drives on
(the README of m-explore-ros2, line 64, says that it will stop moving).
`ComesToRest` says only that this ends when the map stops changing. And the
cancellation that `returnToInitialPose` follows may overtake its goal. Time
spent paused counts against `progress_timeout`, and a node that resumes towards
the same frontier sends no goal; that is what makes `ExplorationEnds` worth a
check: only the blacklist moves such a node on.

## Runs

| Run | Question | Bounds | Result |
|---|---|---|---|
| `expansion` | Is the broadcast canvas always exactly one accepted map? | 3x2 canvas; eight maps: two overlapping rooms in two frames, a smaller one, two over the edges, one off the canvas, two malformed; free and fixed output frame; both executors | holds |
| `relay` | Is only suppressed what was sent, are evaluations spaced, and does the newest map arrive? | two contents, intervals 2 and 3, stall 1; one thread with one clock shift of 1 in both modes, with and without delta detection; two threads compressed with it and raw without it | holds |
| `relay_stale` | Does the newest map arrive whatever two threads do? | no clock shift | violated |
| `merge` | Do maps keep their transforms and their order, are they merged, and does each mode end the process in its own way only? | two robots, with three messages and one; known poses of three kinds, and unknown ones | holds |
| `merge_reference` | Is the reference grid there? | all poses the identity, as deployed | violated |
| `merge_sizes` | Does the size assertion hold? | unknown poses | violated |
| `merge_clipped` | Is a clipped update copied in place? | 2x2 map, an update over its right edge | violated |
| `decompressor` | Do grids come out whole, once and in order, and the last one at all? | two robots, with three messages and one; the second one ignored or not; one or two threads; two maps with the same cells in two shapes; five broken messages; a late start and one restart | holds |
| `deployment` | Whose maps does each topic and each merged map show? | four set-ups with two robots, machines booting in any order, one mishap (a machine that dies, a bridge that crashes, an overtaken map), two versions of one robot's map | holds |
| `deployment_echo` | The same, of the decentralised launch file as it is | two robots, no outage | violated |
| `explore` | Does exploration end, for the right reasons? | a corridor seen from four places, its left end creeping twice; three events of two changes of view, one stop and one resumption; with and without return home | holds |
| `search` | Does the search find every frontier, and end? | from every cell of all 3x3 grids of free and unknown cells and all 3x2 grids with obstacles; a corridor of 12x2 cells | holds |

Why the bounds are enough. Canvas: two maps in a row already show what a
partial reset forgets, a third that its index list is rebuilt; width 3 and
height 2 tell a row-major index from its transpose, and let a map lie inside,
across an edge and outside. Relay: a third content behaves as the second, and
an interval of 2 against a stall of 1 separates a thread that reads the clock
from one that uses it, and 3 a rating that changes in between; two threads are
enough for one to overtake the other. Merge: for a full map to be overtaken by an update the
robot needs three messages (a map, then both), and for indices to shift a
second robot; the second robot's one message is enough for it to arrive before,
between and after the others. Decompressor: a queue of depth 2 drops something
at the third message, two threads may hold both messages of a late start, and a
second robot is there to be ignored or to fill the other thread. The five
broken messages are one for each way out of the callback, and two maps of equal
cells and different shape tell metadata that were mixed up. Deployment: the
set-ups are a robot and a fake one at the base station over Zenoh; two robots of
which one's entry is misspelt; raw maps without Zenoh; and a merger on a robot
beside a peer's relay. Two versions of one robot's map are what it takes to go
back to the older one and what a depth of two keeps, and one mishap
(`MaxMishaps`) is enough to lose either end of a path or the bridge between, or
to deliver in the wrong order. Explore: from near and nearer, the goal crept by
half a centimetre and has made progress; crept twice it is a whole centimetre
from the first, so not `Same`; the other end lies at the origin, the coordinates
of a `Point` nobody set, where `prev_goal_` starts. Two changes of the view, a
stop and a resumption are each possible, and any three of them together
(`MaxEvents`), which has every pair and every stop followed by a change and a
resumption. Search: 3x3 grids have cells in corners, on borders and
inside, rooms joined by a diagonal only, and edges that bend around them; with
MinSize 2 some edges are too small. Three costs (free, inscribed, unknown) are
what the comparisons tell apart when the search starts on a cell that is not free.

Deadlock is checked in the expansion, relay and deployment runs. The merge,
decompressor, explore and search runs switch it off: once the process has ended,
the robots have used up their messages, the explorer is done or the search has
returned, the system really has stopped.

### What the violations show

* `relay_stale`: two callbacks test the throttle before either sets it
  (`relay_node.py:110` and `:119`), so both maps are evaluated in one interval;
  they record their hashes in one order and publish in the other. The base
  station keeps the older map, and each later copy of the newer one is
  suppressed as unchanged. `OnePerInterval`, `HashIsOfLastSent` and
  `LatestArrives` hold with two threads too, for all but the maps of threads
  that were overtaken in this way.
* `merge_reference`: with configured poses every subscribed robot has a
  transform, also one that has sent nothing. If it is the first identity in the
  list, its null grid is dereferenced for the resolution. The base launch file
  makes room for it: discovery after 2 s, canvases every 5 s.
* `merge_sizes`: after a new robot is found, a failed bundle adjustment leaves
  fewer transforms than images, and the next merge throws out of its timer.
* `merge_clipped`: the read index does not skip the clipped columns. The right
  edge is the only one where this happens (`FittingUpdatesFit`).
* `deployment_echo`: `decentralized_robot.launch.py` starts the merger in the
  robot's namespace with a parameter file that names a node of the root
  namespace. By its defaults the merger then takes the peers' restored maps and
  publishes `/<robot>/map`, where the robot's own relay listens: the peers'
  maps go out in this robot's name.

## Fairness

`MapExpansion`: a callback that has started runs on, and the heartbeat timer
keeps firing (a wall timer of the same executor); SLAM owes nothing. `Relay`:
SLAM republishes its map periodically (slam_toolbox's `map_update_interval`),
time passes, running callbacks go on, and the executor serves both
subscriptions (strong fairness of `Take` by some thread, for each topic, since
all threads may be busy again and again). In raw mode the node hears its own
maps, and `LatestArrives` assumes that from some time on its threads keep up,
so that no map waits in a queue while time passes: one that always waited until
the next interval could be sent again for ever. Nothing is assumed of the latency thread or the clock.
`MapMerge`: the two timers keep firing; no message need ever come.
`Decompressor`: the launch starts the node, its threads run on, and every
subscription is served in the end (strong fairness of `Take` over all threads,
as for the relay: the wait set of the executor is rotated, and a queue is
sometimes full and sometimes not seen). `Deployment`: only that something
happens while a timer, a message, a boot or a respawn is possible (one weak
fairness of all of them); SLAM keeps publishing as one of the timers. `Explore`: the callbacks of its executor, the clock, and that
Nav2 takes requests and ends goals. Nothing is assumed of the user, of the map,
or of which result a goal has. `FrontierSearch`: sequential code that waits for
nothing once it holds the lock, so one weak fairness of its steps.

## Proofs

All theorems hold for every value of the constants that satisfies the named
assumptions (`GeometryAssumption`, `ExpansionAssumption`, `RelayAssumption`,
`MergeAssumption`, `DecompressorAssumption`, `DeploymentAssumption`,
`ExploreAssumption`, `FrontierSearchAssumption`), which say what types the parameters have.

* `MapExpansionProofs`. The invariant `IInv` adds to the checked properties
  `LoopInvariant`: while the lock is held the rows stamped so far are rows of
  an accepted map. It is needed because `CanvasIsLastScan` in the middle of the
  loop speaks of the rows done, and because stamping keeps types only if the
  map is well formed. The heart is `RowOnBoard`: seen as a grid, stamping one
  row turns the first n rows of the map into the first n+1, which needs that
  row-major indices are injective (`IndexInjective`) and inside the buffer
  (`IndexInBuffer`). `PartialResetIsFull` makes the erase produce the blank
  canvas. `Refinement` maps taking the mutex to `Canvas!Replace` and each
  heartbeat to `Canvas!Heartbeat`; all other steps stutter.
* `RelayProofs`. `SuppressionSound` holds for any number of threads: the
  recorded hash is of contents sent, or of the message of a thread about to
  send. `HashCorrect` and `ThrottleCorrect` hold for any number of threads too.
  The first says of the last thread to record a hash that it sends last, unless
  one that it overtook does, which is what `reverted` records; the second
  carries from the test to the assignment that since_sent minus the thread's age
  was at least the shortest interval, a difference that no clock shift changes,
  and that only another thread's assignment spoils, which makes it `overtaken`.
* `MapMergeProofs`. `PoseOfItsRobot` is not inductive: a failed estimation
  keeps old transforms, and the list may grow before the next. The invariant is
  that the robots of `grids` and of `transforms` are each a final segment of
  `subscriptions`; new robots go in front, so segments stay segments, and two
  of equal length are the same. The type theorem includes that no update is
  read outside its data. `NeverOlder` needs more than the comparisons in the
  two callbacks, since a writable map is patched without one: the invariant is
  that the queued updates are in stamp order and newer than a writable map.
  What is published needs more. A map is in three places: kept
  (`readonly_map`), in the pipeline (`grids`) and on the merged map.
  `TrailInvariant` says that no place
  is ahead of the one before, which `MergedNeverGoesBack` needs because a merge
  may feed the pipeline anew (known poses) or take what the last estimation fed
  (estimated ones), and a partial update may patch the pipeline's grid in
  place. `Placed` keeps robots without a configured pose off the merged map, so
  that none of those on it is left out later. `EndsItsWay` rests on
  `Estimated`: a robot with an estimated pose had a grid at that estimation,
  and a grid that is there is never replaced by null, although estimations
  after it fail and robots join. So `merge_reference` needs configured poses
  and `merge_sizes` estimated ones. `FittingUpdatesFit` has a hypothesis about
  the updates: without it `merge_clipped` is the counterexample.
* `DecompressorProofs`. The order of grids is not inductive by itself: the
  invariant says of each robot that the messages kept, queued and in threads
  were all sent, that the topic and the queue are in order, and that whatever
  waits is newer than whatever was taken. That survives a late start because
  the queue then is the topic's, and a restart because all of it is gone.
  `RestorationCorrect` holds of every map and needs one hypothesis: that what
  else is on the topic (`Broken`) does not have the form of a packed map. A
  stray message that has it is restored like any other, and no code could tell.
  `RoundTrip` is its lemma about cells: packing to bytes and back is the
  identity on -1 to 100. `Refinement` maps what was sent and what was restored to
  `Channel`, where only `PublishGrid` shows something. That it was not shown
  before needs one more invariant, `Once`: no two threads hold the same message,
  and none holds one that was restored. A thread takes the head of a queue in
  which everything is newer than all that was taken, also after a late start.
* `ExploreProofs`. `WrittenOffWasTried` needs to know where the goals that end
  on the blacklist come from: goals sent, pursued and on their way back are all
  among the tried ones (`Tracked`), and the remembered goal crept from one of
  them as soon as the clock has a stamp (`Sound`), by steps that add up
  (`DriftFacts`), whatever relation `same_point` is. `TimesItsGoal` is proved with it:
  the last goal on its way to Nav2, or the one Nav2 pursues, is `prev_goal` or
  where that crept from.
  Every call of `makePlan` is one lemma (`Planned`), cited by the five
  callbacks.
* `DeploymentProofs`. `RobotsKeptApart` is an argument about the graphs of the
  launch files: every node that is not a merger is `Shaped`, it reads and
  writes only topics that carry its robot's maps on its machine. So what it
  takes was put out in the same robot's name (`HearsItsRobot`), and each
  delivery keeps the invariant. The hypothesis `KeptApart` is where the
  launch files can be used wrongly: mergers on robots must get their parameters
  (`deployment_echo` is the counterexample), and without Zenoh two robots whose
  SLAM publishes in the root namespace hear each other.
* `DeploymentOrderProofs`. Both theorems start from a catalogue: whatever the
  launch files are given, a node is one of seven kinds, fixed by its kind,
  machine and robot (`Listed`). `TypeCorrect` needs of the set-ups only what
  `DeploymentAssumption` says. `OrderKept` cannot follow one message, since
  what is kept is delivered again: it holds because nothing is ever behind what
  it feeds, but for the robots in `disordered`. `Up(p, n)` says that p is
  upstream of n, and the lemmas show that whatever n can hear of a robot is
  upstream of n and downstream of everything else that is (`FeedsFromUp`); so a
  delivery, new or repeated, is never older than what n has (`Ahead`). The
  message before the last is older (`KeptBehind`), and given to nodes only that
  have sent nothing: `Replayable` says that nothing downstream of such a node is
  newer than it. `HeldBehind` and `MergedBehind` carry this through a merger,
  which keeps one grid of each topic. When a bridge crashes or a callback is
  overtaken the robot joins `disordered`, and the invariant says no more of its
  versions (`LooserOrder`), but still that no grid loses it. A node that may hear of a robot in two ways breaks the argument and
  the property: with no Zenoh, no compression and SLAM in the robot's
  namespace, the base station's canvas hears SLAM's map 2 and then the relay's
  copy of map 1. The hypothesis `Straight` excludes such set-ups. All
  four of the run `deployment` are `Straight` and `KeptApart`, as is every
  set-up that starts Zenoh and whose mergers get their parameters.

* `FrontierSearchProofs`. `EdgesCorrect` holds for every costmap and every cell
  of the robot, so nothing in it can be computed; and the usual proof about
  reachability is an induction over paths, which is out of reach here. The
  reference definition avoids paths: a room is a set of free cells of which no
  part is cut off (`IsComponent`), and each loop's invariant says that what it
  has reached cannot be cut without an edge that crosses the cut (`Connected`),
  and that every neighbour of a cell it is done with has been met (`Floods`,
  `Follow`). When the queue is empty the second part says that the set cannot
  be extended, and two components that meet are one (`ComponentsMeet`).
  `NearestFirst` is the same for `nearestCell`, with the classic fact about
  breadth-first queues: the distances in the queue never fall and differ by at
  most one, so the first free cell at its head is a nearest one
  (`ClearIsNearest`, from `MoveNearer`: a king's move that comes closer).
  `Lists` says that the list holds the whole edges met so far, each once.
  Below are lemmas on columns and rows: `nhood4` and `nhood8` list exactly the
  cells that share a side or a corner, which is where a missed border would
  show (`Neighbours4`, `Neighbours8`). `WorkIsBounded` needs no fairness: a
  cell enters each of the queues at most once, and what is left to do
  (`Remaining`) falls with each step, from at most 26 for each cell and one.

Only model-checked: liveness (`AcceptedIsBroadcast`, `LatestArrives`,
`HeldIsMerged`, `LastIsRestored`, `ShowsWhatIsExpected`, `ExplorationEnds`,
`ComesToRest`, `SearchEnds`), which rests on fairness and ENABLED and is out of
the prover's reach (of `SearchEnds`, `WorkIsBounded` proves all but that the
steps are taken). Every other invariant and action property of the passing runs
is a theorem; one that needs a hypothesis states it, with the reason given above.

## Not modelled, and why

Warping, feature matching and bundle adjustment are OpenCV's; their outcomes
are nondeterministic here. Compositing is a maximum of matrices that OpenCV
computes, with no state. The centroid of a frontier is left out with the error
in it (the initial cell counts in the divisor only, frontier_search.cpp:128):
`Explore` takes goals from any set of places. The costmap client hands Nav2's costmap to the search
and asks tf for the pose; any view may follow any other in `Explore`. Logging,
counters that only appear in logs, markers and heartbeat texts change nothing a
property speaks of. `publish` only hands a message to DDS on the same machine
and is not taken to fail. Of Zenoh, only what the configuration says is
modelled: allow lists, and no loops between bridges. Maps that are not
compressed are on no allow list, so no bridge carries them. Stamps that step
back between two runs of SLAM are not in `MapMerge`: the code drops such maps
until the clock has caught up, as a hazard without a property says. The
launch files of the vendored m-explore-ros2, for its own demonstrations and
simulation, are included by none of AUSRA's.

## Plan

1. Expansion, relay, merger, decompressor, deployment, frontier search and
   explorer: done here.
2. Proofs of every safety property the passing runs check: done.
3. Left: a bound on the number of goals `Explore` sends between two changes of
   the view, a refinement of `Deployment`'s coarse decompressor by
   `Channel`, which would need to say how late a map may come out, and the same
   of its mergers by `MapMerge`.
