----------------------------- MODULE Deployment -----------------------------
(***************************************************************************)
(* The set-ups that the launch files bring up, as graphs of nodes that     *)
(* pass maps from topic to topic, on machines that boot, die and are       *)
(* joined by Zenoh bridges that crash.  The nodes are coarse here: Relay,  *)
(* Decompressor, MapExpansion and MapMerge say what each does inside.      *)
(*                                                                         *)
(* A topic is <<namespace, base name>>, with "" for the root namespace.    *)
(* Every map topic is latched, so what counts of a publisher is its last   *)
(* message: <<>> before the first, then <<grid>>; and, where the depth is  *)
(* two, the message before it.  A grid is the set of <<robot, version>>    *)
(* whose SLAM maps can be seen in it.                                      *)
(***************************************************************************)
EXTENDS Integers, FiniteSets, Sequences, SequencesExt

CONSTANTS
  Robots,
  Maps,        \* of each robot: the number of versions its SLAM makes
  Setups,      \* what is launched where, see Setup
  MaxMishaps   \* the bound on machines that die, bridges that crash and maps
               \* that are overtaken inside a node

Laptop == "laptop"
Machines == Robots \cup {Laptop}
Bases == {"map", "map_compressed", "map_relay", "map_fixed", "map_merged"}

\* The arguments of the launch files, and how the robots' SLAM is configured.
Setup ==
  [bringup : [Robots -> {"comms", "decentralized", "fake", "none"}],
   base : {"swarm", "hardware", "none"},
   use_zenoh : BOOLEAN,             \* also ROS_LOCALHOST_ONLY, in start_base.sh
   enable_compression : BOOLEAN, use_compression : BOOLEAN,
   robot_config : Seq([name : Robots, valid : BOOLEAN]),
   slam_in_namespace : BOOLEAN,
   params_node : {"map_merge", "/**/map_merge"}, merged_map_topic : {"map_merged", "/map_merged"}]

ASSUME DeploymentAssumption ==
  /\ Setups \subseteq Setup
  /\ Maps \in [Robots -> Nat \ {0}] /\ MaxMishaps \in Nat
  /\ {"ausra_1", "ausra_2"} \subseteq Robots   \* those BaseStation decompresses
  /\ Laptop \notin Robots /\ "" \notin Robots

-----------------------------------------------------------------------------
(* The launch files                                                        *)

\* A node: what it is, its machine, the robot it is for (the robot whose
\* namespace it is in, of a merger), the topics it reads and the one it writes,
\* and the seconds after its launch at which its TimerAction starts it.
Node(kind, at, robot, from, to, delay) ==
  [kind |-> kind, at |-> at, robot |-> robot, from |-> from, to |-> to, delay |-> delay]

Delays == {0, 2, 10, 12, 14}

\* robot_config: entries that are not name:x:y are logged and skipped.
Configured(s) == {entry.name : entry \in {e \in ToSet(s.robot_config) : e.valid}}

\* zenoh_bridge_*.json5: what leaves a machine, and what it lets in.
AllowedOut(m) == IF m = Laptop THEN {} ELSE {"map_compressed"}
AllowedIn(m) == {"map_compressed"}

Bridge(m, delay) ==
  {Node("bridge", m, r, {<<r, base>>}, <<r, base>>, delay) : r \in Robots \ {m}, base \in AllowedIn(m)}

\* Mutant: the decompressor does not skip the local robot.
DecompressorOfAll(m, robots, ignore_robot, delay) ==
  {Node("decompressor", m, r, {<<r, "map_compressed">>}, <<r, "map">>, delay) : r \in robots}

Decompressor(m, robots, ignore_robot, delay) ==
  {Node("decompressor", m, r, {<<r, "map_compressed">>}, <<r, "map">>, delay) :
     r \in robots \ {ignore_robot}}

Expansion(m, r, input_topic, delay) ==
  {Node("expansion", m, r, {input_topic}, <<r, "map_fixed">>, delay)}

\* Mutant: the parameters are only those of the root namespace.
ParamsApplyToRoot(s, namespace) == namespace = ""

\* The parameter file speaks of a node by its full name, so that "map_merge" is
\* the one in the root namespace only; others have the node's own defaults.
ParamsApply(s, namespace) == namespace = "" \/ s.params_node = "/**/map_merge"

MergedTopic(s, namespace) ==
  IF ~ParamsApply(s, namespace) THEN <<namespace, "map">>
  ELSE IF s.merged_map_topic = "/map_merged" THEN <<"", "map_merged">>
  ELSE <<namespace, "map_merged">>

\* Its "from" is what its discovery looks for: see Discover.
Merger(s, m, namespace, delay) ==
  {Node("merger", m, namespace,
        {<<r, IF ParamsApply(s, namespace) THEN "map_fixed" ELSE "map">> :
           r \in Configured(s)} \ {MergedTopic(s, namespace)},
        MergedTopic(s, namespace), delay)}

\* hardware_with_comms.launch.py, with SLAM from the stack it includes.
HardwareWithComms(s, r, use_zenoh, enable_compression) ==
  {Node("slam", r, r, {}, <<IF s.slam_in_namespace THEN r ELSE "", "map">>, 0),
   Node("relay", r, r, {<<r, "map">>, <<"", "map">>},
        <<r, IF enable_compression THEN "map_compressed" ELSE "map">>, 10)}
  \cup (IF use_zenoh THEN Bridge(r, 12) ELSE {})

\* map_merge.launch.py
MapMergeLaunch(s) ==
  (UNION {Expansion(Laptop, r, <<r, "map">>, 0) : r \in Configured(s)})
  \cup Merger(s, Laptop, "", 2)

\* base_station.launch.py
BaseStation(s) ==
  (IF s.use_zenoh THEN Bridge(Laptop, 0) ELSE {})
  \cup (IF s.use_compression THEN Decompressor(Laptop, {"ausra_1", "ausra_2"}, "", 0) ELSE {})
  \cup MapMergeLaunch(s)

\* map_merge_hw.launch.py
MapMergeHardware(s) ==
  (UNION {Expansion(Laptop, r, <<r, "map_relay">>, 0) : r \in Configured(s)})
  \cup Merger(s, Laptop, "", 2)

\* decentralized_robot.launch.py
Decentralized(s, robot_name) ==
  HardwareWithComms(s, robot_name, TRUE, TRUE)
  \cup Decompressor(robot_name, Configured(s), robot_name, 14)
  \cup (UNION {Expansion(robot_name, r, <<IF r = robot_name THEN "" ELSE r, "map">>, 14) :
                 r \in Configured(s)})
  \cup Merger(s, robot_name, robot_name, 14)

\* fake_robot_pub.py: the same map again and again, from the laptop.
FakeRobot(r) == {Node("fake", Laptop, r, {}, <<r, "map">>, 0)}

OfRobot(s, r) ==
  CASE s.bringup[r] = "comms" -> HardwareWithComms(s, r, s.use_zenoh, s.enable_compression)
    [] s.bringup[r] = "decentralized" -> Decentralized(s, r)
    [] s.bringup[r] = "fake" -> FakeRobot(r)
    [] s.bringup[r] = "none" -> {}

OfLaptop(s) ==
  CASE s.base = "swarm" -> BaseStation(s)
    [] s.base = "hardware" -> MapMergeHardware(s)
    [] s.base = "none" -> {}

Nodes(s) ==
  (UNION {OfRobot(s, r) : r \in Robots}) \cup OfLaptop(s)

-----------------------------------------------------------------------------
VARIABLES
  setup,          \* fixed at start
  uptime,         \* of each machine: the last of the delays that has passed, -1 if it is off
  respawning,     \* the machines whose bridge has crashed
  ended,          \* the mergers that have dereferenced a null grid
  version,        \* of each robot: the version of its SLAM map
  out,            \* of each node: its last message
  kept,           \* of each node: the message before it, see Keeps
  handled,        \* of each node: the last message it has handled
  subscribed,     \* of each merger: the topics it has found
  held,           \* of each merger: the map it keeps of each topic
  mishaps,
  disordered      \* the robots whose maps a crashed bridge delivers again, or
                  \* that had a map overtaken (history)

vars == <<setup, uptime, respawning, ended, version, out, kept, handled, subscribed, held,
          mishaps, disordered>>
messages == <<out, kept, handled>>

NodesOf == [s \in Setups |-> Nodes(s)]
nodes == NodesOf[setup]
Mergers == {n \in nodes : n.kind = "merger"}

Init ==
  /\ setup \in Setups
  /\ uptime = [m \in Machines |-> -1]
  /\ respawning = {} /\ ended = {}
  /\ version = [r \in Robots |-> 0]
  /\ out = [n \in nodes |-> <<>>]
  /\ kept = out /\ handled = out
  /\ subscribed = [n \in Mergers |-> {}]
  /\ held = [n \in Mergers |-> [topic \in n.from |-> <<>>]]
  /\ mishaps = 0
  /\ disordered = {}

Running(n) ==
  /\ uptime[n.at] >= n.delay
  /\ n.kind = "bridge" => n.at \notin respawning
  /\ n \notin ended

\* With use_zenoh DDS stays on the machine, without it is one network.
SameGraph(m, other) == m = other \/ ~setup.use_zenoh

\* Relays and bridges keep two messages for late joiners; of SLAM's two the
\* queue of a relay that runs does.
Keeps(n) ==
  \/ n.kind \in {"relay", "bridge"}
  \/ /\ n.kind = "slam"
     /\ \E k \in nodes : k.kind = "relay" /\ k.at = n.at /\ Running(k)

\* The same message again tells no reader anything.
Emit(n, grid) ==
  /\ out' = [out EXCEPT ![n] = <<grid>>]
  /\ kept' = [kept EXCEPT ![n] = IF Keeps(n) /\ out[n] # <<grid>> THEN out[n] ELSE @]

\* What ends takes its messages, its subscriptions and its maps with it.
Ends(gone) ==
  /\ out' = [n \in nodes |-> IF n \in gone THEN <<>> ELSE out[n]]
  /\ kept' = [n \in nodes |-> IF n \in gone THEN <<>> ELSE kept[n]]
  /\ handled' = [n \in nodes |-> IF n \in gone THEN <<>> ELSE handled[n]]
  /\ subscribed' = [n \in Mergers |-> IF n \in gone THEN {} ELSE subscribed[n]]
  /\ held' = [n \in Mergers |-> IF n \in gone THEN [t \in n.from |-> <<>>] ELSE held[n]]

-----------------------------------------------------------------------------
(* Machines and bridges                                                    *)

DelaysOf(m) == {n.delay : n \in {k \in nodes : k.at = m}}

\* A launch begins, and its TimerActions fire one after the other.
TimerFires(m) ==
  LET later == {d \in DelaysOf(m) : d > uptime[m]}
  IN  /\ later # {}
      /\ uptime' = [uptime EXCEPT ![m] = CHOOSE d \in later : \A e \in later : d <= e]
      /\ UNCHANGED <<setup, respawning, ended, version, messages, subscribed, held, mishaps,
                     disordered>>

Mishap == mishaps < MaxMishaps /\ mishaps' = mishaps + 1

Dies(m) ==
  /\ uptime[m] >= 0 /\ Mishap
  /\ uptime' = [uptime EXCEPT ![m] = -1]
  /\ respawning' = respawning \ {m}
  /\ ended' = {n \in ended : n.at # m}
  /\ Ends({n \in nodes : n.at = m})
  /\ UNCHANGED <<setup, version, disordered>>

\* The bridges that the one of machine m is an end of.
Bridged(m) == {n \in nodes : n.kind = "bridge" /\ (n.at = m \/ n.robot = m)}

\* What it had put out is withdrawn at both ends, to be delivered again.
BridgeCrashes(m) ==
  /\ Mishap
  /\ \E n \in nodes : n.kind = "bridge" /\ n.at = m /\ Running(n)
  /\ respawning' = respawning \cup {m}
  /\ Ends(Bridged(m))
  /\ disordered' = disordered \cup {n.robot : n \in Bridged(m)}
  /\ UNCHANGED <<setup, uptime, ended, version>>

\* Mutant: respawn = False.
RespawnNever(m) == FALSE /\ UNCHANGED vars

\* respawn = True
Respawn(m) ==
  /\ m \in respawning
  /\ respawning' = respawning \ {m}
  /\ UNCHANGED <<setup, uptime, ended, version, messages, subscribed, held, mishaps,
                 disordered>>

-----------------------------------------------------------------------------
(* The nodes                                                               *)

machines == <<setup, uptime, respawning, ended, mishaps, disordered>>

\* SLAM publishes periodically, the version it has or the next.
SlamPublish(n) ==
  /\ n.kind = "slam" /\ Running(n)
  /\ \E v \in {version[n.robot], version[n.robot] + 1} :
       /\ v \in 1 .. Maps[n.robot]
       /\ version' = [version EXCEPT ![n.robot] = v]
       /\ Emit(n, {<<n.robot, v>>})
  /\ UNCHANGED <<machines, handled, subscribed, held>>

\* map_cb of fake_robot_pub.py: one and the same map.
FakePublish(n) ==
  /\ n.kind = "fake" /\ Running(n)
  /\ version' = [version EXCEPT ![n.robot] = 1]
  /\ Emit(n, {<<n.robot, 1>>})
  /\ UNCHANGED <<machines, handled, subscribed, held>>

\* Node n takes messages of p, published on topic on its machine.
Receives(n, p, topic) ==
  /\ Running(n)
  /\ p.to = topic /\ topic \in n.from
  /\ SameGraph(p.at, n.at)
  /\ out[p] # <<>>

\* Of p, n takes the last message; one that has sent nothing yet is given what
\* is kept for late joiners, the older message first.
Offered(n, p) == {out[p]} \cup (IF out[n] = <<>> /\ kept[p] # <<>> THEN {kept[p]} ELSE {})

Pass(n, message) ==
  /\ message # handled[n]
  /\ handled' = [handled EXCEPT ![n] = message]
  /\ Emit(n, message[1])
  /\ UNCHANGED <<machines, version, subscribed, held>>

\* Delta detection skips the map whose hash is the last one; a map that the
\* throttle drops is one that SLAM publishes again.
RelayPass(n, p) ==
  /\ n.kind = "relay" /\ Receives(n, p, p.to)
  /\ \E message \in Offered(n, p) : Pass(n, message)

DecompressorPass(n, p) ==
  /\ n.kind = "decompressor" /\ Receives(n, p, p.to)
  /\ \E message \in Offered(n, p) : Pass(n, message)

\* The callbacks of relay and decompressor are re-entrant: the one that took the
\* older of two maps, or the node's own last but one, sends it after the newer.
\* The hash a relay keeps is then that of either; its own map has passed the
\* test by changing it.
Overtake(n, p) ==
  /\ n.kind \in {"relay", "decompressor"} /\ Receives(n, p, p.to)
  /\ kept[p] # <<>> /\ (kept[n] # kept[p] \/ n = p)
  /\ out[n] = out[p] /\ handled[n] = out[p]
  /\ Mishap
  /\ \E last \in {out[p], kept[p]} :
       /\ n = p => last = kept[p]
       /\ n.kind = "decompressor" => last = out[p]
       /\ handled' = [handled EXCEPT ![n] = last]
  /\ Emit(n, kept[p][1])
  /\ disordered' = disordered \cup {n.robot}
  /\ UNCHANGED <<setup, uptime, respawning, ended, version, subscribed, held>>

\* A map replaces the canvas, and the next heartbeat broadcasts it.
ExpansionPass(n, p) ==
  n.kind = "expansion" /\ Receives(n, p, p.to) /\ Pass(n, out[p])

\* Before the first map the canvas is blank.
BlankHeartbeat(n) ==
  /\ n.kind = "expansion" /\ Running(n) /\ out[n] = <<>>
  /\ Emit(n, {})
  /\ UNCHANGED <<machines, handled, version, subscribed, held>>

\* From the machine of the publisher to that of the bridge n, through both
\* allow lists; a bridge does not take in what a bridge has put out.
BridgePass(n, p) ==
  /\ n.kind = "bridge" /\ Running(n)
  /\ p.kind # "bridge" /\ p.at # n.at /\ p.to \in n.from
  /\ p.to[2] \in AllowedOut(p.at)
  /\ \E b \in nodes : b.kind = "bridge" /\ b.at = p.at /\ Running(b)
  /\ out[p] # <<>>
  /\ \E message \in Offered(n, p) : Pass(n, message)

\* Mutant: every topic is taken for a robot's map.
DiscoverAll(n) ==
  /\ n.kind = "merger" /\ Running(n)
  /\ subscribed' = [subscribed EXCEPT ![n] = @ \cup
       {p.to : p \in {k \in nodes : Running(k) /\ SameGraph(k.at, n.at)}}]
  /\ UNCHANGED <<machines, messages, version, held>>

\* topicSubscribing: topics with a publisher, of robots with an init_pose.
Discover(n) ==
  /\ n.kind = "merger" /\ Running(n)
  /\ subscribed' = [subscribed EXCEPT ![n] = @ \cup
       {topic \in n.from : \E p \in nodes : p.to = topic /\ Running(p) /\ SameGraph(p.at, n.at)}]
  /\ UNCHANGED <<machines, messages, version, held>>

FullMapUpdate(n, p) ==
  /\ n.kind = "merger" /\ Receives(n, p, p.to)
  /\ p.to \in subscribed[n]
  /\ held' = [held EXCEPT ![n][p.to] = out[p]]
  /\ UNCHANGED <<machines, messages, version, subscribed>>

\* The topics whose map is drawn.
Drawn(n) == {topic \in n.from : held[n][topic] # <<>>}

\* mapMerging: nothing is published while no map is held.
MapMerging(n) ==
  /\ n.kind = "merger" /\ Running(n)
  /\ Drawn(n) # {}
  /\ Emit(n, UNION {held[n][topic][1] : topic \in Drawn(n)})
  /\ UNCHANGED <<machines, handled, version, subscribed, held>>

\* All poses are the identity, so the first topic of the list is the reference:
\* if it is one without a map yet, its null grid ends the process, for good.
\* Which of the topics is the first is not kept here.
NullGrid(n) ==
  /\ n.kind = "merger" /\ Running(n)
  /\ Drawn(n) # {} /\ ~(subscribed[n] \subseteq Drawn(n))
  /\ ended' = ended \cup {n}
  /\ Ends({n})
  /\ UNCHANGED <<setup, uptime, respawning, version, mishaps, disordered>>

-----------------------------------------------------------------------------
Delivery ==
  \E n \in nodes : \E p \in {k \in nodes : k.to \in n.from} :
    \/ RelayPass(n, p) \/ DecompressorPass(n, p) \/ ExpansionPass(n, p)
    \/ BridgePass(n, p) \/ FullMapUpdate(n, p)

Timer == \E n \in nodes : SlamPublish(n) \/ FakePublish(n) \/ BlankHeartbeat(n)
                            \/ Discover(n) \/ MapMerging(n)

Overtaking == \E n \in nodes : \E p \in {k \in nodes : k.to \in n.from} : Overtake(n, p)

Next ==
  \/ \E m \in Machines : TimerFires(m) \/ Respawn(m) \/ Dies(m) \/ BridgeCrashes(m)
  \/ Timer \/ Delivery \/ Overtaking
  \/ \E n \in nodes : NullGrid(n)

\* The machines go on, a bridge that crashed respawns, and messages and timers
\* are handled: while one of these steps can be taken, some step is.
Fairness ==
  WF_vars(Timer \/ Delivery \/ \E m \in Machines : TimerFires(m) \/ Respawn(m))

Spec == Init /\ [][Next]_vars

FairSpec == Spec /\ Fairness

-----------------------------------------------------------------------------
(* Properties                                                              *)

MapsOf(r) == {r} \X (1 .. Maps[r])

AllMaps == UNION {MapsOf(r) : r \in Robots}

TypeOK ==
  /\ setup \in Setups
  /\ uptime \in [Machines -> Delays \cup {-1}]
  /\ respawning \subseteq Machines /\ ended \subseteq Mergers
  /\ version \in [Robots -> Nat]
  /\ mishaps \in 0 .. MaxMishaps
  /\ disordered \subseteq Robots
  /\ \A n \in nodes : \A message \in {out[n], kept[n], handled[n]} :
       message # <<>> => message[1] \subseteq AllMaps
  /\ \A n \in Mergers : subscribed[n] \subseteq n.from

\* Whatever goes round between the machines, what a node publishes in the name
\* of one robot (its compressed map, its restored map, its canvas) shows maps
\* of that robot only: the relays do not pick up other robots' maps, and no
\* canvas is placed by another robot's offset.
OnlyItsRobot ==
  \A n \in nodes : n.kind # "merger" /\ out[n] # <<>> => out[n][1] \subseteq MapsOf(n.robot)

\* A topic of a node that runs on never loses a robot, and goes back to an older
\* map of it for two reasons only: a bridge that crashed delivers again the two
\* maps that are kept, or a map was overtaken between re-entrant callbacks.
\* Nothing else makes one go back: no machine that dies or reboots, nor a late
\* joiner that is given an older map first, nor a relay that hears on its own
\* topic what it sent itself.
NothingGoesBack ==
  [][\A n \in nodes : \A x \in UNION ToSet(out[n]) :
       out'[n] # <<>> =>
         \E y \in out'[n][1] : y[1] = x[1] /\ (y[2] >= x[2] \/ x[1] \in disordered')]_vars

\* What the documents promise on a machine that merges: the maps of the robots
\* in its configuration that are brought up, compressed or not.
Expected(r) == r \in Configured(setup) /\ setup.bringup[r] # "none"

\* On the way of robot r to machine m an older map was sent last, and its relay
\* or decompressor will not send the newer again.
Overtaken(r, m) ==
  \E n \in nodes :
    /\ n.robot = r
    /\ n.kind = "relay" \/ (n.kind = "decompressor" /\ n.at = m)
    /\ handled[n] # out[n]

\* In the end every merged map shows the last map of every robot in its
\* configuration, and of no other: in whatever order the machines came up, died
\* and came up again, although bridges crashed and delivered older maps again.
\* Excepted are a map that was overtaken and a merger that a null grid ended.
ShowsWhatIsExpected ==
  <>[](\A n \in Mergers \ ended :
         /\ out[n] # <<>>
         /\ {x \in out[n][1] : ~Overtaken(x[1], n.at)} =
              {<<r, version[r]>> : r \in {q \in Robots : /\ Expected(q) /\ version[q] > 0
                                                       /\ ~Overtaken(q, n.at)}})
=============================================================================
