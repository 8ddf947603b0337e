-------------------------- MODULE DeploymentProofs --------------------------
(***************************************************************************)
(* What holds of the set-ups of the launch files for every number of       *)
(* robots, of maps and of mishaps.                                         *)
(***************************************************************************)
EXTENDS Deployment, TLAPS

\* The robots that run SLAM and a relay.
OnBoard(s) == {r \in Robots : s.bringup[r] \in {"comms", "decentralized"}}

\* A set-up is kept apart if every merger on a robot gets its parameters, and
\* no two robots share a root namespace that SLAM publishes in.
KeptApart(s) ==
  /\ s.params_node = "/**/map_merge" \/ \A r \in Robots : s.bringup[r] # "decentralized"
  /\ s.use_zenoh \/ s.slam_in_namespace \/ \A r, q \in OnBoard(s) : r = q

-----------------------------------------------------------------------------
(* The graphs of the launch files                                          *)

\* A topic that carries the maps of robot r on machine m.
Carries(topic, r, m, s) ==
  /\ topic[2] # "map_merged"
  /\ topic[1] = r \/ (topic[1] = "" /\ r = m /\ r \in OnBoard(s))

\* Every node is for a robot, whose topics it reads and writes; what a node
\* other than SLAM writes is in the namespace of the robot; mergers write
\* elsewhere.
Shaped(n, s) ==
  /\ n.kind = "merger" => n.to[2] = "map_merged"
  /\ n.kind # "merger" =>
       /\ n.robot \in Robots
       /\ \A topic \in n.from : Carries(topic, n.robot, n.at, s)
       /\ Carries(n.to, n.robot, n.at, s)
       /\ n.to[1] = "" => n.to[2] = "map" /\ ~s.slam_in_namespace

LEMMA NodeFields ==
  ASSUME NEW kind, NEW at, NEW robot, NEW from, NEW to, NEW delay,
         NEW n, n = Node(kind, at, robot, from, to, delay)
  PROVE  n.kind = kind /\ n.at = at /\ n.robot = robot /\ n.from = from /\ n.to = to
BY DEF Node

LEMMA TopicFields == \A namespace, base :
  <<namespace, base>>[1] = namespace /\ <<namespace, base>>[2] = base
OBVIOUS

LEMMA BridgeShaped ==
  ASSUME NEW s, NEW m, NEW delay, NEW n \in Bridge(m, delay)
  PROVE  Shaped(n, s)
<1>1. PICK r \in Robots : \E base \in AllowedIn(m) :
        n = Node("bridge", m, r, {<<r, base>>}, <<r, base>>, delay)
  BY DEF Bridge, Node
<1>2. PICK base \in AllowedIn(m) :
        n = Node("bridge", m, r, {<<r, base>>}, <<r, base>>, delay)
  BY <1>1
<1>3. /\ n.kind = "bridge" /\ n.at = m /\ n.robot = r
      /\ n.from = {<<r, base>>} /\ n.to = <<r, base>>
  BY <1>2, NodeFields
<1>4. r # "" /\ base # "map_merged"
  BY DeploymentAssumption DEF AllowedIn
<1>5. Carries(<<r, base>>, r, m, s) /\ <<r, base>>[1] # ""
  BY <1>4, TopicFields DEF Carries
<1>. QED
  BY <1>3, <1>5 DEF Shaped

LEMMA DecompressorShaped ==
  ASSUME NEW s, NEW m, NEW robots \in SUBSET Robots, NEW ignore, NEW delay,
         NEW n \in Decompressor(m, robots, ignore, delay)
  PROVE  Shaped(n, s)
<1>1. PICK r \in Robots :
        n = Node("decompressor", m, r, {<<r, "map_compressed">>}, <<r, "map">>, delay)
  BY DEF Decompressor, Node
<1>2. /\ n.kind = "decompressor" /\ n.at = m /\ n.robot = r
      /\ n.from = {<<r, "map_compressed">>} /\ n.to = <<r, "map">>
  BY <1>1, NodeFields
<1>3. r # ""
  BY DeploymentAssumption
<1>4. /\ Carries(<<r, "map_compressed">>, r, m, s) /\ Carries(<<r, "map">>, r, m, s)
      /\ <<r, "map">>[1] # ""
  BY <1>3, TopicFields DEF Carries
<1>. QED
  BY <1>2, <1>4 DEF Shaped

LEMMA ExpansionShaped ==
  ASSUME NEW s, NEW m, NEW r \in Robots, NEW topic, Carries(topic, r, m, s), NEW delay,
         NEW n \in Expansion(m, r, topic, delay)
  PROVE  Shaped(n, s)
<1>1. n = Node("expansion", m, r, {topic}, <<r, "map_fixed">>, delay)
  BY DEF Expansion
<1>2. /\ n.kind = "expansion" /\ n.at = m /\ n.robot = r
      /\ n.from = {topic} /\ n.to = <<r, "map_fixed">>
  BY <1>1, NodeFields
<1>3. Carries(<<r, "map_fixed">>, r, m, s) /\ <<r, "map_fixed">>[1] # ""
  BY DeploymentAssumption, TopicFields DEF Carries
<1>. QED
  BY <1>2, <1>3 DEF Shaped

\* A merger that gets its parameters publishes where no other node listens.
LEMMA MergerShaped ==
  ASSUME NEW s, NEW m, NEW namespace, ParamsApply(s, namespace), NEW delay,
         NEW n \in Merger(s, m, namespace, delay)
  PROVE  Shaped(n, s)
<1>1. n.kind = "merger" /\ n.to = MergedTopic(s, namespace)
  BY DEF Merger, Node
<1>2. PICK space : MergedTopic(s, namespace) = <<space, "map_merged">>
  <2>1. CASE s.merged_map_topic = "/map_merged"
    BY <2>1 DEF MergedTopic
  <2>2. CASE s.merged_map_topic # "/map_merged"
    BY <2>2 DEF MergedTopic
  <2>. QED
    BY <2>1, <2>2
<1>3. n.to[2] = "map_merged"
  BY <1>1, <1>2, TopicFields
<1>. QED
  BY <1>1, <1>3 DEF Shaped

LEMMA HardwareShaped ==
  ASSUME NEW s, NEW r \in OnBoard(s), NEW use_zenoh, NEW enable_compression,
         NEW n \in HardwareWithComms(s, r, use_zenoh, enable_compression)
  PROVE  Shaped(n, s)
<1>. DEFINE space == IF s.slam_in_namespace THEN r ELSE ""
            base == IF enable_compression THEN "map_compressed" ELSE "map"
<1>1. r \in Robots /\ "" \notin Robots /\ r # ""
  BY DeploymentAssumption DEF OnBoard
<1>2. \/ n = Node("slam", r, r, {}, <<space, "map">>, 0)
      \/ n = Node("relay", r, r, {<<r, "map">>, <<"", "map">>}, <<r, base>>, 10)
      \/ n \in Bridge(r, 12)
  BY DEF HardwareWithComms
<1>3. base # "map_merged" /\ (space = r \/ (space = "" /\ ~s.slam_in_namespace))
  OBVIOUS
<1>. HIDE DEF space, base
<1>4. CASE n = Node("slam", r, r, {}, <<space, "map">>, 0)
  <2>1. /\ n.kind = "slam" /\ n.at = r /\ n.robot = r
        /\ n.from = {} /\ n.to = <<space, "map">>
    BY <1>4, NodeFields
  <2>2. Carries(<<space, "map">>, r, r, s)
        /\ <<space, "map">>[2] = "map"
        /\ (<<space, "map">>[1] = "" => ~s.slam_in_namespace)
    BY <1>1, <1>3, TopicFields DEF Carries
  <2>. QED
    BY <1>1, <2>1, <2>2 DEF Shaped
<1>5. CASE n = Node("relay", r, r, {<<r, "map">>, <<"", "map">>}, <<r, base>>, 10)
  <2>. DEFINE heard == {<<r, "map">>, <<"", "map">>}
  <2>. HIDE DEF heard
  <2>1. /\ n.kind = "relay" /\ n.at = r /\ n.robot = r
        /\ n.from = heard /\ n.to = <<r, base>>
    BY <1>5 DEF Node, heard
  <2>2. /\ Carries(<<r, "map">>, r, r, s) /\ Carries(<<"", "map">>, r, r, s)
        /\ Carries(<<r, base>>, r, r, s) /\ <<r, base>>[1] # ""
    BY <1>1, <1>3, TopicFields DEF Carries
  <2>. QED
    BY <1>1, <2>1, <2>2 DEF Shaped, heard
<1>6. CASE n \in Bridge(r, 12)
  BY <1>6, BridgeShaped
<1>. QED
  BY <1>2, <1>4, <1>5, <1>6

LEMMA ConfiguredAreRobots ==
  ASSUME NEW s \in Setup PROVE Configured(s) \subseteq Robots
<1>. DEFINE Entry == [name : Robots, valid : BOOLEAN]
<1>1. s.robot_config \in Seq(Entry)
  BY DEF Setup
<1>2. \A e \in Entry : e.name \in Robots
  OBVIOUS
<1>. HIDE DEF Entry
<1>3. \A i \in DOMAIN s.robot_config : s.robot_config[i] \in Entry
  BY <1>1
<1>4. \A e \in ToSet(s.robot_config) : e \in Entry
  BY <1>3 DEF ToSet
<1>. QED
  BY <1>2, <1>4 DEF Configured

LEMMA DecentralizedShaped ==
  ASSUME NEW s \in Setup, NEW r \in OnBoard(s), ParamsApply(s, r),
         NEW n \in Decentralized(s, r)
  PROVE  Shaped(n, s)
<1>. DEFINE Input(q) == <<IF q = r THEN "" ELSE q, "map">>
<1>1. CASE n \in HardwareWithComms(s, r, TRUE, TRUE)
  BY <1>1, HardwareShaped
<1>2. CASE n \in Decompressor(r, Configured(s), r, 14)
  BY <1>2, DecompressorShaped, ConfiguredAreRobots
<1>3. ASSUME NEW q \in Configured(s), n \in Expansion(r, q, Input(q), 14)
      PROVE  Shaped(n, s)
  <2>1. Carries(Input(q), q, r, s)
    BY TopicFields DEF Carries
  <2>. QED
    BY <1>3, <2>1, ExpansionShaped, ConfiguredAreRobots
<1>4. CASE n \in Merger(s, r, r, 14)
  BY <1>4, MergerShaped
<1>5. CASE n \in UNION {Expansion(r, q, Input(q), 14) : q \in Configured(s)}
  <2>1. PICK q \in Configured(s) : n \in Expansion(r, q, Input(q), 14)
    BY <1>5
  <2>. QED
    BY <1>3, <2>1
<1>. QED
  BY <1>1, <1>2, <1>4, <1>5 DEF Decentralized

LEMMA MapMergeShaped ==
  ASSUME NEW s \in Setup, NEW base \in {"map", "map_relay"},
         NEW n \in (UNION {Expansion(Laptop, r, <<r, base>>, 0) : r \in Configured(s)})
                   \cup Merger(s, Laptop, "", 2)
  PROVE  Shaped(n, s)
<1>1. ASSUME NEW r \in Configured(s), n \in Expansion(Laptop, r, <<r, base>>, 0)
      PROVE  Shaped(n, s)
  <2>1. Carries(<<r, base>>, r, Laptop, s)
    BY TopicFields DEF Carries
  <2>. QED
    BY <1>1, <2>1, ExpansionShaped, ConfiguredAreRobots
<1>2. CASE n \in Merger(s, Laptop, "", 2)
  <2>1. ParamsApply(s, "")
    BY DEF ParamsApply
  <2>. QED
    BY <1>2, <2>1, MergerShaped
<1>3. CASE n \in UNION {Expansion(Laptop, r, <<r, base>>, 0) : r \in Configured(s)}
  <2>1. PICK r \in Configured(s) : n \in Expansion(Laptop, r, <<r, base>>, 0)
    BY <1>3
  <2>. QED
    BY <1>1, <2>1
<1>. QED
  BY <1>2, <1>3

LEMMA FakeShaped ==
  ASSUME NEW s, NEW r \in Robots, NEW n \in FakeRobot(r)
  PROVE  Shaped(n, s)
<1>1. /\ n.kind = "fake" /\ n.at = Laptop /\ n.robot = r
      /\ n.from = {} /\ n.to = <<r, "map">>
  BY DEF FakeRobot, Node
<1>2. Carries(<<r, "map">>, r, Laptop, s) /\ <<r, "map">>[1] # ""
  BY DeploymentAssumption, TopicFields DEF Carries
<1>. QED
  BY <1>1, <1>2 DEF Shaped

LEMMA NodesShaped ==
  ASSUME NEW s \in Setup, KeptApart(s),
         NEW n \in Nodes(s)
  PROVE  Shaped(n, s)
<1>1. ASSUME NEW r \in Robots, n \in OfRobot(s, r)
      PROVE  Shaped(n, s)
  <2>1. s.bringup[r] \in {"comms", "decentralized", "fake", "none"}
    BY DEF Setup
  <2>2. CASE s.bringup[r] = "comms"
    BY <1>1, <2>2, HardwareShaped DEF OfRobot, OnBoard
  <2>3. CASE s.bringup[r] = "decentralized"
    <3>1. ParamsApply(s, r)
      BY <2>3 DEF KeptApart, ParamsApply
    <3>. QED
      BY <1>1, <2>3, <3>1, DecentralizedShaped DEF OfRobot, OnBoard
  <2>4. CASE s.bringup[r] = "fake"
    BY <1>1, <2>4, FakeShaped DEF OfRobot
  <2>5. CASE s.bringup[r] = "none"
    BY <1>1, <2>5 DEF OfRobot
  <2>. QED
    BY <2>1, <2>2, <2>3, <2>4, <2>5
<1>2. ASSUME n \in MapMergeLaunch(s)
      PROVE  Shaped(n, s)
  BY <1>2, MapMergeShaped DEF MapMergeLaunch
<1>3. ASSUME n \in OfLaptop(s)
      PROVE  Shaped(n, s)
  <2>1. s.base \in {"swarm", "hardware", "none"}
    BY DEF Setup
  <2>2. CASE s.base = "swarm"
    <3>1. n \in BaseStation(s)
      BY <1>3, <2>2 DEF OfLaptop
    <3>2. \/ n \in Bridge(Laptop, 0)
          \/ n \in Decompressor(Laptop, {"ausra_1", "ausra_2"}, "", 0)
          \/ n \in MapMergeLaunch(s)
      BY <3>1 DEF BaseStation
    <3>. QED
      BY <1>2, <3>2, BridgeShaped, DecompressorShaped, DeploymentAssumption
  <2>3. CASE s.base = "hardware"
    BY <1>3, <2>3, MapMergeShaped DEF OfLaptop, MapMergeHardware
  <2>4. CASE s.base = "none"
    BY <1>3, <2>4 DEF OfLaptop
  <2>. QED
    BY <2>1, <2>2, <2>3, <2>4
<1>4. CASE n \in (UNION {OfRobot(s, r) : r \in Robots})
  <2>1. PICK r \in Robots : n \in OfRobot(s, r)
    BY <1>4
  <2>. QED
    BY <1>1, <2>1
<1>. QED
  BY <1>3, <1>4 DEF Nodes

-----------------------------------------------------------------------------
(* The steps                                                               *)

\* OnlyItsRobot with what it rests on: set-ups that are kept apart, and that
\* the messages kept for late joiners show no other robot either.
EachItsOwn ==
  /\ setup \in Setups /\ KeptApart(setup)
  /\ DOMAIN out = nodes /\ DOMAIN kept = nodes
  /\ OnlyItsRobot
  /\ \A n \in nodes : n.kind # "merger" /\ kept[n] # <<>> => kept[n][1] \subseteq MapsOf(n.robot)

LEMMA TheNodes ==
  ASSUME setup \in Setups, KeptApart(setup)
  PROVE  \A n \in nodes : Shaped(n, setup)
BY NodesShaped, DeploymentAssumption DEF nodes, NodesOf

\* What a node takes in the name of a robot was put out in its name.
LEMMA HearsItsRobot ==
  ASSUME EachItsOwn, NEW n \in nodes, NEW p \in nodes, n.kind # "merger",
         p.to \in n.from, SameGraph(p.at, n.at) \/ p.to[1] # ""
  PROVE  p.kind # "merger" /\ p.robot = n.robot
<1>1. Shaped(n, setup) /\ Shaped(p, setup)
  BY TheNodes DEF EachItsOwn
<1>2. n.robot \in Robots /\ Carries(p.to, n.robot, n.at, setup)
  BY <1>1 DEF Shaped
<1>3. p.kind # "merger"
  BY <1>1, <1>2 DEF Shaped, Carries
<1>4. /\ p.robot \in Robots /\ Carries(p.to, p.robot, p.at, setup)
      /\ p.to[1] = "" => ~setup.slam_in_namespace
  BY <1>1, <1>3 DEF Shaped
<1>5. n.robot # "" /\ p.robot # ""
  BY <1>2, <1>4, DeploymentAssumption
<1>6. CASE p.to[1] # ""
  BY <1>2, <1>3, <1>4, <1>6 DEF Carries
<1>7. CASE p.to[1] = ""
  <2>1. /\ n.robot = n.at /\ n.robot \in OnBoard(setup)
        /\ p.robot = p.at /\ p.robot \in OnBoard(setup)
    BY <1>2, <1>4, <1>5, <1>7 DEF Carries
  <2>2. p.at = n.at \/ ~setup.use_zenoh
    BY <1>7 DEF SameGraph
  <2>. QED
    BY <1>3, <1>4, <1>7, <2>1, <2>2 DEF EachItsOwn, KeptApart
<1>. QED
  BY <1>6, <1>7

LEMMA NodesStay ==
  ASSUME setup' = setup PROVE nodes' = nodes
BY DEF nodes, NodesOf

LEMMA EmitKeeps ==
  ASSUME EachItsOwn, setup' = setup, NEW n \in nodes, NEW grid, Emit(n, grid),
         n.kind # "merger" => grid \subseteq MapsOf(n.robot)
  PROVE  EachItsOwn'
<1>1. nodes' = nodes
  BY NodesStay
<1>2. /\ out' = [out EXCEPT ![n] = <<grid>>] /\ DOMAIN out = nodes
      /\ DOMAIN kept = nodes
      /\ kept' = [kept EXCEPT ![n] = IF Keeps(n) /\ out[n] # <<grid>> THEN out[n] ELSE kept[n]]
  BY DEF Emit, EachItsOwn
<1>3. /\ out'[n] = <<grid>> /\ \A k \in nodes \ {n} : out'[k] = out[k]
      /\ kept'[n] = out[n] \/ kept'[n] = kept[n]
      /\ \A k \in nodes \ {n} : kept'[k] = kept[k]
  BY <1>2
<1>4. <<grid>>[1] = grid
  OBVIOUS
<1>5. ASSUME NEW k \in nodes, k.kind # "merger", out'[k] # <<>>
      PROVE  out'[k][1] \subseteq MapsOf(k.robot)
  <2>1. CASE k = n
    BY <1>3, <1>4, <1>5, <2>1
  <2>2. CASE k # n
    BY <1>3, <1>5, <2>2 DEF EachItsOwn, OnlyItsRobot
  <2>. QED
    BY <2>1, <2>2
<1>6. ASSUME NEW k \in nodes, k.kind # "merger", kept'[k] # <<>>
      PROVE  kept'[k][1] \subseteq MapsOf(k.robot)
  <2>1. kept'[k] = kept[k] \/ kept'[k] = out[k]
    BY <1>3
  <2>. QED
    BY <1>6, <2>1 DEF EachItsOwn, OnlyItsRobot
<1>7. OnlyItsRobot'
  BY <1>1, <1>5 DEF OnlyItsRobot, MapsOf
<1>8. DOMAIN out' = nodes' /\ DOMAIN kept' = nodes'
  BY <1>1, <1>2
<1>9. (setup \in Setups /\ KeptApart(setup))'
  BY DEF EachItsOwn, KeptApart
<1>10. (\A k \in nodes : k.kind # "merger" /\ kept[k] # <<>> => kept[k][1] \subseteq MapsOf(k.robot))'
  BY <1>1, <1>6 DEF MapsOf
<1>. QED
  BY <1>7, <1>8, <1>9, <1>10 DEF EachItsOwn

LEMMA EndKeeps ==
  ASSUME EachItsOwn, setup' = setup, NEW gone, Ends(gone)
  PROVE  EachItsOwn'
<1>1. nodes' = nodes
  BY NodesStay
<1>2. /\ \A k \in nodes : out'[k] = <<>> \/ out'[k] = out[k]
      /\ \A k \in nodes : kept'[k] = <<>> \/ kept'[k] = kept[k]
  BY DEF Ends
<1>3. OnlyItsRobot'
  BY <1>1, <1>2 DEF EachItsOwn, OnlyItsRobot, MapsOf
<1>4. DOMAIN out' = nodes' /\ DOMAIN kept' = nodes'
  BY <1>1 DEF Ends
<1>5. (setup \in Setups /\ KeptApart(setup))'
  BY DEF EachItsOwn, KeptApart
<1>6. (\A k \in nodes : k.kind # "merger" /\ kept[k] # <<>> => kept[k][1] \subseteq MapsOf(k.robot))'
  BY <1>1, <1>2 DEF EachItsOwn, MapsOf
<1>. QED
  BY <1>3, <1>4, <1>5, <1>6 DEF EachItsOwn

LEMMA UnchangedKeeps ==
  ASSUME EachItsOwn, setup' = setup, out' = out, kept' = kept
  PROVE  EachItsOwn'
<1>1. nodes' = nodes
  BY NodesStay
<1>. QED
  BY <1>1 DEF EachItsOwn, OnlyItsRobot, MapsOf, KeptApart

\* The last message of p, or the one kept before it.
LEMMA PassKeeps ==
  ASSUME EachItsOwn, NEW n \in nodes, NEW p \in nodes, n.kind # "merger", p.to \in n.from,
         SameGraph(p.at, n.at) \/ p.to[1] # "", out[p] # <<>>,
         NEW message \in Offered(n, p), Pass(n, message)
  PROVE  EachItsOwn'
<1>1. p.kind # "merger" /\ p.robot = n.robot
  BY HearsItsRobot
<1>2. message # <<>> /\ (message = out[p] \/ message = kept[p])
  BY DEF Offered
<1>3. message[1] \subseteq MapsOf(n.robot)
  BY <1>1, <1>2 DEF EachItsOwn, OnlyItsRobot
<1>4. setup' = setup /\ Emit(n, message[1])
  BY DEF Pass, machines
<1>. QED
  BY <1>3, <1>4, EmitKeeps

LEMMA OvertakeKeeps ==
  ASSUME EachItsOwn, NEW n \in nodes, NEW p \in nodes, p.to \in n.from, Overtake(n, p)
  PROVE  EachItsOwn'
<1>1. /\ n.kind # "merger" /\ SameGraph(p.at, n.at) /\ kept[p] # <<>>
      /\ setup' = setup /\ Emit(n, kept[p][1])
  BY DEF Overtake, Receives
<1>2. p.kind # "merger" /\ p.robot = n.robot
  BY <1>1, HearsItsRobot
<1>3. kept[p][1] \subseteq MapsOf(n.robot)
  BY <1>1, <1>2 DEF EachItsOwn
<1>. QED
  BY <1>1, <1>3, EmitKeeps

\* Bridges let no topic of the root namespace out.
LEMMA AllowedOutIsNamespaced ==
  ASSUME EachItsOwn, NEW p \in nodes, p.to[2] \in AllowedOut(p.at)
  PROVE  p.to[1] # ""
<1>1. Shaped(p, setup)
  BY TheNodes DEF EachItsOwn
<1>2. p.to[2] = "map_compressed"
  BY DEF AllowedOut
<1>. QED
  BY <1>1, <1>2 DEF Shaped

LEMMA DeliveryKeeps ==
  ASSUME EachItsOwn, Delivery
  PROVE  EachItsOwn'
<1>. PICK n \in nodes : \E p \in {k \in nodes : k.to \in n.from} :
       \/ RelayPass(n, p) \/ DecompressorPass(n, p) \/ ExpansionPass(n, p)
       \/ BridgePass(n, p) \/ FullMapUpdate(n, p)
  BY DEF Delivery
<1>. PICK p \in nodes :
       /\ p.to \in n.from
       /\ \/ RelayPass(n, p) \/ DecompressorPass(n, p) \/ ExpansionPass(n, p)
          \/ BridgePass(n, p) \/ FullMapUpdate(n, p)
  OBVIOUS
<1>1. CASE RelayPass(n, p)
  BY <1>1, PassKeeps DEF RelayPass, Receives
<1>2. CASE DecompressorPass(n, p)
  BY <1>2, PassKeeps DEF DecompressorPass, Receives
<1>3. CASE ExpansionPass(n, p)
  BY <1>3, PassKeeps DEF ExpansionPass, Receives, Offered
<1>4. CASE BridgePass(n, p)
  BY <1>4, AllowedOutIsNamespaced, PassKeeps DEF BridgePass
<1>5. CASE FullMapUpdate(n, p)
  <2>1. setup' = setup /\ out' = out /\ kept' = kept
    BY <1>5 DEF FullMapUpdate, machines, messages
  <2>. QED
    BY <2>1, UnchangedKeeps
<1>. QED
  BY <1>1, <1>2, <1>3, <1>4, <1>5

LEMMA TimerKeeps ==
  ASSUME EachItsOwn, Timer
  PROVE  EachItsOwn'
<1>. PICK n \in nodes : \/ SlamPublish(n) \/ FakePublish(n) \/ BlankHeartbeat(n)
                        \/ Discover(n) \/ MapMerging(n)
  BY DEF Timer
<1>. Maps \in [Robots -> Nat \ {0}]
  BY DeploymentAssumption
<1>. n.kind # "merger" => n.robot \in Robots
  BY TheNodes DEF EachItsOwn, Shaped
<1>1. CASE SlamPublish(n)
  <2>1. PICK v \in 1 .. Maps[n.robot] : Emit(n, {<<n.robot, v>>})
    BY <1>1 DEF SlamPublish
  <2>2. {<<n.robot, v>>} \subseteq MapsOf(n.robot)
    BY DEF MapsOf
  <2>. QED
    BY <1>1, <2>1, <2>2, EmitKeeps DEF SlamPublish, machines
<1>2. CASE FakePublish(n)
  <2>1. n.robot \in Robots
    BY <1>2 DEF FakePublish
  <2>2. {<<n.robot, 1>>} \subseteq MapsOf(n.robot)
    BY <2>1 DEF MapsOf
  <2>. QED
    BY <1>2, <2>2, EmitKeeps DEF FakePublish, machines
<1>3. CASE BlankHeartbeat(n)
  BY <1>3, EmitKeeps DEF BlankHeartbeat, machines
<1>4. CASE Discover(n)
  <2>1. setup' = setup /\ out' = out /\ kept' = kept
    BY <1>4 DEF Discover, machines, messages
  <2>. QED
    BY <2>1, UnchangedKeeps
<1>5. CASE MapMerging(n)
  BY <1>5, EmitKeeps DEF MapMerging, machines
<1>. QED
  BY <1>1, <1>2, <1>3, <1>4, <1>5

LEMMA MachinesKeep ==
  ASSUME EachItsOwn, NEW m \in Machines,
         TimerFires(m) \/ Respawn(m) \/ Dies(m) \/ BridgeCrashes(m)
  PROVE  EachItsOwn'
<1>1. CASE TimerFires(m) \/ Respawn(m)
  <2>1. setup' = setup /\ out' = out /\ kept' = kept
    BY <1>1 DEF TimerFires, Respawn, messages
  <2>. QED
    BY <2>1, UnchangedKeeps
<1>2. CASE Dies(m)
  BY <1>2, EndKeeps DEF Dies
<1>3. CASE BridgeCrashes(m)
  BY <1>3, EndKeeps DEF BridgeCrashes
<1>. QED
  BY <1>1, <1>2, <1>3

-----------------------------------------------------------------------------
(* The theorems                                                            *)

\* Set-ups that are kept apart stay so, through every delivery, timer, reboot
\* and crash.
THEOREM Invariance ==
  ASSUME \A s \in Setups : KeptApart(s)
  PROVE  Spec => []EachItsOwn
<1>1. Init => EachItsOwn
  BY DEF Init, EachItsOwn, OnlyItsRobot
<1>2. EachItsOwn /\ [Next]_vars => EachItsOwn'
  <2>. SUFFICES ASSUME EachItsOwn, [Next]_vars
                PROVE  EachItsOwn'
    OBVIOUS
  <2>1. ASSUME NEW m \in Machines,
               TimerFires(m) \/ Respawn(m) \/ Dies(m) \/ BridgeCrashes(m)
        PROVE  EachItsOwn'
    BY <2>1, MachinesKeep
  <2>2. CASE Timer
    BY <2>2, TimerKeeps
  <2>3. CASE Delivery
    BY <2>3, DeliveryKeeps
  <2>4. CASE UNCHANGED vars
    BY <2>4, UnchangedKeeps DEF vars, messages
  <2>5. CASE Overtaking
    BY <2>5, OvertakeKeeps DEF Overtaking
  <2>6. ASSUME NEW n \in nodes, NullGrid(n)
        PROVE  EachItsOwn'
    BY <2>6, EndKeeps DEF NullGrid
  <2>. QED
    BY <2>1, <2>2, <2>3, <2>4, <2>5, <2>6 DEF Next
<1>. QED
  BY <1>1, <1>2, PTL DEF Spec

\* OnlyItsRobot, of every fleet whose mergers get their parameters and whose
\* machines do not share a root namespace that SLAM publishes in.
THEOREM RobotsKeptApart ==
  ASSUME \A s \in Setups : KeptApart(s)
  PROVE  Spec => []OnlyItsRobot
<1>1. EachItsOwn => OnlyItsRobot
  BY DEF EachItsOwn
<1>. QED
  BY <1>1, Invariance, PTL
=============================================================================
