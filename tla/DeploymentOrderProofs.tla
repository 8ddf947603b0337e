----------------------- MODULE DeploymentOrderProofs -----------------------
(***************************************************************************)
(* The types of Deployment for every set-up, and that in those where each  *)
(* node has one way to hear a robot no topic goes back to an older map but *)
(* for a crashed bridge or an overtaken callback.                          *)
(***************************************************************************)
EXTENDS DeploymentProofs

-----------------------------------------------------------------------------
(* The nodes of a set-up, each determined by its kind, machine and robot   *)

SlamTopic(s, r) == <<IF s.slam_in_namespace THEN r ELSE "", "map">>

SlamOf(s, r) == Node("slam", r, r, {}, SlamTopic(s, r), 0)

Compresses(s, r) == s.enable_compression \/ s.bringup[r] = "decentralized"

RelayTopic(s, r) == <<r, IF Compresses(s, r) THEN "map_compressed" ELSE "map">>

RelayInput(r) == {<<r, "map">>, <<"", "map">>}

RelayOf(s, r) == Node("relay", r, r, RelayInput(r), RelayTopic(s, r), 10)

FakeOf(r) == Node("fake", Laptop, r, {}, <<r, "map">>, 0)

BridgeOf(m, r) ==
  Node("bridge", m, r, {<<r, "map_compressed">>}, <<r, "map_compressed">>,
       IF m = Laptop THEN 0 ELSE 12)

DecompressorOf(m, r) ==
  Node("decompressor", m, r, {<<r, "map_compressed">>}, <<r, "map">>,
       IF m = Laptop THEN 0 ELSE 14)

\* What the canvas of robot r on machine m listens to.
CanvasInput(s, m, r) ==
  IF m = Laptop THEN <<r, IF s.base = "swarm" THEN "map" ELSE "map_relay">>
                ELSE <<IF r = m THEN "" ELSE r, "map">>

ExpansionOf(s, m, r) ==
  Node("expansion", m, r, {CanvasInput(s, m, r)}, <<r, "map_fixed">>,
       IF m = Laptop THEN 0 ELSE 14)

\* The machines that bring up a bridge, a decompressor or a merger.
Joins(s, m) == s.use_zenoh \/ (m # Laptop /\ s.bringup[m] = "decentralized")

Restores(s, m) ==
  IF m = Laptop THEN s.base = "swarm" /\ s.use_compression ELSE s.bringup[m] = "decentralized"

Merges(s, m) == IF m = Laptop THEN s.base # "none" ELSE s.bringup[m] = "decentralized"

MergerOf(s, m) ==
  Merger(s, m, IF m = Laptop THEN "" ELSE m, IF m = Laptop THEN 2 ELSE 14)

Listed(n, s) ==
  \/ \E r \in OnBoard(s) : n = SlamOf(s, r) \/ n = RelayOf(s, r)
  \/ \E r \in Robots : s.bringup[r] = "fake" /\ n = FakeOf(r)
  \/ \E m \in Machines : \E r \in Robots \ {m} :
       \/ n = BridgeOf(m, r) /\ Joins(s, m)
       \/ n = DecompressorOf(m, r) /\ Restores(s, m)
  \/ \E m \in Machines : \E r \in Robots : n = ExpansionOf(s, m, r) /\ Merges(s, m)
  \/ \E m \in Machines : n \in MergerOf(s, m) /\ Merges(s, m)

LEMMA BridgesListed ==
  ASSUME NEW s, NEW m \in Machines, Joins(s, m),
         NEW delay, delay = IF m = Laptop THEN 0 ELSE 12, NEW n \in Bridge(m, delay)
  PROVE  Listed(n, s)
<1>1. PICK r \in Robots \ {m} : \E base \in AllowedIn(m) :
        n = Node("bridge", m, r, {<<r, base>>}, <<r, base>>, delay)
  BY DEF Bridge, Node
<1>2. n = BridgeOf(m, r)
  BY <1>1 DEF AllowedIn, BridgeOf
<1>. QED
  BY <1>2 DEF Listed

LEMMA DecompressorsListed ==
  ASSUME NEW s, NEW m \in Machines, Restores(s, m), NEW robots \in SUBSET Robots, NEW ignore,
         m \in Robots => ignore = m,
         NEW n \in Decompressor(m, robots, ignore, IF m = Laptop THEN 0 ELSE 14)
  PROVE  Listed(n, s)
<1>. DEFINE delay == IF m = Laptop THEN 0 ELSE 14
<1>1. PICK r \in robots \ {ignore} :
        n = Node("decompressor", m, r, {<<r, "map_compressed">>}, <<r, "map">>, delay)
  BY DEF Decompressor, Node
<1>2. r \in Robots \ {m}
  OBVIOUS
<1>3. n = DecompressorOf(m, r)
  BY <1>1 DEF DecompressorOf
<1>. QED
  BY <1>2, <1>3 DEF Listed

LEMMA ExpansionsListed ==
  ASSUME NEW s, NEW m \in Machines, Merges(s, m), NEW r \in Robots, NEW topic,
         topic = CanvasInput(s, m, r),
         NEW n \in Expansion(m, r, topic, IF m = Laptop THEN 0 ELSE 14)
  PROVE  Listed(n, s)
<1>1. n = ExpansionOf(s, m, r)
  BY DEF Expansion, ExpansionOf
<1>. QED
  BY <1>1 DEF Listed

LEMMA HardwareListed ==
  ASSUME NEW s, NEW r \in OnBoard(s), NEW use_zenoh, NEW enable_compression,
         enable_compression = Compresses(s, r),
         use_zenoh => s.use_zenoh \/ s.bringup[r] = "decentralized",
         NEW n \in HardwareWithComms(s, r, use_zenoh, enable_compression)
  PROVE  Listed(n, s)
<1>1. r \in Robots /\ r \in Machines /\ r # Laptop
  BY DeploymentAssumption DEF OnBoard, Machines
<1>2. \/ n = SlamOf(s, r) \/ n = RelayOf(s, r)
      \/ n \in Bridge(r, 12) /\ use_zenoh
  BY DEF HardwareWithComms, SlamOf, RelayOf, SlamTopic, RelayTopic, RelayInput
<1>3. CASE n \in Bridge(r, 12) /\ use_zenoh
  <2>1. Joins(s, r)
    BY <1>1, <1>3 DEF Joins
  <2>2. 12 = IF r = Laptop THEN 0 ELSE 12
    BY <1>1
  <2>. QED
    BY <1>1, <1>3, <2>1, <2>2, BridgesListed
<1>. QED
  BY <1>2, <1>3 DEF Listed

LEMMA DecentralizedListed ==
  ASSUME NEW s \in Setup, NEW r \in Robots, s.bringup[r] = "decentralized",
         NEW n \in Decentralized(s, r)
  PROVE  Listed(n, s)
<1>. DEFINE Input(q) == <<IF q = r THEN "" ELSE q, "map">>
<1>0. /\ r \in Machines /\ r # Laptop /\ r \in OnBoard(s) /\ Configured(s) \subseteq Robots
      /\ Restores(s, r) /\ Merges(s, r)
  BY ConfiguredAreRobots, DeploymentAssumption DEF Machines, OnBoard, Restores, Merges
<1>1. CASE n \in HardwareWithComms(s, r, TRUE, TRUE)
  BY <1>0, <1>1, HardwareListed DEF Compresses
<1>2. CASE n \in Decompressor(r, Configured(s), r, 14)
  BY <1>0, <1>2, DecompressorsListed
<1>3. CASE n \in UNION {Expansion(r, q, Input(q), 14) : q \in Configured(s)}
  <2>1. PICK q \in Configured(s) : n \in Expansion(r, q, Input(q), 14)
    BY <1>3
  <2>2. Input(q) = CanvasInput(s, r, q)
    BY <1>0 DEF CanvasInput
  <2>. HIDE DEF Input
  <2>. QED
    BY <1>0, <2>1, <2>2, ExpansionsListed
<1>4. CASE n \in Merger(s, r, r, 14)
  BY <1>0, <1>4 DEF Listed, MergerOf
<1>. QED
  BY <1>1, <1>2, <1>3, <1>4 DEF Decentralized

\* The canvases and the merger of the two launch files of the laptop.
LEMMA LaptopMergerListed ==
  ASSUME NEW s \in Setup, s.base # "none", NEW base,
         base = IF s.base = "swarm" THEN "map" ELSE "map_relay",
         NEW n \in (UNION {Expansion(Laptop, r, <<r, base>>, 0) : r \in Configured(s)})
                   \cup Merger(s, Laptop, "", 2)
  PROVE  Listed(n, s)
<1>0. Laptop \in Machines /\ Merges(s, Laptop) /\ Configured(s) \subseteq Robots
  BY ConfiguredAreRobots DEF Machines, Merges
<1>1. CASE n \in UNION {Expansion(Laptop, r, <<r, base>>, 0) : r \in Configured(s)}
  <2>1. PICK r \in Configured(s) : n \in Expansion(Laptop, r, <<r, base>>, 0)
    BY <1>1
  <2>2. <<r, base>> = CanvasInput(s, Laptop, r)
    BY DEF CanvasInput
  <2>. QED
    BY <1>0, <2>1, <2>2, ExpansionsListed
<1>2. CASE n \in Merger(s, Laptop, "", 2)
  BY <1>0, <1>2 DEF Listed, MergerOf
<1>. QED
  BY <1>1, <1>2

\* Every node that a launch file starts is one of the list.
LEMMA NodesListed ==
  ASSUME NEW s \in Setup, NEW n \in Nodes(s)
  PROVE  Listed(n, s)
<1>1. ASSUME NEW r \in Robots, n \in OfRobot(s, r)
      PROVE  Listed(n, s)
  <2>1. s.bringup[r] \in {"comms", "decentralized", "fake", "none"}
    BY DEF Setup
  <2>2. CASE s.bringup[r] = "comms"
    <3>1. s.enable_compression = Compresses(s, r)
      BY <2>2 DEF Setup, Compresses
    <3>2. r \in OnBoard(s) /\ n \in HardwareWithComms(s, r, s.use_zenoh, s.enable_compression)
      BY <1>1, <2>2 DEF OfRobot, OnBoard
    <3>. QED
      BY <3>1, <3>2, HardwareListed
  <2>3. CASE s.bringup[r] = "decentralized"
    BY <1>1, <2>3, DecentralizedListed DEF OfRobot
  <2>4. CASE s.bringup[r] = "fake"
    <3>1. n = FakeOf(r)
      BY <1>1, <2>4 DEF OfRobot, FakeRobot, FakeOf
    <3>. QED
      BY <2>4, <3>1 DEF Listed
  <2>5. CASE s.bringup[r] = "none"
    BY <1>1, <2>5 DEF OfRobot
  <2>. QED
    BY <2>1, <2>2, <2>3, <2>4, <2>5
<1>2. ASSUME n \in OfLaptop(s)
      PROVE  Listed(n, s)
  <2>0. Laptop \in Machines /\ Laptop \notin Robots /\ {"ausra_1", "ausra_2"} \subseteq Robots
    BY DeploymentAssumption DEF Machines
  <2>1. s.base \in {"swarm", "hardware", "none"}
    BY DEF Setup
  <2>2. CASE s.base = "swarm"
    <3>1. \/ n \in Bridge(Laptop, 0) /\ s.use_zenoh
          \/ n \in Decompressor(Laptop, {"ausra_1", "ausra_2"}, "", 0) /\ s.use_compression
          \/ n \in MapMergeLaunch(s)
      BY <1>2, <2>2 DEF OfLaptop, BaseStation
    <3>2. CASE n \in Bridge(Laptop, 0) /\ s.use_zenoh
      <4>1. Joins(s, Laptop)
        BY <3>2 DEF Joins
      <4>. QED
        BY <2>0, <3>2, <4>1, BridgesListed
    <3>3. CASE n \in Decompressor(Laptop, {"ausra_1", "ausra_2"}, "", 0) /\ s.use_compression
      <4>1. Restores(s, Laptop)
        BY <2>2, <3>3 DEF Restores
      <4>. QED
        BY <2>0, <3>3, <4>1, DecompressorsListed
    <3>4. CASE n \in MapMergeLaunch(s)
      BY <2>2, <3>4, LaptopMergerListed DEF MapMergeLaunch
    <3>. QED
      BY <3>1, <3>2, <3>3, <3>4
  <2>3. CASE s.base = "hardware"
    BY <1>2, <2>3, LaptopMergerListed DEF OfLaptop, MapMergeHardware
  <2>4. CASE s.base = "none"
    BY <1>2, <2>4 DEF OfLaptop
  <2>. QED
    BY <2>1, <2>2, <2>3, <2>4
<1>3. CASE n \in (UNION {OfRobot(s, r) : r \in Robots})
  <2>1. PICK r \in Robots : n \in OfRobot(s, r)
    BY <1>3
  <2>. QED
    BY <1>1, <2>1
<1>. QED
  BY <1>2, <1>3 DEF Nodes

-----------------------------------------------------------------------------
(* The types                                                               *)

LEMMA NodeDelay ==
  ASSUME NEW kind, NEW at, NEW robot, NEW from, NEW to, NEW delay,
         NEW n, n = Node(kind, at, robot, from, to, delay)
  PROVE  n.delay = delay
BY DEF Node

LEMMA SlamFields ==
  ASSUME NEW s, NEW r, NEW n, n = SlamOf(s, r)
  PROVE  /\ n.kind = "slam" /\ n.at = r /\ n.robot = r /\ n.delay \in Delays
         /\ n.from = {} /\ n.to = SlamTopic(s, r)
BY DEF SlamOf, Node, Delays

LEMMA RelayFields ==
  ASSUME NEW s, NEW r, NEW n, n = RelayOf(s, r)
  PROVE  /\ n.kind = "relay" /\ n.at = r /\ n.robot = r /\ n.delay \in Delays
         /\ n.from = RelayInput(r) /\ n.to = RelayTopic(s, r)
BY DEF RelayOf, Node, Delays

LEMMA FakeFields ==
  ASSUME NEW r, NEW n, n = FakeOf(r)
  PROVE  /\ n.kind = "fake" /\ n.at = Laptop /\ n.robot = r /\ n.delay \in Delays
         /\ n.from = {} /\ n.to = <<r, "map">>
BY DEF FakeOf, Node, Delays

LEMMA BridgeFields ==
  ASSUME NEW m, NEW r, NEW n, n = BridgeOf(m, r)
  PROVE  /\ n.kind = "bridge" /\ n.at = m /\ n.robot = r /\ n.delay \in Delays
         /\ n.from = {<<r, "map_compressed">>} /\ n.to = <<r, "map_compressed">>
<1>1. (IF m = Laptop THEN 0 ELSE 12) \in Delays
  BY DEF Delays
<1>. QED
  BY <1>1, NodeFields, NodeDelay DEF BridgeOf

LEMMA DecompressorFields ==
  ASSUME NEW m, NEW r, NEW n, n = DecompressorOf(m, r)
  PROVE  /\ n.kind = "decompressor" /\ n.at = m /\ n.robot = r /\ n.delay \in Delays
         /\ n.from = {<<r, "map_compressed">>} /\ n.to = <<r, "map">>
<1>1. (IF m = Laptop THEN 0 ELSE 14) \in Delays
  BY DEF Delays
<1>. QED
  BY <1>1, NodeFields, NodeDelay DEF DecompressorOf

LEMMA ExpansionFields ==
  ASSUME NEW s, NEW m, NEW r, NEW n, n = ExpansionOf(s, m, r)
  PROVE  /\ n.kind = "expansion" /\ n.at = m /\ n.robot = r /\ n.delay \in Delays
         /\ n.from = {CanvasInput(s, m, r)} /\ n.to = <<r, "map_fixed">>
<1>1. (IF m = Laptop THEN 0 ELSE 14) \in Delays
  BY DEF Delays
<1>. QED
  BY <1>1, NodeFields, NodeDelay DEF ExpansionOf

LEMMA MergerFields ==
  ASSUME NEW s, NEW m, NEW namespace, NEW delay, NEW n \in Merger(s, m, namespace, delay)
  PROVE  /\ n.kind = "merger" /\ n.at = m /\ n.robot = namespace /\ n.delay = delay
         /\ n.to = MergedTopic(s, namespace)
         /\ n.from = {<<r, IF ParamsApply(s, namespace) THEN "map_fixed" ELSE "map">> :
                        r \in Configured(s)} \ {MergedTopic(s, namespace)}
<1>. DEFINE from == {<<r, IF ParamsApply(s, namespace) THEN "map_fixed" ELSE "map">> :
                       r \in Configured(s)} \ {MergedTopic(s, namespace)}
<1>1. n = Node("merger", m, namespace, from, MergedTopic(s, namespace), delay)
  BY DEF Merger
<1>. HIDE DEF from
<1>2. n.from = from
  BY <1>1, NodeFields
<1>3. n.kind = "merger" /\ n.at = m /\ n.robot = namespace /\ n.to = MergedTopic(s, namespace)
  BY <1>1, NodeFields
<1>4. n.delay = delay
  BY <1>1, NodeDelay
<1>. QED
  BY <1>2, <1>3, <1>4 DEF from

LEMMA NodesTyped ==
  ASSUME NEW s \in Setup, NEW n \in Nodes(s)
  PROVE  /\ n.at \in Machines /\ n.delay \in Delays
         /\ n.kind # "merger" => n.robot \in Robots
<1>1. Listed(n, s)
  BY NodesListed
<1>2. OnBoard(s) \subseteq Robots /\ Robots \subseteq Machines /\ Laptop \in Machines
  BY DEF OnBoard, Machines
<1>3. ASSUME NEW r \in OnBoard(s), n = SlamOf(s, r) \/ n = RelayOf(s, r)
      PROVE  n.at \in Machines /\ n.delay \in Delays /\ n.robot \in Robots
  <2>1. CASE n = SlamOf(s, r)
    <3>1. n.at = r /\ n.robot = r /\ n.delay \in Delays
      BY <2>1, SlamFields
    <3>. QED
      BY <1>2, <3>1
  <2>2. CASE n = RelayOf(s, r)
    <3>1. n.at = r /\ n.robot = r /\ n.delay \in Delays
      BY <2>2, RelayFields
    <3>. QED
      BY <1>2, <3>1
  <2>. QED
    BY <1>3, <2>1, <2>2
<1>4. ASSUME NEW r \in Robots, n = FakeOf(r)
      PROVE  n.at \in Machines /\ n.delay \in Delays /\ n.robot \in Robots
  BY <1>2, <1>4, FakeFields
<1>5. ASSUME NEW m \in Machines, NEW r \in Robots,
             n = BridgeOf(m, r) \/ n = DecompressorOf(m, r) \/ n = ExpansionOf(s, m, r)
      PROVE  n.at \in Machines /\ n.delay \in Delays /\ n.robot \in Robots
  BY <1>2, <1>5, BridgeFields, DecompressorFields, ExpansionFields
<1>6. ASSUME NEW m \in Machines, NEW namespace, NEW delay \in Delays,
             n \in Merger(s, m, namespace, delay)
      PROVE  n.at \in Machines /\ n.delay \in Delays /\ n.kind = "merger"
  BY <1>6, MergerFields
<1>7. \A m \in Machines : (IF m = Laptop THEN 2 ELSE 14) \in Delays
  BY DEF Delays
<1>. QED
  BY <1>1, <1>3, <1>4, <1>5, <1>6, <1>7 DEF Listed, MergerOf

LEMMA LeastDelay ==
  ASSUME NEW later \in SUBSET Delays, later # {}
  PROVE  \E d \in later : \A e \in later : d <= e
<1>1. \/ 0 \in later \/ 2 \in later \/ 10 \in later \/ 12 \in later \/ 14 \in later
  BY DEF Delays
<1>2. \A e \in later : e = 0 \/ e = 2 \/ e = 10 \/ e = 12 \/ e = 14
  BY DEF Delays
<1>3. CASE 0 \in later
  BY <1>2, <1>3
<1>4. CASE 0 \notin later /\ 2 \in later
  BY <1>2, <1>4
<1>5. CASE 0 \notin later /\ 2 \notin later /\ 10 \in later
  BY <1>2, <1>5
<1>6. CASE 0 \notin later /\ 2 \notin later /\ 10 \notin later /\ 12 \in later
  BY <1>2, <1>6
<1>7. CASE later = {14}
  BY <1>7
<1>8. 0 \notin later /\ 2 \notin later /\ 10 \notin later /\ 12 \notin later => later = {14}
  BY <1>1, <1>2
<1>. QED
  BY <1>3, <1>4, <1>5, <1>6, <1>7, <1>8

\* TypeOK with what it rests on: the functions are over the nodes of the set-up,
\* and a merger keeps maps that some robot made.
TypesInv ==
  /\ TypeOK
  /\ DOMAIN out = nodes /\ DOMAIN kept = nodes /\ DOMAIN handled = nodes
  /\ DOMAIN subscribed = Mergers /\ DOMAIN held = Mergers
  /\ \A n \in Mergers : DOMAIN held[n] = n.from
  /\ \A n \in Mergers : \A t \in n.from : held[n][t] # <<>> => held[n][t][1] \subseteq AllMaps

LEMMA TheNodesTyped ==
  ASSUME setup \in Setups, NEW n \in nodes
  PROVE  /\ n.at \in Machines /\ n.delay \in Delays
         /\ n.kind # "merger" => n.robot \in Robots
BY NodesTyped, DeploymentAssumption DEF nodes, NodesOf

LEMMA MapsTyped ==
  ASSUME NEW r \in Robots, NEW v \in 1 .. Maps[r]
  PROVE  v \in Nat /\ {<<r, v>>} \subseteq AllMaps
<1>1. Maps[r] \in Nat
  BY DeploymentAssumption
<1>2. {<<r, v>>} \subseteq MapsOf(r)
  BY DEF MapsOf
<1>. QED
  BY <1>1, <1>2 DEF AllMaps

\* A node sends, and perhaps notes what it has handled, or the clock of a
\* robot's maps moves.
LEMMA EmitTyped ==
  ASSUME TypesInv, NEW n \in nodes, NEW grid \in SUBSET AllMaps, Emit(n, grid),
         \/ handled' = handled
         \/ \E message : /\ handled' = [handled EXCEPT ![n] = message]
                         /\ message # <<>> => message[1] \subseteq AllMaps,
         UNCHANGED <<setup, uptime, respawning, ended, subscribed, held>>,
         mishaps' \in 0 .. MaxMishaps, disordered' \subseteq Robots,
         version' \in [Robots -> Nat]
  PROVE  TypesInv'
<1>1. nodes' = nodes /\ Mergers' = Mergers
  BY NodesStay DEF Mergers
<1>2. /\ out' = [out EXCEPT ![n] = <<grid>>] /\ DOMAIN out = nodes
      /\ kept' = [kept EXCEPT ![n] = IF Keeps(n) /\ out[n] # <<grid>> THEN out[n] ELSE kept[n]]
      /\ DOMAIN kept = nodes /\ DOMAIN handled = nodes
  BY DEF Emit, TypesInv
<1>3. <<grid>>[1] = grid
  OBVIOUS
<1>4. \A k \in nodes : out'[k] # <<>> => out'[k][1] \subseteq AllMaps
  <2>1. out'[n] = <<grid>> /\ \A k \in nodes \ {n} : out'[k] = out[k]
    BY <1>2
  <2>. QED
    BY <1>3, <2>1 DEF TypesInv, TypeOK
<1>5. \A k \in nodes : kept'[k] # <<>> => kept'[k][1] \subseteq AllMaps
  <2>1. \A k \in nodes : kept'[k] = kept[k] \/ kept'[k] = out[k]
    BY <1>2
  <2>. QED
    BY <2>1 DEF TypesInv, TypeOK
<1>6. /\ \A k \in nodes : handled'[k] # <<>> => handled'[k][1] \subseteq AllMaps
      /\ DOMAIN handled' = nodes
  <2>1. CASE handled' = handled
    BY <1>2, <2>1 DEF TypesInv, TypeOK
  <2>2. CASE \E message : /\ handled' = [handled EXCEPT ![n] = message]
                          /\ message # <<>> => message[1] \subseteq AllMaps
    <3>0. PICK message : /\ handled' = [handled EXCEPT ![n] = message]
                         /\ message # <<>> => message[1] \subseteq AllMaps
      BY <2>2
    <3>1. handled'[n] = message /\ \A k \in nodes \ {n} : handled'[k] = handled[k]
      BY <1>2, <3>0
    <3>. QED
      BY <1>2, <3>0, <3>1 DEF TypesInv, TypeOK
  <2>. QED
    BY <2>1, <2>2
<1>7. TypeOK'
  <2>1. (\A k \in nodes : \A message \in {out[k], kept[k], handled[k]} :
           message # <<>> => message[1] \subseteq AllMaps)'
    BY <1>1, <1>4, <1>5, <1>6 DEF AllMaps, MapsOf
  <2>2. /\ (setup \in Setups /\ uptime \in [Machines -> Delays \cup {-1}])'
        /\ (respawning \subseteq Machines /\ ended \subseteq Mergers)'
        /\ (\A k \in Mergers : subscribed[k] \subseteq k.from)'
    BY <1>1 DEF TypesInv, TypeOK
  <2>. QED
    BY <2>1, <2>2 DEF TypeOK
<1>8. (DOMAIN out = nodes /\ DOMAIN kept = nodes /\ DOMAIN handled = nodes)'
  BY <1>1, <1>2, <1>6
<1>. QED
  BY <1>1, <1>7, <1>8 DEF TypesInv, AllMaps, MapsOf

LEMMA EndTyped ==
  ASSUME TypesInv, setup' = setup, NEW gone, Ends(gone),
         uptime' \in [Machines -> Delays \cup {-1}], respawning' \subseteq Machines,
         ended' \subseteq Mergers, disordered' \subseteq Robots,
         mishaps' \in 0 .. MaxMishaps, version' = version
  PROVE  TypesInv'
<1>1. nodes' = nodes /\ Mergers' = Mergers
  BY NodesStay DEF Mergers
<1>2. /\ DOMAIN subscribed' = Mergers /\ DOMAIN held' = Mergers
      /\ \A n \in Mergers : subscribed'[n] = {} \/ subscribed'[n] = subscribed[n]
      /\ \A n \in Mergers : held'[n] = [t \in n.from |-> <<>>] \/ held'[n] = held[n]
  BY DEF Ends
<1>3. \A k \in nodes : /\ out'[k] = <<>> \/ out'[k] = out[k]
                       /\ kept'[k] = <<>> \/ kept'[k] = kept[k]
                       /\ handled'[k] = <<>> \/ handled'[k] = handled[k]
  BY DEF Ends
<1>4. TypeOK'
  <2>1. (\A k \in nodes : \A message \in {out[k], kept[k], handled[k]} :
           message # <<>> => message[1] \subseteq AllMaps)'
    BY <1>1, <1>3 DEF TypesInv, TypeOK, AllMaps, MapsOf
  <2>2. (\A k \in Mergers : subscribed[k] \subseteq k.from)'
    BY <1>1, <1>2 DEF TypesInv, TypeOK
  <2>. QED
    BY <1>1, <2>1, <2>2 DEF TypesInv, TypeOK
<1>5. (DOMAIN out = nodes /\ DOMAIN kept = nodes /\ DOMAIN handled = nodes)'
  BY <1>1 DEF Ends
<1>6. \A n \in Mergers : DOMAIN held'[n] = n.from
  BY <1>2 DEF TypesInv
<1>7. \A n \in Mergers : \A t \in n.from : held'[n][t] # <<>> => held'[n][t][1] \subseteq AllMaps
  BY <1>2 DEF TypesInv
<1>. QED
  BY <1>1, <1>2, <1>4, <1>5, <1>6, <1>7 DEF TypesInv, AllMaps, MapsOf

\* The machines change, or a merger finds topics: nothing is sent or kept.
LEMMA QuietTyped ==
  ASSUME TypesInv, UNCHANGED <<setup, ended, version, messages, held, mishaps, disordered>>,
         uptime' \in [Machines -> Delays \cup {-1}], respawning' \subseteq Machines,
         DOMAIN subscribed' = Mergers, \A n \in Mergers : subscribed'[n] \subseteq n.from
  PROVE  TypesInv'
<1>1. nodes' = nodes /\ Mergers' = Mergers
  BY NodesStay DEF Mergers
<1>2. TypeOK'
  BY <1>1 DEF TypesInv, TypeOK, AllMaps, MapsOf, messages
<1>. QED
  BY <1>1, <1>2 DEF TypesInv, AllMaps, MapsOf, messages

LEMMA MachinesTyped ==
  ASSUME TypesInv, NEW m \in Machines,
         TimerFires(m) \/ Respawn(m) \/ Dies(m) \/ BridgeCrashes(m)
  PROVE  TypesInv'
<1>0. /\ uptime \in [Machines -> Delays \cup {-1}] /\ respawning \subseteq Machines
      /\ mishaps \in 0 .. MaxMishaps /\ MaxMishaps \in Nat /\ disordered \subseteq Robots
      /\ ended \subseteq Mergers
      /\ \A n \in Mergers : subscribed[n] \subseteq n.from
  BY DeploymentAssumption DEF TypesInv, TypeOK
<1>1. CASE TimerFires(m)
  <2>. DEFINE later == {d \in DelaysOf(m) : d > uptime[m]}
              next == CHOOSE d \in later : \A e \in later : d <= e
  <2>1. later \subseteq Delays
    <3>1. \A n \in nodes : n.delay \in Delays
      BY TheNodesTyped DEF TypesInv, TypeOK
    <3>. QED
      BY <3>1 DEF DelaysOf
  <2>2. later # {} /\ uptime' = [uptime EXCEPT ![m] = next]
    BY <1>1 DEF TimerFires
  <2>. HIDE DEF later
  <2>3. next \in Delays
    BY <2>1, <2>2, LeastDelay
  <2>. HIDE DEF next
  <2>4. uptime' \in [Machines -> Delays \cup {-1}]
    BY <1>0, <2>2, <2>3
  <2>. QED
    BY <1>0, <1>1, <2>4, QuietTyped DEF TimerFires, TypesInv
<1>2. CASE Respawn(m)
  BY <1>0, <1>2, QuietTyped DEF Respawn, TypesInv
<1>3. CASE Dies(m)
  <2>1. uptime' \in [Machines -> Delays \cup {-1}]
    BY <1>0, <1>3 DEF Dies
  <2>2. respawning' \subseteq Machines /\ mishaps' \in 0 .. MaxMishaps /\ ended' \subseteq Mergers
    BY <1>0, <1>3 DEF Dies, Mishap
  <2>. QED
    BY <1>0, <1>3, <2>1, <2>2, EndTyped DEF Dies
<1>4. CASE BridgeCrashes(m)
  <2>1. respawning' \subseteq Machines /\ mishaps' \in 0 .. MaxMishaps
    BY <1>0, <1>4 DEF BridgeCrashes, Mishap
  <2>2. \A n \in Bridged(m) : n.robot \in Robots
    BY TheNodesTyped DEF Bridged, TypesInv, TypeOK
  <2>3. disordered' \subseteq Robots
    BY <1>0, <1>4, <2>2 DEF BridgeCrashes
  <2>. QED
    BY <1>0, <1>4, <2>1, <2>3, EndTyped DEF BridgeCrashes
<1>. QED
  BY <1>1, <1>2, <1>3, <1>4

LEMMA TimerTyped ==
  ASSUME TypesInv, Timer
  PROVE  TypesInv'
<1>. PICK n \in nodes : \/ SlamPublish(n) \/ FakePublish(n) \/ BlankHeartbeat(n)
                        \/ Discover(n) \/ MapMerging(n)
  BY DEF Timer
<1>0. /\ n.kind # "merger" => n.robot \in Robots
      /\ version \in [Robots -> Nat] /\ mishaps \in 0 .. MaxMishaps /\ disordered \subseteq Robots
  BY TheNodesTyped DEF TypesInv, TypeOK
<1>1. CASE SlamPublish(n)
  <2>1. PICK v \in 1 .. Maps[n.robot] : /\ version' = [version EXCEPT ![n.robot] = v]
                                        /\ Emit(n, {<<n.robot, v>>})
    BY <1>1 DEF SlamPublish
  <2>2. n.robot \in Robots
    BY <1>0, <1>1 DEF SlamPublish
  <2>3. v \in Nat /\ {<<n.robot, v>>} \subseteq AllMaps
    BY <2>2, MapsTyped
  <2>4. version' \in [Robots -> Nat]
    BY <1>0, <2>1, <2>3
  <2>. QED
    BY <1>0, <1>1, <2>1, <2>3, <2>4, EmitTyped DEF SlamPublish, machines
<1>2. CASE FakePublish(n)
  <2>0. n.robot \in Robots
    BY <1>0, <1>2 DEF FakePublish
  <2>1. n.robot \in Robots /\ 1 \in 1 .. Maps[n.robot]
    <3>1. Maps[n.robot] \in Nat \ {0}
      BY <2>0, DeploymentAssumption
    <3>. QED
      BY <2>0, <3>1
  <2>2. {<<n.robot, 1>>} \subseteq AllMaps
    BY <2>1, MapsTyped
  <2>3. version' \in [Robots -> Nat]
    BY <1>0, <1>2 DEF FakePublish
  <2>. QED
    BY <1>0, <1>2, <2>2, <2>3, EmitTyped DEF FakePublish, machines
<1>3. CASE BlankHeartbeat(n)
  BY <1>0, <1>3, EmitTyped DEF BlankHeartbeat, machines
<1>4. CASE Discover(n)
  <2>1. /\ DOMAIN subscribed' = Mergers
        /\ \A k \in Mergers : subscribed'[k] \subseteq k.from
    BY <1>4 DEF Discover, TypesInv, TypeOK, machines
  <2>2. uptime' \in [Machines -> Delays \cup {-1}] /\ respawning' \subseteq Machines
    BY <1>4 DEF Discover, TypesInv, TypeOK, machines
  <2>. QED
    BY <1>4, <2>1, <2>2, QuietTyped DEF Discover, machines
<1>5. CASE MapMerging(n)
  <2>. DEFINE grid == UNION {held[n][topic][1] : topic \in Drawn(n)}
  <2>1. n \in Mergers /\ Emit(n, grid)
    BY <1>5 DEF MapMerging, Mergers
  <2>2. grid \in SUBSET AllMaps
    BY <2>1 DEF TypesInv, Drawn
  <2>. HIDE DEF grid
  <2>. QED
    BY <1>0, <1>5, <2>1, <2>2, EmitTyped DEF MapMerging, machines
<1>. QED
  BY <1>1, <1>2, <1>3, <1>4, <1>5

LEMMA DeliveryTyped ==
  ASSUME TypesInv, Delivery
  PROVE  TypesInv'
<1>. PICK n \in nodes : \E p \in {k \in nodes : k.to \in n.from} :
       \/ RelayPass(n, p) \/ DecompressorPass(n, p) \/ ExpansionPass(n, p)
       \/ BridgePass(n, p) \/ FullMapUpdate(n, p)
  BY DEF Delivery
<1>. PICK p \in nodes :
       /\ p.to \in n.from
       /\ \/ RelayPass(n, p) \/ DecompressorPass(n, p) \/ ExpansionPass(n, p)
          \/ BridgePass(n, p) \/ FullMapUpdate(n, p)
  OBVIOUS
<1>0. /\ \A message \in {out[p], kept[p]} : message # <<>> => message[1] \in SUBSET AllMaps
      /\ version \in [Robots -> Nat] /\ mishaps \in 0 .. MaxMishaps /\ disordered \subseteq Robots
  BY DEF TypesInv, TypeOK
<1>1. ASSUME out[p] # <<>>, NEW message \in Offered(n, p), Pass(n, message)
      PROVE  TypesInv'
  <2>1. message # <<>> /\ message \in {out[p], kept[p]}
    BY <1>1 DEF Offered
  <2>2. message[1] \in SUBSET AllMaps
    BY <1>0, <2>1
  <2>. QED
    BY <1>0, <1>1, <2>2, EmitTyped DEF Pass, machines
<1>2. CASE FullMapUpdate(n, p)
  <2>1. n \in Mergers /\ held' = [held EXCEPT ![n][p.to] = out[p]]
    BY <1>2 DEF FullMapUpdate, Mergers
  <2>2. nodes' = nodes /\ Mergers' = Mergers
    BY <1>2, NodesStay DEF FullMapUpdate, Mergers, machines
  <2>3. DOMAIN held' = Mergers /\ \A k \in Mergers : DOMAIN held'[k] = k.from
    BY <2>1 DEF TypesInv
  <2>4. \A k \in Mergers : \A t \in k.from : held'[k][t] = held[k][t] \/ held'[k][t] = out[p]
    BY <2>1 DEF TypesInv
  <2>5. \A k \in Mergers : \A t \in k.from : held'[k][t] # <<>> => held'[k][t][1] \subseteq AllMaps
    BY <1>0, <2>4 DEF TypesInv
  <2>6. TypeOK'
    BY <1>2, <2>2 DEF FullMapUpdate, TypesInv, TypeOK, AllMaps, MapsOf, machines, messages
  <2>7. /\ (DOMAIN out = nodes /\ DOMAIN kept = nodes /\ DOMAIN handled = nodes)'
        /\ (DOMAIN subscribed = Mergers)'
    BY <1>2, <2>2 DEF FullMapUpdate, TypesInv, machines, messages
  <2>. QED
    BY <2>2, <2>3, <2>5, <2>6, <2>7 DEF TypesInv, AllMaps, MapsOf
<1>3. CASE RelayPass(n, p) \/ DecompressorPass(n, p)
  BY <1>1, <1>3 DEF RelayPass, DecompressorPass, Receives
<1>4. CASE ExpansionPass(n, p)
  BY <1>1, <1>4 DEF ExpansionPass, Receives, Offered
<1>5. CASE BridgePass(n, p)
  BY <1>1, <1>5 DEF BridgePass
<1>. QED
  BY <1>2, <1>3, <1>4, <1>5

LEMMA OvertakeTyped ==
  ASSUME TypesInv, NEW n \in nodes, NEW p \in nodes, Overtake(n, p)
  PROVE  TypesInv'
<1>0. /\ \A message \in {out[p], kept[p]} : message # <<>> => message[1] \in SUBSET AllMaps
      /\ version \in [Robots -> Nat] /\ mishaps \in 0 .. MaxMishaps /\ disordered \subseteq Robots
      /\ MaxMishaps \in Nat
  BY DeploymentAssumption DEF TypesInv, TypeOK
<1>1. PICK last \in {out[p], kept[p]} : handled' = [handled EXCEPT ![n] = last]
  BY DEF Overtake
<1>2. n.robot \in Robots /\ mishaps' \in 0 .. MaxMishaps
  BY <1>0, TheNodesTyped DEF Overtake, Mishap, TypesInv, TypeOK
<1>3. /\ kept[p] # <<>> /\ Emit(n, kept[p][1]) /\ disordered' = disordered \cup {n.robot}
      /\ UNCHANGED <<setup, uptime, respawning, ended, subscribed, held>> /\ version' = version
  BY DEF Overtake
<1>. QED
  BY <1>0, <1>1, <1>2, <1>3, EmitTyped

LEMMA TypesInvariant == Spec => []TypesInv
<1>1. Init => TypesInv
  <2>. SUFFICES ASSUME Init PROVE TypesInv
    OBVIOUS
  <2>1. /\ setup \in Setups /\ uptime \in [Machines -> Delays \cup {-1}]
        /\ respawning \subseteq Machines /\ ended \subseteq Mergers /\ disordered \subseteq Robots
    BY DEF Init
  <2>2. version \in [Robots -> Nat] /\ mishaps \in 0 .. MaxMishaps
    <3>1. version \in [Robots -> Nat]
      BY DEF Init
    <3>2. MaxMishaps \in Nat /\ mishaps = 0
      BY DeploymentAssumption DEF Init
    <3>. QED
      BY <3>1, <3>2
  <2>3. /\ \A n \in nodes : out[n] = <<>> /\ kept[n] = <<>> /\ handled[n] = <<>>
        /\ \A n \in Mergers : subscribed[n] = {}
    BY DEF Init
  <2>4. TypeOK
    BY <2>1, <2>2, <2>3 DEF TypeOK
  <2>. QED
    BY <2>4 DEF Init, TypesInv
<1>2. TypesInv /\ [Next]_vars => TypesInv'
  <2>. SUFFICES ASSUME TypesInv, [Next]_vars
                PROVE  TypesInv'
    OBVIOUS
  <2>1. ASSUME NEW m \in Machines,
               TimerFires(m) \/ Respawn(m) \/ Dies(m) \/ BridgeCrashes(m)
        PROVE  TypesInv'
    BY <2>1, MachinesTyped
  <2>2. CASE Timer
    BY <2>2, TimerTyped
  <2>3. CASE Delivery
    BY <2>3, DeliveryTyped
  <2>4. CASE UNCHANGED vars
    BY <2>4, QuietTyped DEF vars, messages, TypesInv, TypeOK
  <2>5. CASE Overtaking
    BY <2>5, OvertakeTyped DEF Overtaking
  <2>6. ASSUME NEW n \in nodes, NullGrid(n)
        PROVE  TypesInv'
    <3>1. ended' \subseteq Mergers
      BY <2>6 DEF NullGrid, Mergers, TypesInv, TypeOK
    <3>. QED
      BY <2>6, <3>1, EndTyped DEF NullGrid, TypesInv, TypeOK
  <2>. QED
    BY <2>1, <2>2, <2>3, <2>4, <2>5, <2>6 DEF Next
<1>. QED
  BY <1>1, <1>2, PTL DEF Spec

\* TypeOK, of every set-up the launch files can be given: machines die, bridges
\* crash and timers fire in any order, yet every message is made of maps that
\* some robot's SLAM made, and a merger finds no topic that it does not look for.
THEOREM TypeCorrect == Spec => []TypeOK
<1>1. TypesInv => TypeOK
  BY DEF TypesInv
<1>. QED
  BY <1>1, TypesInvariant, PTL

-----------------------------------------------------------------------------
(* Who hears whom                                                          *)

\* A set-up is straight if no node has two ways, one shorter than the other, to
\* hear of a robot.  Zenoh sees to it.  Without, every machine hears every
\* topic: no robot restores the maps of others, and the canvases of
\* map_merge.launch.py hear either SLAM or the relay.
Straight(s) ==
  \/ s.use_zenoh
  \/ /\ \A r \in Robots : s.bringup[r] # "decentralized"
     /\ s.base = "swarm" /\ s.enable_compression => ~s.use_compression
     /\ s.base = "swarm" /\ ~s.enable_compression => ~s.slam_in_namespace

AllStraight == \A s \in Setups : KeptApart(s) /\ Straight(s)

Kinds == {"slam", "fake", "relay", "bridge", "decompressor", "expansion", "merger"}

\* What the kind of a node says of it.
Known(n, s) ==
  /\ n.kind \in Kinds /\ n.at \in Machines
  /\ n.kind # "merger" => n.robot \in Robots
  /\ n.kind \in {"slam", "relay"} => n.robot \in OnBoard(s) /\ n.at = n.robot
  /\ n.kind = "slam" => n = SlamOf(s, n.robot)
  /\ n.kind = "relay" => n = RelayOf(s, n.robot)
  /\ n.kind = "fake" => n = FakeOf(n.robot) /\ s.bringup[n.robot] = "fake"
  /\ n.kind = "bridge" => n = BridgeOf(n.at, n.robot) /\ n.robot # n.at /\ Joins(s, n.at)
  /\ n.kind = "decompressor" =>
       n = DecompressorOf(n.at, n.robot) /\ n.robot # n.at /\ Restores(s, n.at)
  /\ n.kind = "expansion" => n = ExpansionOf(s, n.at, n.robot) /\ Merges(s, n.at)
  /\ n.kind = "merger" =>
       n \in MergerOf(s, n.at) /\ Merges(s, n.at)

LEMMA NodesKnown ==
  ASSUME NEW s \in Setup, NEW n \in Nodes(s)
  PROVE  Known(n, s)
<1>1. Listed(n, s)
  BY NodesListed
<1>2. OnBoard(s) \subseteq Robots /\ n.at \in Machines
  BY NodesTyped DEF OnBoard
<1>3. ASSUME NEW r \in OnBoard(s), n = SlamOf(s, r)
      PROVE  Known(n, s)
  <2>1. n.kind = "slam" /\ n.at = r /\ n.robot = r
    BY <1>3, SlamFields
  <2>. QED
    BY <1>2, <1>3, <2>1 DEF Known, Kinds
<1>4. ASSUME NEW r \in OnBoard(s), n = RelayOf(s, r)
      PROVE  Known(n, s)
  <2>1. n.kind = "relay" /\ n.at = r /\ n.robot = r
    BY <1>4, RelayFields
  <2>. QED
    BY <1>2, <1>4, <2>1 DEF Known, Kinds
<1>5. ASSUME NEW r \in Robots, s.bringup[r] = "fake", n = FakeOf(r)
      PROVE  Known(n, s)
  <2>1. n.kind = "fake" /\ n.robot = r
    BY <1>5, FakeFields
  <2>. QED
    BY <1>2, <1>5, <2>1 DEF Known, Kinds
<1>6. ASSUME NEW m \in Machines, NEW r \in Robots \ {m}, Joins(s, m), n = BridgeOf(m, r)
      PROVE  Known(n, s)
  <2>1. n.kind = "bridge" /\ n.at = m /\ n.robot = r
    BY <1>6, BridgeFields
  <2>. QED
    BY <1>2, <1>6, <2>1 DEF Known, Kinds
<1>7. ASSUME NEW m \in Machines, NEW r \in Robots \ {m}, Restores(s, m), n = DecompressorOf(m, r)
      PROVE  Known(n, s)
  <2>1. n.kind = "decompressor" /\ n.at = m /\ n.robot = r
    BY <1>7, DecompressorFields
  <2>. QED
    BY <1>2, <1>7, <2>1 DEF Known, Kinds
<1>8. ASSUME NEW m \in Machines, NEW r \in Robots, Merges(s, m), n = ExpansionOf(s, m, r)
      PROVE  Known(n, s)
  <2>1. n.kind = "expansion" /\ n.at = m /\ n.robot = r
    BY <1>8, ExpansionFields
  <2>. QED
    BY <1>2, <1>8, <2>1 DEF Known, Kinds
<1>9. ASSUME NEW m \in Machines, Merges(s, m), n \in MergerOf(s, m)
      PROVE  Known(n, s)
  <2>. DEFINE namespace == IF m = Laptop THEN "" ELSE m
              delay == IF m = Laptop THEN 2 ELSE 14
  <2>0. n \in Merger(s, m, namespace, delay)
    BY <1>9 DEF MergerOf
  <2>. HIDE DEF namespace, delay
  <2>1. n.kind = "merger" /\ n.at = m
    BY <2>0, MergerFields
  <2>. QED
    BY <1>2, <1>9, <2>1 DEF Known, Kinds
<1>. QED
  BY <1>1, <1>3, <1>4, <1>5, <1>6, <1>7, <1>8, <1>9 DEF Listed

LEMMA TheNodesKnown ==
  ASSUME setup \in Setups
  PROVE  \A n \in nodes : Known(n, setup)
BY NodesKnown, DeploymentAssumption DEF nodes, NodesOf

\* No two nodes on a machine do the same for the same robot.
LEMMA OneOfAKind ==
  ASSUME NEW s, NEW n, NEW p, Known(n, s), Known(p, s), n.kind # "merger",
         p.kind = n.kind, p.robot = n.robot,
         n.at = p.at \/ n.kind \in {"slam", "fake", "relay"}
  PROVE  p = n
BY DEF Known, Kinds

-----------------------------------------------------------------------------
(* Upstream                                                                *)

Stage(kind) == CASE kind \in {"slam", "fake"} -> 0
                 [] kind = "relay" -> 1
                 [] kind = "bridge" -> 2
                 [] kind = "decompressor" -> 3
                 [] kind = "expansion" -> 4
                 [] kind = "merger" -> 5

LEMMA Stages ==
  /\ Stage("slam") = 0 /\ Stage("fake") = 0 /\ Stage("relay") = 1 /\ Stage("bridge") = 2
  /\ Stage("decompressor") = 3 /\ Stage("expansion") = 4 /\ Stage("merger") = 5
BY DEF Stage

\* Node p is upstream of node n: what n sends has come through p, if it does
\* anything.  The canvas of a robot on the robot itself hears SLAM and not the
\* relay, and so does that of the laptop where the relay compresses and no
\* bridge carries it.
Up(p, n, s) ==
  /\ p.robot = n.robot /\ Stage(p.kind) < Stage(n.kind) /\ n.kind # "merger"
  /\ p.kind \in {"slam", "fake", "relay"} \/ p.at = n.at
  /\ p.kind = "relay" /\ n.kind = "expansion" =>
       n.at # n.robot /\ (s.use_zenoh \/ ~s.enable_compression)

\* Bridges and decompressors that hear nothing.
Quiet(n, s) ==
  n.kind \in {"bridge", "decompressor"} /\ (~s.use_zenoh \/ n.robot \notin OnBoard(s))

\* Node p is one that n hears, in a straight set-up, or n itself.
Feeds(p, n, s) ==
  /\ p.robot = n.robot
  /\ \/ p = n
     \/ n.kind = "relay" /\ p.kind = "slam"
     \/ n.kind = "bridge" /\ p.kind = "relay" /\ s.use_zenoh
     \/ n.kind = "decompressor" /\ p.kind = "bridge" /\ p.at = n.at
     \/ n.kind = "expansion" /\ p.kind = "slam" /\ n.at = n.robot
     \/ /\ n.kind = "expansion" /\ p.kind = "slam"
        /\ ~s.use_zenoh /\ s.enable_compression
     \/ /\ n.kind = "expansion" /\ p.kind = "relay" /\ n.at # n.robot
        /\ ~s.use_zenoh /\ ~s.enable_compression
     \/ n.kind = "expansion" /\ p.kind = "fake"
     \/ n.kind = "expansion" /\ p.kind = "decompressor" /\ p.at = n.at

\* What a node hears is upstream of it, and downstream of all that is.
LEMMA FeedsFromUp ==
  ASSUME NEW s, NEW n, NEW p, Known(n, s), Known(p, s), Feeds(p, n, s), p # n
  PROVE  /\ Up(p, n, s)
         /\ \A k : Known(k, s) /\ Up(n, k, s) => Up(p, k, s)
         /\ \A q : Known(q, s) /\ Up(q, n, s) => q = p \/ Up(q, p, s) \/ Quiet(q, s)
<1>1. Up(p, n, s)
  BY Stages DEF Up, Feeds, Known
<1>2. ASSUME NEW k, Known(k, s), Up(n, k, s)
      PROVE  Up(p, k, s)
  BY <1>2, Stages DEF Up, Feeds, Known, Kinds
<1>3. ASSUME NEW q, Known(q, s), Up(q, n, s)
      PROVE  q = p \/ Up(q, p, s) \/ Quiet(q, s)
  <2>1. /\ q.robot = n.robot /\ p.robot = n.robot
        /\ p.kind = "fake" => p.robot \notin OnBoard(s)
        /\ q.kind = "fake" => q.robot \notin OnBoard(s)
    BY <1>3 DEF Up, Feeds, Known, OnBoard
  <2>2. p.kind = q.kind /\ (p.kind \in {"slam", "fake", "relay"} \/ p.at = q.at) => p = q
    BY <1>3, <2>1, OneOfAKind DEF Known, Feeds, Up, Kinds
  <2>3. CASE n.kind = "relay"
    BY <1>3, <2>1, <2>2, <2>3, Stages DEF Up, Feeds, Known, Kinds
  <2>4. CASE n.kind = "bridge"
    BY <1>3, <2>1, <2>2, <2>4, Stages DEF Up, Feeds, Known, Kinds
  <2>5. CASE n.kind = "decompressor"
    BY <1>3, <2>1, <2>2, <2>5, Stages DEF Up, Feeds, Known, Kinds
  <2>6. CASE n.kind = "expansion"
    BY <1>3, <2>1, <2>2, <2>6, Stages DEF Up, Feeds, Known, Kinds, Quiet
  <2>. QED
    BY <2>3, <2>4, <2>5, <2>6 DEF Feeds
<1>. QED
  BY <1>1, <1>2, <1>3

LEMMA SlamSendsOn ==
  ASSUME NEW s, NEW p, Known(p, s), p.kind = "slam"
  PROVE  /\ p.to[2] = "map"
         /\ s.slam_in_namespace => p.to[1] = p.robot
         /\ ~s.slam_in_namespace => p.to[1] = ""
<1>1. p.to = SlamTopic(s, p.robot)
  BY SlamFields DEF Known
<1>2. CASE s.slam_in_namespace
  <2>1. SlamTopic(s, p.robot) = <<p.robot, "map">>
    BY <1>2 DEF SlamTopic
  <2>. QED
    BY <1>1, <1>2, <2>1, TopicFields
<1>3. CASE ~s.slam_in_namespace
  <2>1. SlamTopic(s, p.robot) = <<"", "map">>
    BY <1>3 DEF SlamTopic
  <2>2. <<"", "map">>[1] = "" /\ <<"", "map">>[2] = "map"
    BY TopicFields, Zenon
  <2>3. p.to[1] = "" /\ p.to[2] = "map"
    BY <1>1, <2>1, <2>2, Zenon
  <2>. QED
    BY <1>3, <2>3
<1>. QED
  BY <1>2, <1>3

LEMMA RelaySendsOn ==
  ASSUME NEW s, NEW p, Known(p, s), p.kind = "relay"
  PROVE  /\ p.to[1] = p.robot
         /\ Compresses(s, p.robot) => p.to[2] = "map_compressed"
         /\ ~Compresses(s, p.robot) => p.to[2] = "map"
<1>1. p.to = RelayTopic(s, p.robot)
  BY RelayFields DEF Known
<1>. QED
  BY <1>1, TopicFields DEF RelayTopic

LEMMA OthersSendOn ==
  ASSUME NEW s, NEW p, Known(p, s)
  PROVE  /\ p.kind \in {"fake", "bridge", "decompressor", "expansion"} => p.to[1] = p.robot
         /\ p.kind \in {"fake", "decompressor"} => p.to[2] = "map"
         /\ p.kind = "bridge" => p.to[2] = "map_compressed"
         /\ p.kind = "expansion" => p.to[2] = "map_fixed"
<1>1. CASE p.kind = "fake"
  <2>1. p.to = <<p.robot, "map">>
    BY <1>1, FakeFields DEF Known
  <2>. QED
    BY <1>1, <2>1, TopicFields
<1>2. CASE p.kind = "bridge"
  <2>1. p.to = <<p.robot, "map_compressed">>
    BY <1>2, BridgeFields DEF Known
  <2>. QED
    BY <1>2, <2>1, TopicFields
<1>3. CASE p.kind = "decompressor"
  <2>1. p.to = <<p.robot, "map">>
    BY <1>3, DecompressorFields DEF Known
  <2>. QED
    BY <1>3, <2>1, TopicFields
<1>4. CASE p.kind = "expansion"
  <2>1. p.to = <<p.robot, "map_fixed">>
    BY <1>4, ExpansionFields DEF Known
  <2>. QED
    BY <1>4, <2>1, TopicFields
<1>. QED
  BY <1>1, <1>2, <1>3, <1>4

LEMMA OwnCanvasInput ==
  ASSUME NEW s, NEW r, r # Laptop
  PROVE  CanvasInput(s, r, r)[1] = ""
<1>1. CanvasInput(s, r, r) = <<"", "map">>
  BY DEF CanvasInput
<1>. QED
  BY <1>1, TopicFields

LEMMA OtherCanvasInput ==
  ASSUME NEW s, NEW m, NEW r, r # m
  PROVE  /\ CanvasInput(s, m, r)[1] = r /\ CanvasInput(s, m, r)[2] \in {"map", "map_relay"}
         /\ m = Laptop /\ s.base # "swarm" => CanvasInput(s, m, r)[2] = "map_relay"
<1>1. CASE m = Laptop /\ s.base # "swarm"
  <2>1. CanvasInput(s, m, r) = <<r, "map_relay">>
    BY <1>1 DEF CanvasInput
  <2>. QED
    BY <2>1, TopicFields
<1>2. CASE ~(m = Laptop /\ s.base # "swarm")
  <2>1. CanvasInput(s, m, r) = <<r, "map">>
    BY <1>2 DEF CanvasInput
  <2>. QED
    BY <1>2, <2>1, TopicFields
<1>. QED
  BY <1>1, <1>2

LEMMA HearsOn ==
  ASSUME NEW s, NEW n, Known(n, s), NEW topic \in n.from
  PROVE  /\ n.kind \notin {"slam", "fake"}
         /\ n.kind = "relay" => topic[2] = "map"
         /\ n.kind \in {"bridge", "decompressor"} => topic[2] = "map_compressed"
         /\ n.kind = "expansion" => topic = CanvasInput(s, n.at, n.robot)
<1>1. CASE n.kind = "slam"
  BY <1>1, SlamFields DEF Known
<1>2. CASE n.kind = "fake"
  BY <1>2, FakeFields DEF Known
<1>3. CASE n.kind = "relay"
  <2>1. topic \in RelayInput(n.robot)
    BY <1>3, RelayFields DEF Known
  <2>2. CASE topic = <<n.robot, "map">>
    BY <1>3, <2>2, TopicFields
  <2>3. CASE topic = <<"", "map">>
    BY <1>3, <2>3, TopicFields
  <2>. QED
    BY <2>1, <2>2, <2>3 DEF RelayInput
<1>4. CASE n.kind = "bridge"
  <2>1. topic = <<n.robot, "map_compressed">>
    BY <1>4, BridgeFields DEF Known
  <2>. QED
    BY <1>4, <2>1, TopicFields
<1>5. CASE n.kind = "decompressor"
  <2>1. topic = <<n.robot, "map_compressed">>
    BY <1>5, DecompressorFields DEF Known
  <2>. QED
    BY <1>5, <2>1, TopicFields
<1>6. CASE n.kind = "expansion"
  <2>1. topic = CanvasInput(s, n.at, n.robot)
    BY <1>6, ExpansionFields DEF Known
  <2>. QED
    BY <1>6, <2>1
<1>7. CASE n.kind = "merger"
  BY <1>7
<1>. QED
  BY <1>1, <1>2, <1>3, <1>4, <1>5, <1>6, <1>7 DEF Known, Kinds

-----------------------------------------------------------------------------
(* Every way to hear of a robot is one of those of Feeds                   *)

\* What is heard on one machine, or on all of them without Zenoh.
LEMMA HeardFeeds ==
  ASSUME NEW s \in Setup, Straight(s), NEW n, NEW p, Known(n, s), Known(p, s),
         n.kind \in {"relay", "decompressor", "expansion"}, p.kind # "merger",
         p.robot = n.robot, p.to \in n.from, p.at = n.at \/ ~s.use_zenoh, ~Quiet(p, s)
  PROVE  Feeds(p, n, s)
<1>0. /\ p.robot \in Robots /\ p.robot # "" /\ p.robot # Laptop
      /\ p.kind = "fake" => p.robot \notin OnBoard(s)
  BY DeploymentAssumption DEF Known, OnBoard
<1>1. CASE n.kind = "relay"
  <2>1. p.to[2] = "map"
    BY <1>1, HearsOn
  <2>2. p.kind \in {"slam", "fake", "relay", "decompressor"}
    BY <2>1, OthersSendOn DEF Known, Kinds
  <2>3. p.kind # "fake" /\ (p.kind = "decompressor" => p.at # n.at)
    BY <1>0, <1>1 DEF Known
  <2>4. p.kind = "relay" => p = n
    BY <1>1, OneOfAKind
  <2>. QED
    BY <1>1, <2>2, <2>3, <2>4 DEF Feeds, Quiet
<1>2. CASE n.kind = "decompressor"
  <2>1. p.to[2] = "map_compressed"
    BY <1>2, HearsOn
  <2>2. p.kind = "bridge" \/ (p.kind = "relay" /\ Compresses(s, p.robot))
    BY <2>1, SlamSendsOn, RelaySendsOn, OthersSendOn DEF Known, Kinds
  <2>3. CASE p.kind = "bridge"
    BY <1>2, <2>3 DEF Feeds, Quiet
  <2>4. CASE p.kind = "relay" /\ Compresses(s, p.robot)
    <3>1. p.at # n.at /\ ~s.use_zenoh
      BY <1>2, <2>4 DEF Known
    <3>2. s.enable_compression /\ ~(s.base = "swarm" /\ s.use_compression)
      BY <1>0, <2>4, <3>1 DEF Straight, Compresses, Setup
    <3>3. Restores(s, n.at) /\ (n.at # Laptop => n.at \in Robots)
      BY <1>2 DEF Known, Restores, Machines
    <3>. QED
      BY <3>1, <3>2, <3>3 DEF Restores, Straight
  <2>. QED
    BY <2>2, <2>3, <2>4
<1>3. CASE n.kind = "expansion"
  <2>1. p.to = CanvasInput(s, n.at, n.robot)
    BY <1>3, HearsOn
  <2>2. CASE n.at = n.robot
    <3>1. p.to[1] = ""
      BY <1>0, <2>1, <2>2, OwnCanvasInput
    <3>2. p.kind = "slam"
      BY <1>0, <3>1, RelaySendsOn, OthersSendOn DEF Known, Kinds
    <3>. QED
      BY <1>3, <2>2, <3>2 DEF Feeds
  <2>3. CASE n.at # n.robot
    <3>1. /\ p.to[1] = n.robot /\ p.to[2] \in {"map", "map_relay"}
          /\ n.at = Laptop /\ s.base # "swarm" => p.to[2] = "map_relay"
      BY <2>1, <2>3, OtherCanvasInput
    <3>2. /\ p.kind \in {"slam", "fake", "relay", "decompressor"} /\ p.to[2] = "map"
          /\ p.kind = "slam" => s.slam_in_namespace
          /\ p.kind = "relay" => ~Compresses(s, p.robot)
      <4>1. p.kind = "slam" => p.to[2] = "map" /\ s.slam_in_namespace
        BY <1>0, <3>1, SlamSendsOn
      <4>2. p.kind = "relay" => p.to[2] = "map" /\ ~Compresses(s, p.robot)
        BY <3>1, RelaySendsOn
      <4>3. p.kind \in {"fake", "decompressor"} => p.to[2] = "map"
        BY OthersSendOn
      <4>4. p.kind \notin {"bridge", "expansion", "merger"}
        BY <3>1, OthersSendOn
      <4>. QED
        BY <4>1, <4>2, <4>3, <4>4 DEF Known, Kinds
    <3>3. n.at = Laptop => s.base = "swarm"
      BY <3>1, <3>2
    <3>4. CASE p.kind = "fake" \/ p.kind = "decompressor"
      BY <1>3, <3>4 DEF Feeds, Quiet
    <3>5. CASE p.kind = "slam" \/ p.kind = "relay"
      <4>1. p.at # n.at /\ ~s.use_zenoh
        BY <2>3, <3>5 DEF Known
      <4>2. n.at = Laptop
        BY <1>3, <4>1 DEF Known, Merges, Straight, Machines
      <4>3. /\ s.enable_compression => p.kind # "relay"
            /\ ~s.enable_compression => p.kind # "slam"
        BY <3>2, <3>3, <4>1, <4>2 DEF Straight, Compresses, Setup
      <4>. QED
        BY <1>3, <2>3, <3>5, <4>1, <4>3 DEF Feeds
    <3>. QED
      BY <3>2, <3>4, <3>5
  <2>. QED
    BY <2>2, <2>3
<1>. QED
  BY <1>1, <1>2, <1>3

\* What a bridge takes in.
LEMMA BridgedFeeds ==
  ASSUME NEW s \in Setup, Straight(s), NEW n, NEW p, Known(n, s), Known(p, s),
         n.kind = "bridge", p.kind \notin {"bridge", "merger"}, p.robot = n.robot, p.to \in n.from
  PROVE  Feeds(p, n, s)
<1>1. p.to[2] = "map_compressed"
  BY HearsOn
<1>2. p.kind = "relay"
  BY <1>1, SlamSendsOn, OthersSendOn DEF Known, Kinds
<1>3. s.use_zenoh
  BY DEF Known, Joins, Straight, Machines
<1>. QED
  BY <1>2, <1>3 DEF Feeds

LEMMA FeedsNotQuiet ==
  ASSUME NEW s, NEW n, NEW p, Known(n, s), Known(p, s), Feeds(p, n, s), ~Quiet(p, s)
  PROVE  ~Quiet(n, s)
BY DEF Feeds, Quiet, Known, Kinds

\* A merger takes canvases only, and only those of its own machine.
LEMMA MergerHears ==
  ASSUME NEW s \in Setup, Straight(s), KeptApart(s), NEW n, NEW p, Known(n, s), Known(p, s),
         Shaped(p, s), n.kind = "merger", p.to \in n.from, p.at = n.at \/ ~s.use_zenoh
  PROVE  p.kind = "expansion" /\ p.at = n.at
<1>. DEFINE namespace == IF n.at = Laptop THEN "" ELSE n.at
            delay == IF n.at = Laptop THEN 2 ELSE 14
<1>1. n \in Merger(s, n.at, namespace, delay) /\ Merges(s, n.at)
  BY DEF Known, MergerOf
<1>2. n.at # Laptop => n.at \in Robots /\ s.bringup[n.at] = "decentralized"
  BY <1>1 DEF Known, Machines, Merges
<1>3. ParamsApply(s, namespace)
  BY <1>2 DEF ParamsApply, KeptApart
<1>. HIDE DEF namespace, delay
<1>4. n.from \subseteq {<<r, "map_fixed">> : r \in Configured(s)}
  BY <1>1, <1>3, MergerFields
<1>5. p.to[2] = "map_fixed"
  BY <1>4, TopicFields
<1>6. p.kind = "expansion"
  BY <1>5, SlamSendsOn, RelaySendsOn, OthersSendOn DEF Known, Kinds, Shaped
<1>7. CASE ~s.use_zenoh
  <2>1. p.at = Laptop \/ s.bringup[p.at] = "decentralized"
    BY <1>6 DEF Known, Merges
  <2>2. p.at = Laptop \/ p.at \in Robots
    BY DEF Known, Machines
  <2>. QED
    BY <1>2, <1>6, <1>7, <2>1, <2>2 DEF Straight
<1>. QED
  BY <1>6, <1>7

LEMMA CanvasTopic ==
  ASSUME NEW s, NEW e, NEW p, Known(e, s), Known(p, s), e.kind = "expansion",
         p.kind = "expansion", e.at = p.at, e.to = p.to
  PROVE  e = p
<1>1. e.to[1] = e.robot /\ p.to[1] = p.robot
  BY OthersSendOn
<1>. QED
  BY <1>1, OneOfAKind

-----------------------------------------------------------------------------
(* Newer and older grids                                                   *)

\* Grid a shows every robot that b does, in the same version or a later one, or
\* in any version if the robot's maps are loose.
Covers(loose, a, b) == \A x \in b : \E y \in a : y[1] = x[1] /\ (y[2] >= x[2] \/ x[1] \in loose)

LEMMA MapFields ==
  ASSUME NEW x \in AllMaps
  PROVE  x[1] \in Robots /\ x[2] \in Nat /\ x \in MapsOf(x[1])
<1>1. PICK r \in Robots : x \in MapsOf(r)
  BY DEF AllMaps
<1>2. Maps[r] \in Nat
  BY DeploymentAssumption
<1>. QED
  BY <1>1, <1>2 DEF MapsOf

LEMMA CoversItself ==
  ASSUME NEW loose, NEW a \in SUBSET AllMaps
  PROVE  Covers(loose, a, a)
BY MapFields DEF Covers

LEMMA CoversAll ==
  ASSUME NEW loose, NEW a \in SUBSET AllMaps, NEW b \in SUBSET AllMaps, NEW c \in SUBSET AllMaps,
         Covers(loose, a, b), Covers(loose, b, c)
  PROVE  Covers(loose, a, c)
<1>. SUFFICES ASSUME NEW x \in c
              PROVE  \E z \in a : z[1] = x[1] /\ (z[2] >= x[2] \/ x[1] \in loose)
  BY DEF Covers
<1>1. PICK y \in b : y[1] = x[1] /\ (y[2] >= x[2] \/ x[1] \in loose)
  BY DEF Covers
<1>2. PICK z \in a : z[1] = y[1] /\ (z[2] >= y[2] \/ y[1] \in loose)
  BY DEF Covers
<1>3. x[2] \in Nat /\ y[2] \in Nat /\ z[2] \in Nat
  BY MapFields
<1>4. z[1] = x[1] /\ (z[2] >= x[2] \/ x[1] \in loose)
  BY <1>1, <1>2, <1>3
<1>. QED
  BY <1>4

LEMMA CoversLooser ==
  ASSUME NEW loose, NEW wider, loose \subseteq wider, NEW a, NEW b, Covers(loose, a, b)
  PROVE  Covers(wider, a, b)
BY DEF Covers

\* Of a robot whose maps are loose, any map covers any other.
LEMMA LooseCovers ==
  ASSUME NEW loose, NEW r \in Robots, r \in loose,
         NEW a \in SUBSET MapsOf(r), a # {}, NEW b \in SUBSET MapsOf(r)
  PROVE  Covers(loose, a, b)
<1>1. \A x \in MapsOf(r) : x[1] = r
  BY DEF MapsOf
<1>. QED
  BY <1>1 DEF Covers

\* A new map covers whatever a robot's topics show of older ones.
LEMMA NewestCovers ==
  ASSUME NEW loose, NEW r \in Robots, NEW v \in Nat, NEW grid \in SUBSET MapsOf(r),
         \A x \in grid : x[2] <= v
  PROVE  Covers(loose, {<<r, v>>}, grid)
<1>. SUFFICES ASSUME NEW x \in grid
              PROVE  \E y \in {<<r, v>>} : y[1] = x[1] /\ (y[2] >= x[2] \/ x[1] \in loose)
  BY DEF Covers
<1>1. x[1] = r /\ x[2] <= v
  BY DEF MapsOf
<1>2. x[2] \in Nat
  BY MapFields DEF AllMaps
<1>3. <<r, v>>[1] = r /\ <<r, v>>[2] = v
  BY TopicFields
<1>. QED
  BY <1>1, <1>2, <1>3

-----------------------------------------------------------------------------
(* The order invariant                                                     *)

\* A message is one grid.
OneGrid == \A n \in nodes : out[n] = <<>> \/ out[n] = <<out[n][1]>>

\* No topic is newer than the robot's SLAM, and a fake robot has one map.
FromSlam ==
  /\ \A n \in nodes : n.kind # "merger" =>
       /\ out[n] # <<>> => \A x \in out[n][1] : x[2] <= version[x[1]]
       /\ kept[n] # <<>> => \A x \in kept[n][1] : x[2] <= version[x[1]]
  /\ \A r \in Robots : setup.bringup[r] = "fake" => version[r] <= 1

\* Only a canvas may be blank.
Shown ==
  \A n \in nodes : n.kind \notin {"expansion", "merger"} =>
    (out[n] # <<>> => out[n][1] # {}) /\ (kept[n] # <<>> => kept[n][1] # {})

Silent == \A n \in nodes : Quiet(n, setup) => out[n] = <<>>

\* A node is never behind one that it is upstream of.
Ahead(loose) ==
  \A p, n \in nodes :
    Up(p, n, setup) /\ out[p] # <<>> /\ out[n] # <<>> => Covers(loose, out[p][1], out[n][1])

\* What a node keeps for late joiners is no newer than its last message.
KeptBehind(loose) ==
  \A n \in nodes : n.kind # "merger" /\ kept[n] # <<>> =>
    out[n] # <<>> /\ Covers(loose, out[n][1], kept[n][1])

\* Node n has sent nothing, and may be given what p keeps.
Awaits(n, p) ==
  /\ n.kind \in {"relay", "bridge", "decompressor"} /\ ~Quiet(n, setup)
  /\ Feeds(p, n, setup) /\ p # n
  /\ out[n] = <<>> /\ kept[p] # <<>>

\* That will not be older than what is downstream of n from before.
Replayable(loose) ==
  \A n, p, k \in nodes :
    Awaits(n, p) /\ Up(n, k, setup) /\ out[k] # <<>> => Covers(loose, kept[p][1], out[k][1])

\* A merger is never ahead of the canvases it takes, nor is what it sends ahead
\* of what it keeps.
HeldBehind(loose) ==
  \A n \in Mergers : \A e \in nodes :
    e.kind = "expansion" /\ e.at = n.at /\ e.to \in n.from /\ held[n][e.to] # <<>> =>
      out[e] # <<>> /\ Covers(loose, out[e][1], held[n][e.to][1])

MergedGrid(n) == UNION {held[n][topic][1] : topic \in Drawn(n)}

MergedBehind(loose) ==
  \A n \in Mergers : out[n] # <<>> => Covers(loose, MergedGrid(n), out[n][1])

Ordered(loose) ==
  /\ Ahead(loose) /\ KeptBehind(loose) /\ Replayable(loose)
  /\ HeldBehind(loose) /\ MergedBehind(loose)

OrderInv == OneGrid /\ FromSlam /\ Shown /\ Silent /\ Ordered(disordered)

\* NothingGoesBack, without the words of sequences.
GoesOn ==
  \A n \in nodes : out[n] # <<>> /\ out'[n] # <<>> => Covers(disordered', out'[n][1], out[n][1])

\* What holds besides.
Sound == EachItsOwn /\ TypesInv /\ Straight(setup)

LEMMA SoundNodes ==
  ASSUME Sound
  PROVE  /\ setup \in Setup
         /\ \A n \in nodes : Known(n, setup) /\ Shaped(n, setup)
         /\ \A n \in nodes : out[n] # <<>> => out[n][1] \in SUBSET AllMaps
         /\ \A n \in nodes : kept[n] # <<>> => kept[n][1] \in SUBSET AllMaps
         /\ \A n \in nodes : n.kind # "merger" /\ out[n] # <<>> => out[n][1] \in SUBSET MapsOf(n.robot)
         /\ \A n \in nodes : n.kind # "merger" /\ kept[n] # <<>> => kept[n][1] \in SUBSET MapsOf(n.robot)
<1>1. setup \in Setup /\ \A n \in nodes : Known(n, setup) /\ Shaped(n, setup)
  BY DeploymentAssumption, TheNodesKnown, TheNodes DEF Sound, EachItsOwn
<1>2. \A n \in nodes : (out[n] # <<>> => out[n][1] \in SUBSET AllMaps)
                       /\ (kept[n] # <<>> => kept[n][1] \in SUBSET AllMaps)
  BY DEF Sound, TypesInv, TypeOK
<1>3. \A n \in nodes : n.kind # "merger" =>
        (out[n] # <<>> => out[n][1] \in SUBSET MapsOf(n.robot))
        /\ (kept[n] # <<>> => kept[n][1] \in SUBSET MapsOf(n.robot))
  BY DEF Sound, EachItsOwn, OnlyItsRobot
<1>. QED
  BY <1>1, <1>2, <1>3

LEMMA HeldMaps ==
  ASSUME Sound, NEW n \in Mergers
  PROVE  /\ \A t \in n.from : held[n][t] # <<>> => held[n][t][1] \in SUBSET AllMaps
         /\ MergedGrid(n) \in SUBSET AllMaps
BY DEF Sound, TypesInv, MergedGrid, Drawn

\* What is in order stays so when more robots' maps become loose.
LEMMA LooserOrder ==
  ASSUME NEW loose, NEW wider, loose \subseteq wider, Ordered(loose)
  PROVE  Ordered(wider)
<1>1. Ahead(wider) /\ KeptBehind(wider)
  BY CoversLooser DEF Ordered, Ahead, KeptBehind
<1>2. Replayable(wider)
  BY CoversLooser DEF Ordered, Replayable
<1>3. HeldBehind(wider) /\ MergedBehind(wider)
  BY CoversLooser DEF Ordered, HeldBehind, MergedBehind
<1>. QED
  BY <1>1, <1>2, <1>3 DEF Ordered

-----------------------------------------------------------------------------
(* The steps                                                               *)

\* A node other than a merger sends a grid.
LEMMA EmitOrder ==
  ASSUME Sound, OrderInv, setup' = setup, held' = held, disordered \subseteq disordered',
         NEW n \in nodes, n.kind # "merger",
         NEW grid \in SUBSET AllMaps, Emit(n, grid), version' \in [Robots -> Nat],
         \A r \in Robots : version'[r] >= version[r],
         \A r \in Robots : setup.bringup[r] = "fake" => version'[r] <= 1,
         \A x \in grid : x[2] <= version'[x[1]],
         ~Quiet(n, setup), n.kind # "expansion" => grid # {},
         out[n] # <<>> => Covers(disordered', grid, out[n][1]),
         \A k \in nodes : Up(n, k, setup) /\ out[k] # <<>> => Covers(disordered', grid, out[k][1]),
         \A q \in nodes : Up(q, n, setup) /\ out[q] # <<>> => Covers(disordered', out[q][1], grid),
         \A j, p \in nodes : Awaits(j, p) /\ Up(j, n, setup) => Covers(disordered', kept[p][1], grid)
  PROVE  OrderInv' /\ GoesOn
<1>1. nodes' = nodes /\ Mergers' = Mergers
  BY NodesStay DEF Mergers
<1>2. /\ out' = [out EXCEPT ![n] = <<grid>>] /\ DOMAIN out = nodes
      /\ kept' = [kept EXCEPT ![n] = IF Keeps(n) /\ out[n] # <<grid>> THEN out[n] ELSE kept[n]]
      /\ DOMAIN kept = nodes
  BY DEF Emit, Sound, EachItsOwn
<1>3. out'[n] = <<grid>> /\ out'[n] # <<>> /\ out'[n][1] = grid
  BY <1>2
<1>4. \A k \in nodes \ {n} : out'[k] = out[k] /\ kept'[k] = kept[k]
  BY <1>2
<1>5. kept'[n] = out[n] \/ kept'[n] = kept[n]
  BY <1>2
<1>6. \A k \in nodes : /\ out[k] # <<>> => out[k][1] \in SUBSET AllMaps
                       /\ kept[k] # <<>> => kept[k][1] \in SUBSET AllMaps
  BY SoundNodes
<1>. DEFINE loose == disordered'
<1>. HIDE DEF Emit, loose
<1>7. Ordered(loose)
  BY LooserOrder DEF OrderInv, loose
<1>8. GoesOn
  <2>. SUFFICES ASSUME NEW k \in nodes, out[k] # <<>>, out'[k] # <<>>
                PROVE  Covers(disordered', out'[k][1], out[k][1])
    BY DEF GoesOn
  <2>. QED
    BY <1>3, <1>4, <1>6, CoversItself
<1>9. OneGrid'
  BY <1>1, <1>3, <1>4 DEF OrderInv, OneGrid
<1>10. FromSlam'
  <2>1. ASSUME NEW message, message # <<>>, message[1] \in SUBSET AllMaps,
               \A x \in message[1] : x[2] <= version[x[1]], NEW x \in message[1]
        PROVE  x[2] <= version'[x[1]]
    <3>1. x[2] <= version[x[1]] /\ x[1] \in Robots /\ x[2] \in Nat
      BY <2>1, MapFields
    <3>2. version[x[1]] \in Nat /\ version'[x[1]] \in Nat
      BY <3>1 DEF Sound, TypesInv, TypeOK
    <3>. QED
      BY <3>1, <3>2
  <2>2. \A k \in nodes : k.kind # "merger" =>
          /\ out[k] # <<>> => \A x \in out[k][1] : x[2] <= version'[x[1]]
          /\ kept[k] # <<>> => \A x \in kept[k][1] : x[2] <= version'[x[1]]
    BY <1>6, <2>1 DEF OrderInv, FromSlam
  <2>3. \A k \in nodes : k.kind # "merger" =>
          /\ out'[k] # <<>> => \A x \in out'[k][1] : x[2] <= version'[x[1]]
          /\ kept'[k] # <<>> => \A x \in kept'[k][1] : x[2] <= version'[x[1]]
    BY <1>3, <1>4, <1>5, <2>2
  <2>. QED
    BY <1>1, <2>3 DEF FromSlam
<1>11. Shown'
  BY <1>1, <1>3, <1>4, <1>5 DEF OrderInv, Shown
<1>12. Silent'
  BY <1>1, <1>4 DEF OrderInv, Silent, Quiet, OnBoard
<1>13. Ahead(disordered)'
  <2>1. ASSUME NEW p \in nodes, NEW k \in nodes, Up(p, k, setup), out'[p] # <<>>, out'[k] # <<>>
        PROVE  Covers(disordered', out'[p][1], out'[k][1])
    <3>1. CASE p = n /\ k = n
      BY <2>1, <3>1, SoundNodes, Stages DEF Up, Known, Kinds
    <3>2. CASE p = n /\ k # n
      BY <1>3, <1>4, <2>1, <3>2
    <3>3. CASE p # n /\ k = n
      BY <1>3, <1>4, <2>1, <3>3
    <3>4. CASE p # n /\ k # n
      BY <1>4, <1>7, <2>1, <3>4 DEF Ordered, Ahead, loose
    <3>. QED
      BY <3>1, <3>2, <3>3, <3>4
  <2>. QED
    BY <1>1, <2>1 DEF Ahead, Up
<1>14. KeptBehind(disordered)'
  <2>1. ASSUME NEW k \in nodes, k.kind # "merger", kept'[k] # <<>>
        PROVE  out'[k] # <<>> /\ Covers(disordered', out'[k][1], kept'[k][1])
    <3>1. CASE k # n
      BY <1>4, <1>7, <2>1, <3>1 DEF Ordered, KeptBehind, loose
    <3>2. CASE k = n /\ kept'[n] = out[n]
      BY <1>3, <2>1, <3>2
    <3>3. CASE k = n /\ kept'[n] = kept[n]
      <4>1. out[n] # <<>> /\ Covers(disordered', out[n][1], kept[n][1])
        BY <1>7, <2>1, <3>3 DEF Ordered, KeptBehind, loose
      <4>2. Covers(disordered', grid, kept[n][1])
        BY <1>6, <2>1, <3>3, <4>1, CoversAll
      <4>. QED
        BY <1>3, <3>3, <4>2
    <3>. QED
      BY <1>5, <3>1, <3>2, <3>3
  <2>. QED
    BY <1>1, <2>1 DEF KeptBehind
<1>15. Replayable(disordered)'
  <2>1. ASSUME NEW j \in nodes, NEW p \in nodes, NEW k \in nodes, Up(j, k, setup),
               j.kind \in {"relay", "bridge", "decompressor"}, ~Quiet(j, setup),
               Feeds(p, j, setup), p # j, out'[j] = <<>>, kept'[p] # <<>>, out'[k] # <<>>
        PROVE  Covers(disordered', kept'[p][1], out'[k][1])
    <3>1. j # n /\ out[j] = <<>>
      BY <1>3, <1>4, <2>1
    <3>2. Up(p, j, setup) /\ Up(p, k, setup)
      BY <2>1, SoundNodes, FeedsFromUp
    <3>3. CASE p = n
      <4>1. k # n
        BY <2>1, <3>2, <3>3, SoundNodes, Stages DEF Up, Known, Kinds
      <4>2. CASE kept'[n] = out[n]
        BY <1>4, <1>7, <2>1, <3>2, <3>3, <4>1, <4>2 DEF Ordered, Ahead, loose
      <4>3. CASE kept'[n] = kept[n]
        <5>1. Awaits(j, p)
          BY <2>1, <3>1, <3>3, <4>3 DEF Awaits
        <5>. QED
          BY <1>4, <1>7, <2>1, <3>3, <4>1, <4>3, <5>1 DEF Ordered, Replayable, loose
      <4>. QED
        BY <1>5, <4>2, <4>3
    <3>4. CASE p # n
      <4>1. Awaits(j, p)
        BY <1>4, <2>1, <3>1, <3>4 DEF Awaits
      <4>2. CASE k = n
        BY <1>3, <1>4, <2>1, <3>4, <4>1, <4>2
      <4>3. CASE k # n
        BY <1>4, <1>7, <2>1, <3>4, <4>1, <4>3 DEF Ordered, Replayable, loose
      <4>. QED
        BY <4>2, <4>3
    <3>. QED
      BY <3>3, <3>4
  <2>. QED
    BY <1>1, <2>1 DEF Replayable, Awaits, Up, Quiet, Feeds, OnBoard
<1>16. HeldBehind(disordered)'
  <2>1. ASSUME NEW k \in Mergers, NEW e \in nodes, e.kind = "expansion", e.at = k.at,
               e.to \in k.from, held[k][e.to] # <<>>
        PROVE  out'[e] # <<>> /\ Covers(disordered', out'[e][1], held[k][e.to][1])
    <3>1. out[e] # <<>> /\ Covers(disordered', out[e][1], held[k][e.to][1])
      BY <1>7, <2>1 DEF Ordered, HeldBehind, loose
    <3>2. CASE e = n
      <4>1. held[k][e.to][1] \in SUBSET AllMaps /\ out[n][1] \in SUBSET AllMaps
        BY <1>6, <2>1, <3>1, <3>2, HeldMaps
      <4>. QED
        BY <1>3, <3>1, <3>2, <4>1, CoversAll
    <3>3. CASE e # n
      BY <1>4, <3>1, <3>3
    <3>. QED
      BY <3>2, <3>3
  <2>. QED
    BY <1>1, <2>1 DEF HeldBehind
<1>17. MergedBehind(disordered)'
  <2>1. \A k \in Mergers : out'[k] = out[k]
    BY <1>4 DEF Mergers
  <2>. QED
    BY <1>1, <1>7, <2>1 DEF Ordered, MergedBehind, MergedGrid, Drawn, loose
<1>. QED
  BY <1>8, <1>9, <1>10, <1>11, <1>12, <1>13, <1>14, <1>15, <1>16, <1>17 DEF OrderInv, Ordered

\* A node sends on the last message of one that it hears, or the one before it.
LEMMA PassOrder ==
  ASSUME Sound, OrderInv, NEW n \in nodes, NEW p \in nodes, n.kind # "merger",
         n.kind = "expansion" \/ p.kind # "expansion",
         Feeds(p, n, setup), out[p] # <<>>,
         NEW message \in Offered(n, p), Pass(n, message),
         n.kind = "expansion" => message = out[p]
  PROVE  OrderInv' /\ GoesOn
<1>. DEFINE grid == message[1]
<1>1. /\ setup' = setup /\ held' = held /\ version' = version /\ disordered' = disordered
      /\ Emit(n, grid)
  BY DEF Pass, machines
<1>2. \A k \in nodes : /\ Known(k, setup)
                       /\ out[k] # <<>> => out[k][1] \in SUBSET AllMaps
                       /\ kept[k] # <<>> => kept[k][1] \in SUBSET AllMaps
  BY SoundNodes
<1>3. message # <<>> /\ (message = out[p] \/ (message = kept[p] /\ out[n] = <<>> /\ p # n))
  BY DEF Offered
<1>4. grid \in SUBSET AllMaps
  BY <1>2, <1>3
<1>5. version \in [Robots -> Nat]
  BY DEF Sound, TypesInv, TypeOK
<1>6. ~Quiet(p, setup)
  BY DEF OrderInv, Silent
<1>7. ~Quiet(n, setup)
  BY <1>2, <1>6, FeedsNotQuiet
<1>8. p.kind # "merger"
  BY <1>2 DEF Feeds, Known, Kinds
<1>9. \A x \in grid : x[2] <= version[x[1]]
  BY <1>3, <1>8 DEF OrderInv, FromSlam
<1>10. n.kind # "expansion" => grid # {}
  BY <1>3, <1>8 DEF OrderInv, Shown
<1>. DEFINE loose == disordered
<1>11. Ordered(loose) /\ loose = disordered'
  BY <1>1 DEF OrderInv
<1>. HIDE DEF loose
<1>12. Covers(loose, out[p][1], grid)
  BY <1>2, <1>3, <1>8, <1>11, CoversItself DEF Ordered, KeptBehind
<1>13. message = kept[p] /\ message # out[p] => Awaits(n, p)
  <2>1. n.kind \notin {"slam", "fake", "expansion"} \/ message = out[p]
    BY <1>2, <1>3 DEF Feeds, Known
  <2>. QED
    BY <1>2, <1>3, <1>7, <2>1 DEF Awaits, Known, Kinds
<1>14. out[n] # <<>> => Covers(loose, grid, out[n][1])
  <2>1. CASE p = n
    BY <1>2, <1>3, <2>1, CoversItself
  <2>2. CASE p # n
    <3>1. Up(p, n, setup)
      BY <1>2, <2>2, FeedsFromUp
    <3>. QED
      BY <1>3, <1>11, <3>1 DEF Ordered, Ahead
  <2>. QED
    BY <2>1, <2>2
<1>15. ASSUME NEW k \in nodes, Up(n, k, setup), out[k] # <<>>
       PROVE  Covers(loose, grid, out[k][1])
  <2>1. Up(p, k, setup)
    BY <1>2, <1>15, FeedsFromUp
  <2>2. CASE message = out[p]
    BY <1>11, <1>15, <2>1, <2>2 DEF Ordered, Ahead
  <2>3. CASE message # out[p]
    BY <1>3, <1>11, <1>13, <1>15, <2>3 DEF Ordered, Replayable
  <2>. QED
    BY <2>2, <2>3
<1>16. ASSUME NEW q \in nodes, Up(q, n, setup), out[q] # <<>>
       PROVE  Covers(loose, out[q][1], grid)
  <2>1. ~Quiet(q, setup)
    BY <1>16 DEF OrderInv, Silent
  <2>2. q = p \/ Up(q, p, setup)
    BY <1>2, <1>16, <2>1, FeedsFromUp
  <2>3. Covers(loose, out[q][1], out[p][1])
    BY <1>2, <1>11, <1>16, <2>2, CoversItself DEF Ordered, Ahead
  <2>. QED
    BY <1>2, <1>4, <1>12, <1>16, <2>3, CoversAll
<1>17. ASSUME NEW j \in nodes, NEW q \in nodes, Awaits(j, q), Up(j, n, setup)
       PROVE  Covers(loose, kept[q][1], grid)
  <2>1. j # p /\ ~Quiet(j, setup)
    BY <1>17 DEF Awaits
  <2>2. p = n \/ Up(j, p, setup)
    BY <1>2, <1>17, <2>1, FeedsFromUp
  <2>3. Covers(loose, kept[q][1], out[p][1])
    BY <1>11, <1>17, <2>2 DEF Ordered, Replayable
  <2>4. kept[q][1] \in SUBSET AllMaps
    BY <1>2, <1>17 DEF Awaits
  <2>. QED
    BY <1>2, <1>4, <1>12, <2>3, <2>4, CoversAll
<1>18. \A r \in Robots : version'[r] >= version[r]
  BY <1>1, <1>5
<1>19. \A r \in Robots : setup.bringup[r] = "fake" => version'[r] <= 1
  BY <1>1 DEF OrderInv, FromSlam
<1>20. /\ out[n] # <<>> => Covers(disordered', grid, out[n][1])
       /\ \A k \in nodes : Up(n, k, setup) /\ out[k] # <<>> => Covers(disordered', grid, out[k][1])
       /\ \A q \in nodes : Up(q, n, setup) /\ out[q] # <<>> => Covers(disordered', out[q][1], grid)
       /\ \A j, q \in nodes : Awaits(j, q) /\ Up(j, n, setup) => Covers(disordered', kept[q][1], grid)
  BY <1>11, <1>14, <1>15, <1>16, <1>17
<1>. HIDE DEF grid
<1>. QED
  BY <1>1, <1>4, <1>5, <1>7, <1>9, <1>10, <1>18, <1>19, <1>20, EmitOrder

\* A map is overtaken: from then on those of its robot are loose.
LEMMA OvertakeOrder ==
  ASSUME Sound, OrderInv, NEW n \in nodes, NEW p \in nodes, Overtake(n, p), Feeds(p, n, setup)
  PROVE  OrderInv' /\ GoesOn
<1>. DEFINE grid == kept[p][1]
            loose == disordered'
<1>1. /\ setup' = setup /\ held' = held /\ version' = version
      /\ disordered' = disordered \cup {n.robot}
      /\ Emit(n, grid) /\ kept[p] # <<>> /\ out[p] # <<>>
      /\ n.kind \in {"relay", "decompressor"}
  BY DEF Overtake, Receives
<1>2. \A k \in nodes : /\ Known(k, setup)
                       /\ kept[k] # <<>> => kept[k][1] \in SUBSET AllMaps
  BY SoundNodes
<1>3. /\ p.robot = n.robot /\ p.kind \notin {"expansion", "merger"} /\ n.robot \in Robots
      /\ n.kind # "merger" /\ n.kind # "expansion" /\ n.robot \in loose
  BY <1>1, <1>2 DEF Feeds, Known
<1>. HIDE DEF loose
<1>4. version \in [Robots -> Nat]
  BY DEF Sound, TypesInv, TypeOK
<1>5. ~Quiet(n, setup)
  <2>1. ~Quiet(p, setup)
    BY <1>1 DEF OrderInv, Silent
  <2>. QED
    BY <1>2, <2>1, FeedsNotQuiet
<1>6. /\ grid \in SUBSET AllMaps /\ grid \in SUBSET MapsOf(n.robot) /\ grid # {}
      /\ \A x \in grid : x[2] <= version[x[1]]
  BY <1>1, <1>2, <1>3, SoundNodes DEF OrderInv, FromSlam, Shown
<1>. HIDE DEF grid
<1>7. ASSUME NEW k \in nodes, k.kind # "merger", k.robot = n.robot, out[k] # <<>>
      PROVE  Covers(loose, grid, out[k][1])
  BY <1>3, <1>6, <1>7, LooseCovers, SoundNodes
<1>8. ASSUME NEW q \in nodes, Up(q, n, setup), out[q] # <<>>
      PROVE  Covers(loose, out[q][1], grid)
  <2>1. q.kind \notin {"expansion", "merger"} /\ q.robot = n.robot
    BY <1>1, <1>2, <1>8, Stages DEF Up, Known, Kinds
  <2>2. out[q][1] # {} /\ out[q][1] \in SUBSET MapsOf(n.robot)
    BY <1>8, <2>1, SoundNodes DEF OrderInv, Shown
  <2>. QED
    BY <1>3, <1>6, <2>2, LooseCovers
<1>9. ASSUME NEW j \in nodes, NEW q \in nodes, Awaits(j, q), Up(j, n, setup)
      PROVE  Covers(loose, kept[q][1], grid)
  <2>1. q.robot = n.robot /\ q.kind \notin {"expansion", "merger"} /\ kept[q] # <<>>
    BY <1>2, <1>9 DEF Up, Awaits, Feeds, Known, Kinds
  <2>2. kept[q][1] # {} /\ kept[q][1] \in SUBSET MapsOf(n.robot)
    BY <2>1, SoundNodes DEF OrderInv, Shown
  <2>. QED
    BY <1>3, <1>6, <2>2, LooseCovers
<1>10. \A k \in nodes : Up(n, k, setup) => k.kind # "merger" /\ k.robot = n.robot
  BY DEF Up
<1>11. /\ disordered \subseteq disordered'
       /\ \A r \in Robots : version'[r] >= version[r]
       /\ \A r \in Robots : setup.bringup[r] = "fake" => version'[r] <= 1
       /\ version' \in [Robots -> Nat] /\ \A x \in grid : x[2] <= version'[x[1]]
  BY <1>1, <1>4, <1>6 DEF OrderInv, FromSlam
<1>12. /\ out[n] # <<>> => Covers(disordered', grid, out[n][1])
       /\ \A k \in nodes : Up(n, k, setup) /\ out[k] # <<>> => Covers(disordered', grid, out[k][1])
       /\ \A q \in nodes : Up(q, n, setup) /\ out[q] # <<>> => Covers(disordered', out[q][1], grid)
       /\ \A j, q \in nodes : Awaits(j, q) /\ Up(j, n, setup) => Covers(disordered', kept[q][1], grid)
  BY <1>3, <1>7, <1>8, <1>9, <1>10 DEF loose
<1>13. Emit(n, grid)
  BY <1>1 DEF grid
<1>. QED
  BY <1>1, <1>3, <1>5, <1>6, <1>11, <1>12, <1>13, EmitOrder

\* A merger sends what it keeps.
LEMMA MergingOrder ==
  ASSUME Sound, OrderInv, NEW n \in nodes, MapMerging(n)
  PROVE  OrderInv' /\ GoesOn
<1>. DEFINE grid == MergedGrid(n)
<1>1. nodes' = nodes /\ Mergers' = Mergers /\ n \in Mergers
  BY NodesStay DEF Mergers, MapMerging, machines
<1>2. /\ out' = [out EXCEPT ![n] = <<grid>>] /\ DOMAIN out = nodes
      /\ kept' = [kept EXCEPT ![n] = IF Keeps(n) /\ out[n] # <<grid>> THEN out[n] ELSE kept[n]]
      /\ DOMAIN kept = nodes
      /\ setup' = setup /\ held' = held /\ version' = version /\ disordered' = disordered
  BY DEF MapMerging, MergedGrid, Emit, Sound, EachItsOwn, machines
<1>3. grid \in SUBSET AllMaps
  BY <1>1, HeldMaps
<1>. HIDE DEF grid
<1>4. out'[n] = <<grid>> /\ out'[n] # <<>> /\ out'[n][1] = grid
  BY <1>2
<1>5. \A k \in nodes \ {n} : out'[k] = out[k] /\ kept'[k] = kept[k]
  BY <1>2
<1>6. \A k \in nodes : out[k] # <<>> => out[k][1] \in SUBSET AllMaps
  BY SoundNodes
<1>7. n.kind = "merger"
  BY <1>1 DEF Mergers
<1>8. GoesOn
  <2>. SUFFICES ASSUME NEW k \in nodes, out[k] # <<>>, out'[k] # <<>>
                PROVE  Covers(disordered', out'[k][1], out[k][1])
    BY DEF GoesOn
  <2>1. CASE k = n
    BY <1>1, <1>2, <1>4, <2>1 DEF OrderInv, Ordered, MergedBehind, grid
  <2>2. CASE k # n
    BY <1>5, <1>6, <2>2, CoversItself
  <2>. QED
    BY <2>1, <2>2
<1>9. OneGrid'
  BY <1>1, <1>4, <1>5 DEF OrderInv, OneGrid
<1>10. FromSlam'
  BY <1>1, <1>2, <1>5, <1>7 DEF OrderInv, FromSlam
<1>11. Shown' /\ Silent'
  BY <1>1, <1>2, <1>5, <1>7 DEF OrderInv, Shown, Silent, Quiet, OnBoard
<1>12. Ahead(disordered)' /\ KeptBehind(disordered)'
  <2>1. ASSUME NEW p \in nodes, NEW k \in nodes, Up(p, k, setup)
        PROVE  p # n /\ k # n
    BY <1>7, <2>1, SoundNodes, Stages DEF Up, Known, Kinds
  <2>2. Ahead(disordered)'
    BY <1>1, <1>2, <1>5, <2>1 DEF OrderInv, Ordered, Ahead, Up
  <2>. QED
    BY <1>1, <1>2, <1>5, <1>7, <2>2 DEF OrderInv, Ordered, KeptBehind
<1>13. Replayable(disordered)'
  <2>1. ASSUME NEW j \in nodes, NEW p \in nodes, NEW k \in nodes, Feeds(p, j, setup), p # j,
               Up(j, k, setup), j.kind \in {"relay", "bridge", "decompressor"}
        PROVE  j # n /\ p # n /\ k # n
    BY <1>7, <2>1 DEF Up, Feeds
  <2>. QED
    BY <1>1, <1>2, <1>5, <2>1 DEF OrderInv, Ordered, Replayable, Awaits, Up, Quiet, Feeds, OnBoard
<1>14. HeldBehind(disordered)'
  BY <1>1, <1>2, <1>5, <1>7 DEF OrderInv, Ordered, HeldBehind
<1>15. MergedBehind(disordered)'
  <2>1. ASSUME NEW k \in Mergers, out'[k] # <<>>
        PROVE  Covers(disordered', MergedGrid(k), out'[k][1])
    <3>1. CASE k = n
      BY <1>3, <1>4, <3>1, CoversItself DEF grid
    <3>2. CASE k # n
      BY <1>2, <1>5, <2>1, <3>2 DEF OrderInv, Ordered, MergedBehind, Mergers
    <3>. QED
      BY <3>1, <3>2
  <2>2. \A k \in Mergers : MergedGrid(k)' = MergedGrid(k)
    BY <1>2 DEF MergedGrid, Drawn
  <2>. QED
    BY <1>1, <2>1, <2>2 DEF MergedBehind
<1>. QED
  BY <1>8, <1>9, <1>10, <1>11, <1>12, <1>13, <1>14, <1>15 DEF OrderInv, Ordered

\* Nothing is sent or kept.
LEMMA QuietOrder ==
  ASSUME Sound, OrderInv, UNCHANGED <<setup, version, messages, held, disordered>>
  PROVE  OrderInv' /\ GoesOn
<1>1. nodes' = nodes /\ Mergers' = Mergers /\ out' = out /\ kept' = kept
  BY NodesStay DEF Mergers, messages
<1>2. OneGrid' /\ FromSlam' /\ Shown' /\ Silent'
  BY <1>1 DEF OrderInv, OneGrid, FromSlam, Shown, Silent, Quiet, OnBoard
<1>3. Ahead(disordered)' /\ KeptBehind(disordered)'
  BY <1>1 DEF OrderInv, Ordered, Ahead, Up, KeptBehind
<1>4. Replayable(disordered)'
  BY <1>1 DEF OrderInv, Ordered, Replayable, Awaits, Up, Quiet, Feeds, OnBoard
<1>5. HeldBehind(disordered)' /\ MergedBehind(disordered)'
  BY <1>1 DEF OrderInv, Ordered, HeldBehind, MergedBehind, MergedGrid, Drawn
<1>6. \A k \in nodes : out[k] # <<>> => out[k][1] \in SUBSET AllMaps
  BY SoundNodes
<1>7. GoesOn
  BY <1>1, <1>6, CoversItself DEF GoesOn
<1>. QED
  BY <1>2, <1>3, <1>4, <1>5, <1>7 DEF OrderInv, Ordered

\* Nodes end: canvases with the mergers that take them, and relays, bridges and
\* decompressors with the rest of their machine or else leaving maps loose.
LEMMA EndOrder ==
  ASSUME Sound, OrderInv, setup' = setup, version' = version,
         disordered \subseteq disordered', NEW gone \in SUBSET nodes, Ends(gone),
         \A n \in Mergers : \A e \in gone : n.at = e.at => n \in gone \/ e.kind # "expansion",
         \A j \in gone : j.kind \in {"relay", "bridge", "decompressor"} =>
           j.robot \in disordered' \/ \A k \in nodes : k.at = j.at => k \in gone
  PROVE  OrderInv' /\ GoesOn
<1>1. nodes' = nodes /\ Mergers' = Mergers /\ Mergers \subseteq nodes
  BY NodesStay DEF Mergers
<1>2. /\ \A k \in gone : out'[k] = <<>> /\ kept'[k] = <<>>
      /\ \A k \in nodes \ gone : out'[k] = out[k] /\ kept'[k] = kept[k]
  BY DEF Ends
<1>3. \A n \in Mergers : \/ n \in gone /\ held'[n] = [t \in n.from |-> <<>>]
                         \/ n \notin gone /\ held'[n] = held[n]
  BY DEF Ends
<1>. HIDE DEF Ends
<1>4. /\ \A k \in nodes : out[k] # <<>> => out[k][1] \in SUBSET AllMaps
      /\ \A k \in nodes : Known(k, setup)
  BY SoundNodes
<1>. DEFINE loose == disordered'
<1>. HIDE DEF loose
<1>5. Ordered(loose)
  BY LooserOrder DEF OrderInv, loose
<1>6. GoesOn
  BY <1>2, <1>4, CoversItself DEF GoesOn
<1>7. OneGrid' /\ FromSlam' /\ Shown' /\ Silent'
  BY <1>1, <1>2 DEF OrderInv, OneGrid, FromSlam, Shown, Silent, Quiet, OnBoard
<1>8. Ahead(disordered)' /\ KeptBehind(disordered)'
  BY <1>1, <1>2, <1>5 DEF Ordered, Ahead, Up, KeptBehind, loose
<1>9. Replayable(disordered)'
  <2>1. ASSUME NEW j \in nodes, NEW p \in nodes, NEW k \in nodes, Up(j, k, setup),
               j.kind \in {"relay", "bridge", "decompressor"}, ~Quiet(j, setup),
               Feeds(p, j, setup), p # j, out'[j] = <<>>, kept'[p] # <<>>, out'[k] # <<>>
        PROVE  Covers(disordered', kept'[p][1], out'[k][1])
    <3>1. /\ p \notin gone /\ kept'[p] = kept[p]
          /\ k \notin gone /\ out'[k] = out[k]
      BY <1>2, <2>1
    <3>2. CASE j \notin gone
      <4>1. Awaits(j, p)
        BY <1>2, <2>1, <3>1, <3>2 DEF Awaits
      <4>. QED
        BY <1>5, <2>1, <3>1, <4>1 DEF Ordered, Replayable, loose
    <3>3. CASE j \in gone /\ j.robot \in disordered'
      <4>1. /\ p.robot = j.robot /\ p.kind \notin {"expansion", "merger"} /\ j.robot \in Robots
            /\ k.robot = j.robot /\ k.kind # "merger"
        BY <1>4, <2>1 DEF Feeds, Up, Known
      <4>2. /\ kept[p][1] \in SUBSET MapsOf(j.robot) /\ kept[p][1] # {}
            /\ out[k][1] \in SUBSET MapsOf(j.robot)
        BY <2>1, <3>1, <4>1, SoundNodes DEF OrderInv, Shown
      <4>. QED
        BY <3>1, <3>3, <4>1, <4>2, LooseCovers
    <3>4. CASE j \in gone /\ \A q \in nodes : q.at = j.at => q \in gone
      <4>1. p.at = j.at \/ k.at = j.at
        BY <1>4, <2>1 DEF Feeds, Up, Known
      <4>. QED
        BY <3>1, <3>4, <4>1
    <3>. QED
      BY <2>1, <3>2, <3>3, <3>4
  <2>. QED
    BY <1>1, <2>1 DEF Replayable, Awaits, Up, Quiet, Feeds, OnBoard
<1>10. HeldBehind(disordered)'
  <2>1. ASSUME NEW n \in Mergers, NEW e \in nodes, e.kind = "expansion", e.at = n.at,
               e.to \in n.from, held'[n][e.to] # <<>>
        PROVE  out'[e] # <<>> /\ Covers(disordered', out'[e][1], held'[n][e.to][1])
    <3>1. held'[n] = held[n] /\ n \notin gone
      BY <1>3, <2>1
    <3>2. e \notin gone
      BY <2>1, <3>1
    <3>. QED
      BY <1>2, <1>5, <2>1, <3>1, <3>2 DEF Ordered, HeldBehind, loose
  <2>. QED
    BY <1>1, <2>1 DEF HeldBehind
<1>11. MergedBehind(disordered)'
  <2>1. ASSUME NEW n \in Mergers, out'[n] # <<>>
        PROVE  Covers(disordered', MergedGrid(n)', out'[n][1])
    <3>1. n \notin gone /\ held'[n] = held[n] /\ out'[n] = out[n]
      BY <1>1, <1>2, <1>3, <2>1
    <3>2. MergedGrid(n)' = MergedGrid(n)
      BY <3>1 DEF MergedGrid, Drawn
    <3>. QED
      BY <1>5, <2>1, <3>1, <3>2 DEF Ordered, MergedBehind, loose
  <2>. QED
    BY <1>1, <2>1 DEF MergedBehind
<1>. QED
  BY <1>6, <1>7, <1>8, <1>9, <1>10, <1>11 DEF OrderInv, Ordered

LEMMA MachinesOrder ==
  ASSUME Sound, OrderInv, NEW m \in Machines,
         TimerFires(m) \/ Respawn(m) \/ Dies(m) \/ BridgeCrashes(m)
  PROVE  OrderInv' /\ GoesOn
<1>1. CASE TimerFires(m) \/ Respawn(m)
  BY <1>1, QuietOrder DEF TimerFires, Respawn
<1>2. CASE Dies(m)
  <2>. DEFINE gone == {n \in nodes : n.at = m}
  <2>1. /\ gone \in SUBSET nodes /\ Ends(gone)
        /\ setup' = setup /\ version' = version /\ disordered' = disordered
    BY <1>2 DEF Dies
  <2>2. \A n \in Mergers : \A e \in gone : n.at = e.at => n \in gone
    BY DEF Mergers
  <2>3. \A j \in gone : \A k \in nodes : k.at = j.at => k \in gone
    OBVIOUS
  <2>. HIDE DEF gone
  <2>. QED
    BY <2>1, <2>2, <2>3, EndOrder
<1>3. CASE BridgeCrashes(m)
  <2>1. /\ Ends(Bridged(m)) /\ setup' = setup /\ version' = version
        /\ disordered' = disordered \cup {n.robot : n \in Bridged(m)}
    BY <1>3 DEF BridgeCrashes
  <2>2. Bridged(m) \in SUBSET nodes /\ \A e \in Bridged(m) : e.kind # "expansion"
    BY DEF Bridged
  <2>3. \A j \in Bridged(m) : j.robot \in disordered'
    BY <2>1
  <2>. QED
    BY <2>1, <2>2, <2>3, EndOrder
<1>. QED
  BY <1>1, <1>2, <1>3

\* A robot publishes its map, no older than the last.
LEMMA PublishOrder ==
  ASSUME Sound, OrderInv, NEW n \in nodes, n.kind \in {"slam", "fake"},
         NEW v \in 1 .. Maps[n.robot], v >= version[n.robot],
         setup.bringup[n.robot] = "fake" => v <= 1,
         version' = [version EXCEPT ![n.robot] = v], setup' = setup, held' = held,
         disordered' = disordered, Emit(n, {<<n.robot, v>>})
  PROVE  OrderInv' /\ GoesOn
<1>. DEFINE r == n.robot
            grid == {<<r, v>>}
<1>1. r \in Robots /\ version \in [Robots -> Nat]
  BY SoundNodes DEF Known, Sound, TypesInv, TypeOK
<1>2. v \in Nat /\ grid \in SUBSET AllMaps
  BY <1>1, MapsTyped
<1>3. version' \in [Robots -> Nat] /\ version'[r] = v /\ \A q \in Robots \ {r} : version'[q] = version[q]
  BY <1>1, <1>2
<1>4. \A q \in Robots : version'[q] >= version[q]
  BY <1>1, <1>2, <1>3
<1>5. \A q \in Robots : setup.bringup[q] = "fake" => version'[q] <= 1
  BY <1>3 DEF OrderInv, FromSlam
<1>6. \A x \in grid : x[2] <= version'[x[1]]
  <2>1. <<r, v>>[1] = r /\ <<r, v>>[2] = v
    BY TopicFields
  <2>. QED
    BY <1>2, <1>3, <2>1
<1>7. ~Quiet(n, setup)
  BY DEF Quiet
<1>8. ASSUME NEW k \in nodes, k.kind # "merger", k.robot = r, out[k] # <<>>
      PROVE  Covers(disordered', grid, out[k][1])
  <2>1. out[k][1] \in SUBSET MapsOf(r)
    BY <1>8, SoundNodes
  <2>2. ASSUME NEW x \in out[k][1]
        PROVE  x[2] <= v
    <3>1. x[1] = r /\ x \in AllMaps
      BY <1>1, <2>1, <2>2 DEF MapsOf, AllMaps
    <3>2. x[2] <= version[r]
      BY <1>8, <2>2, <3>1 DEF OrderInv, FromSlam
    <3>3. x[2] \in Nat /\ version[r] \in Nat
      BY <1>1, <3>1, MapFields
    <3>. QED
      BY <1>2, <3>2, <3>3
  <2>. QED
    BY <1>1, <1>2, <2>1, <2>2, NewestCovers
<1>9. \A k \in nodes : Up(n, k, setup) => k.kind # "merger" /\ k.robot = r
  BY DEF Up
<1>10. \A q \in nodes : ~Up(q, n, setup)
  BY SoundNodes, Stages DEF Up, Known, Kinds
<1>11. n.kind # "merger" /\ Emit(n, grid) /\ grid # {} /\ disordered \subseteq disordered'
  OBVIOUS
<1>12. out[n] # <<>> => Covers(disordered', grid, out[n][1])
  BY <1>8, <1>11
<1>. HIDE DEF grid, r
<1>. QED
  BY <1>2, <1>3, <1>4, <1>5, <1>6, <1>7, <1>8, <1>9, <1>10, <1>11, <1>12, EmitOrder

LEMMA TimerOrder ==
  ASSUME Sound, OrderInv, Timer
  PROVE  OrderInv' /\ GoesOn
<1>. PICK n \in nodes : \/ SlamPublish(n) \/ FakePublish(n) \/ BlankHeartbeat(n)
                        \/ Discover(n) \/ MapMerging(n)
  BY DEF Timer
<1>0. Known(n, setup) /\ version \in [Robots -> Nat]
  BY SoundNodes DEF Sound, TypesInv, TypeOK
<1>1. CASE SlamPublish(n)
  <2>1. PICK v \in {version[n.robot], version[n.robot] + 1} :
          /\ v \in 1 .. Maps[n.robot]
          /\ version' = [version EXCEPT ![n.robot] = v] /\ Emit(n, {<<n.robot, v>>})
    BY <1>1 DEF SlamPublish
  <2>2. n.kind = "slam" /\ n.robot \in Robots /\ setup.bringup[n.robot] # "fake"
    BY <1>0, <1>1 DEF SlamPublish, Known, OnBoard
  <2>3. v >= version[n.robot]
    BY <1>0, <2>1, <2>2
  <2>4. setup' = setup /\ held' = held /\ disordered' = disordered
    BY <1>1 DEF SlamPublish, machines
  <2>. QED
    BY <2>1, <2>2, <2>3, <2>4, PublishOrder
<1>2. CASE FakePublish(n)
  <2>1. n.kind = "fake" /\ n.robot \in Robots /\ setup.bringup[n.robot] = "fake"
    BY <1>0, <1>2 DEF FakePublish, Known
  <2>2. Maps[n.robot] \in Nat \ {0}
    BY <2>1, DeploymentAssumption
  <2>3. 1 \in 1 .. Maps[n.robot] /\ 1 >= version[n.robot] /\ 1 <= 1
    BY <1>0, <2>1, <2>2 DEF OrderInv, FromSlam
  <2>4. /\ setup' = setup /\ held' = held /\ disordered' = disordered
        /\ version' = [version EXCEPT ![n.robot] = 1] /\ Emit(n, {<<n.robot, 1>>})
    BY <1>2 DEF FakePublish, machines
  <2>. QED
    BY <2>1, <2>3, <2>4, PublishOrder
<1>3. CASE BlankHeartbeat(n)
  <2>1. /\ n.kind = "expansion" /\ out[n] = <<>> /\ Emit(n, {})
        /\ setup' = setup /\ held' = held /\ version' = version /\ disordered' = disordered
    BY <1>3 DEF BlankHeartbeat, machines
  <2>2. \A k \in nodes : ~Up(n, k, setup)
    BY <2>1, SoundNodes, Stages DEF Up, Known, Kinds
  <2>3. \A loose, a : Covers(loose, a, {})
    BY DEF Covers
  <2>4. /\ \A r \in Robots : version'[r] >= version[r]
        /\ \A r \in Robots : setup.bringup[r] = "fake" => version'[r] <= 1
    BY <1>0, <2>1 DEF OrderInv, FromSlam
  <2>5. ~Quiet(n, setup)
    BY <2>1 DEF Quiet
  <2>. QED
    BY <1>0, <2>1, <2>2, <2>3, <2>4, <2>5, EmitOrder
<1>4. CASE Discover(n)
  BY <1>4, QuietOrder DEF Discover, machines
<1>5. CASE MapMerging(n)
  BY <1>5, MergingOrder
<1>. QED
  BY <1>1, <1>2, <1>3, <1>4, <1>5

\* A merger takes a canvas in the place of the one it keeps.
LEMMA UpdateOrder ==
  ASSUME Sound, OrderInv, NEW n \in nodes, NEW p \in nodes, FullMapUpdate(n, p)
  PROVE  OrderInv' /\ GoesOn
<1>1. /\ n \in Mergers /\ n.kind = "merger" /\ p.to \in n.from /\ out[p] # <<>>
      /\ held' = [held EXCEPT ![n][p.to] = out[p]]
      /\ setup' = setup /\ version' = version /\ out' = out /\ kept' = kept
      /\ disordered' = disordered
      /\ p.at = n.at \/ ~setup.use_zenoh
  BY DEF FullMapUpdate, Receives, SameGraph, Mergers, machines, messages
<1>2. nodes' = nodes /\ Mergers' = Mergers
  BY <1>1, NodesStay DEF Mergers
<1>3. /\ setup \in Setup /\ KeptApart(setup)
      /\ \A k \in nodes : Known(k, setup) /\ Shaped(k, setup)
      /\ \A k \in nodes : out[k] # <<>> => out[k][1] \in SUBSET AllMaps
  BY SoundNodes DEF Sound, EachItsOwn
<1>4. p.kind = "expansion" /\ p.at = n.at
  BY <1>1, <1>3, MergerHears DEF Sound
<1>5. held'[n][p.to] = out[p] /\ \A t \in n.from \ {p.to} : held'[n][t] = held[n][t]
  BY <1>1 DEF Sound, TypesInv
<1>6. \A k \in Mergers \ {n} : held'[k] = held[k]
  BY <1>1 DEF Sound, TypesInv
<1>7. /\ OneGrid' /\ FromSlam' /\ Shown' /\ Silent'
      /\ Ahead(disordered)' /\ KeptBehind(disordered)' /\ Replayable(disordered)'
  <2>1. OneGrid' /\ FromSlam' /\ Shown' /\ Silent'
    BY <1>1, <1>2 DEF OrderInv, OneGrid, FromSlam, Shown, Silent, Quiet, OnBoard
  <2>2. Ahead(disordered)' /\ KeptBehind(disordered)'
    BY <1>1, <1>2 DEF OrderInv, Ordered, Ahead, Up, KeptBehind
  <2>3. Replayable(disordered)'
    BY <1>1, <1>2 DEF OrderInv, Ordered, Replayable, Awaits, Up, Quiet, Feeds, OnBoard
  <2>. QED
    BY <2>1, <2>2, <2>3
<1>8. GoesOn
  BY <1>1, <1>3, CoversItself DEF GoesOn
<1>9. HeldBehind(disordered)'
  <2>1. ASSUME NEW k \in Mergers, NEW e \in nodes, e.kind = "expansion", e.at = k.at,
               e.to \in k.from, held'[k][e.to] # <<>>
        PROVE  out[e] # <<>> /\ Covers(disordered', out[e][1], held'[k][e.to][1])
    <3>1. CASE k = n /\ e.to = p.to
      <4>1. e = p
        BY <1>3, <1>4, <2>1, <3>1, CanvasTopic
      <4>. QED
        BY <1>1, <1>3, <1>5, <3>1, <4>1, CoversItself
    <3>2. CASE ~(k = n /\ e.to = p.to)
      <4>1. held'[k][e.to] = held[k][e.to]
        BY <1>5, <1>6, <2>1, <3>2
      <4>. QED
        BY <1>1, <2>1, <4>1 DEF OrderInv, Ordered, HeldBehind
    <3>. QED
      BY <3>1, <3>2
  <2>. QED
    BY <1>1, <1>2, <2>1 DEF HeldBehind
<1>10. MergedBehind(disordered)'
  <2>1. ASSUME NEW k \in Mergers \ {n}
        PROVE  MergedGrid(k)' = MergedGrid(k)
    BY <1>6, <2>1 DEF MergedGrid, Drawn
  <2>2. ASSUME out[n] # <<>>
        PROVE  Covers(disordered', MergedGrid(n)', out[n][1])
    <3>. DEFINE new == MergedGrid(n)'
    <3>1. \A t \in n.from : held'[n][t] # <<>> => held'[n][t][1] \subseteq new
      BY DEF MergedGrid, Drawn
    <3>2. out[p][1] \subseteq new
      BY <1>1, <1>5, <3>1
    <3>3. ASSUME NEW y \in MergedGrid(n)
          PROVE  \E z \in new : z[1] = y[1] /\ (z[2] >= y[2] \/ y[1] \in disordered)
      <4>1. PICK t \in n.from : held[n][t] # <<>> /\ y \in held[n][t][1]
        BY <3>3 DEF MergedGrid, Drawn
      <4>2. y[2] \in Nat
        BY <1>1, <3>3, HeldMaps, MapFields
      <4>3. CASE t = p.to
        <5>1. Covers(disordered, out[p][1], held[n][t][1])
          BY <1>1, <1>4, <4>1, <4>3 DEF OrderInv, Ordered, HeldBehind
        <5>2. PICK z \in out[p][1] : z[1] = y[1] /\ (z[2] >= y[2] \/ y[1] \in disordered)
          BY <4>1, <5>1 DEF Covers
        <5>. QED
          BY <3>2, <5>2
      <4>4. CASE t # p.to
        <5>1. y \in new
          BY <1>5, <3>1, <4>1, <4>4
        <5>2. y[2] >= y[2]
          BY <4>2
        <5>. QED
          BY <5>1, <5>2
      <4>. QED
        BY <4>3, <4>4
    <3>4. Covers(disordered, new, MergedGrid(n))
      BY <3>3 DEF Covers
    <3>5. new \in SUBSET AllMaps
      <4>1. \A t \in n.from : held'[n][t] # <<>> => held'[n][t][1] \in SUBSET AllMaps
        BY <1>1, <1>3, <1>5, HeldMaps
      <4>. QED
        BY <4>1 DEF MergedGrid, Drawn
    <3>6. MergedGrid(n) \in SUBSET AllMaps /\ out[n][1] \in SUBSET AllMaps
      BY <1>1, <1>3, <2>2, HeldMaps
    <3>7. Covers(disordered, MergedGrid(n), out[n][1])
      BY <1>1, <2>2 DEF OrderInv, Ordered, MergedBehind
    <3>. HIDE DEF new
    <3>8. Covers(disordered, new, out[n][1])
      BY <3>4, <3>5, <3>6, <3>7, CoversAll
    <3>. QED
      BY <1>1, <3>8 DEF new
  <2>3. ASSUME NEW k \in Mergers, out[k] # <<>>
        PROVE  Covers(disordered', MergedGrid(k)', out[k][1])
    BY <1>1, <2>1, <2>2, <2>3 DEF OrderInv, Ordered, MergedBehind
  <2>. QED
    BY <1>1, <1>2, <2>3 DEF MergedBehind
<1>. QED
  BY <1>7, <1>8, <1>9, <1>10 DEF OrderInv, Ordered

LEMMA HeardOrder ==
  ASSUME Sound, OrderInv, NEW n \in nodes, NEW p \in nodes,
         n.kind \in {"relay", "decompressor", "expansion"}, Receives(n, p, p.to)
  PROVE  Feeds(p, n, setup) /\ out[p] # <<>>
<1>0. /\ setup \in Setup /\ Straight(setup) /\ EachItsOwn
      /\ Known(n, setup) /\ Known(p, setup)
  BY SoundNodes DEF Sound
<1>1. out[p] # <<>> /\ SameGraph(p.at, n.at) /\ p.to \in n.from
  BY DEF Receives
<1>2. p.kind # "merger" /\ p.robot = n.robot
  BY <1>0, <1>1, HearsItsRobot
<1>3. ~Quiet(p, setup) /\ (p.at = n.at \/ ~setup.use_zenoh)
  BY <1>1 DEF OrderInv, Silent, SameGraph
<1>. QED
  BY <1>0, <1>1, <1>2, <1>3, HeardFeeds

LEMMA DeliveryOrder ==
  ASSUME Sound, OrderInv, Delivery
  PROVE  OrderInv' /\ GoesOn
<1>. PICK n \in nodes : \E p \in {k \in nodes : k.to \in n.from} :
       \/ RelayPass(n, p) \/ DecompressorPass(n, p) \/ ExpansionPass(n, p)
       \/ BridgePass(n, p) \/ FullMapUpdate(n, p)
  BY DEF Delivery
<1>. PICK p \in nodes :
       /\ p.to \in n.from
       /\ \/ RelayPass(n, p) \/ DecompressorPass(n, p) \/ ExpansionPass(n, p)
          \/ BridgePass(n, p) \/ FullMapUpdate(n, p)
  OBVIOUS
<1>0. /\ setup \in Setup /\ Straight(setup) /\ EachItsOwn
      /\ Known(n, setup) /\ Known(p, setup)
  BY SoundNodes DEF Sound
<1>1. ASSUME n.kind \in {"relay", "decompressor", "expansion"}, Receives(n, p, p.to)
      PROVE  Feeds(p, n, setup) /\ out[p] # <<>>
  BY <1>1, HeardOrder
<1>2. CASE RelayPass(n, p) \/ DecompressorPass(n, p)
  <2>1. PICK message \in Offered(n, p) : Pass(n, message)
    BY <1>2 DEF RelayPass, DecompressorPass
  <2>2. n.kind \in {"relay", "decompressor"} /\ Feeds(p, n, setup) /\ out[p] # <<>>
    BY <1>1, <1>2 DEF RelayPass, DecompressorPass
  <2>3. n.kind # "merger" /\ p.kind # "expansion"
    BY <2>2 DEF Feeds
  <2>. QED
    BY <2>1, <2>2, <2>3, PassOrder
<1>3. CASE ExpansionPass(n, p)
  <2>1. n.kind = "expansion" /\ Pass(n, out[p]) /\ out[p] \in Offered(n, p)
    BY <1>3 DEF ExpansionPass, Offered
  <2>. QED
    BY <1>1, <1>3, <2>1, PassOrder DEF ExpansionPass
<1>4. CASE BridgePass(n, p)
  <2>1. PICK message \in Offered(n, p) : Pass(n, message)
    BY <1>4 DEF BridgePass
  <2>2. n.kind = "bridge" /\ p.kind # "bridge" /\ out[p] # <<>>
    BY <1>4 DEF BridgePass
  <2>3. p.to[1] # ""
    BY <1>0, <1>4, AllowedOutIsNamespaced DEF BridgePass
  <2>4. p.kind # "merger" /\ p.robot = n.robot
    BY <1>0, <2>2, <2>3, HearsItsRobot
  <2>5. Feeds(p, n, setup)
    BY <1>0, <2>2, <2>4, BridgedFeeds
  <2>6. p.kind # "expansion" /\ n.kind # "expansion"
    BY <2>2, <2>5 DEF Feeds
  <2>. QED
    BY <2>1, <2>2, <2>5, <2>6, PassOrder
<1>5. CASE FullMapUpdate(n, p)
  BY <1>5, UpdateOrder
<1>. QED
  BY <1>2, <1>3, <1>4, <1>5

LEMMA StepOrder ==
  ASSUME Sound, OrderInv, [Next]_vars
  PROVE  OrderInv' /\ GoesOn
<1>1. ASSUME NEW m \in Machines, TimerFires(m) \/ Respawn(m) \/ Dies(m) \/ BridgeCrashes(m)
      PROVE  OrderInv' /\ GoesOn
  BY <1>1, MachinesOrder
<1>2. CASE Timer
  BY <1>2, TimerOrder
<1>3. CASE Delivery
  BY <1>3, DeliveryOrder
<1>4. CASE UNCHANGED vars
  BY <1>4, QuietOrder DEF vars, messages
<1>5. CASE Overtaking
  <2>1. PICK n \in nodes : \E p \in {k \in nodes : k.to \in n.from} : Overtake(n, p)
    BY <1>5 DEF Overtaking
  <2>2. PICK p \in nodes : Overtake(n, p)
    BY <2>1
  <2>3. Feeds(p, n, setup)
    BY <2>2, HeardOrder DEF Overtake
  <2>. QED
    BY <2>2, <2>3, OvertakeOrder
<1>6. ASSUME NEW n \in nodes, NullGrid(n)
      PROVE  OrderInv' /\ GoesOn
  <2>1. /\ {n} \in SUBSET nodes /\ Ends({n}) /\ n.kind = "merger"
        /\ setup' = setup /\ version' = version /\ disordered' = disordered
    BY <1>6 DEF NullGrid
  <2>. QED
    BY <2>1, EndOrder
<1>. QED
  BY <1>1, <1>2, <1>3, <1>4, <1>5, <1>6 DEF Next

LEMMA InitOrdered == Init => OrderInv
<1>. SUFFICES ASSUME Init PROVE OrderInv
  OBVIOUS
<1>1. \A n \in nodes : out[n] = <<>> /\ kept[n] = <<>>
  BY DEF Init
<1>2. \A n \in Mergers : \A t \in n.from : held[n][t] = <<>>
  BY DEF Init
<1>3. \A r \in Robots : version[r] <= 1
  BY DEF Init
<1>. QED
  BY <1>1, <1>2, <1>3 DEF OrderInv, Ordered, OneGrid, FromSlam, Shown, Silent, Ahead, KeptBehind,
       Replayable, Awaits, HeldBehind, MergedBehind, Mergers

\* NothingGoesBack speaks of what is in the messages of GoesOn.
LEMMA MessagesGoOn ==
  ASSUME OneGrid, GoesOn
  PROVE  \A n \in nodes : \A x \in UNION ToSet(out[n]) :
           out'[n] # <<>> => \E y \in out'[n][1] : y[1] = x[1] /\ (y[2] >= x[2] \/ x[1] \in disordered')
<1>. SUFFICES ASSUME NEW n \in nodes, NEW x \in UNION ToSet(out[n]), out'[n] # <<>>
              PROVE  \E y \in out'[n][1] : y[1] = x[1] /\ (y[2] >= x[2] \/ x[1] \in disordered')
  OBVIOUS
<1>1. PICK i \in DOMAIN out[n] : x \in out[n][i]
  BY DEF ToSet
<1>2. DOMAIN <<>> = {}
  OBVIOUS
<1>3. out[n] # <<>>
  BY <1>1, <1>2
<1>4. \A grid : DOMAIN <<grid>> = {1}
  OBVIOUS
<1>5. i = 1
  BY <1>1, <1>3, <1>4 DEF OneGrid
<1>6. Covers(disordered', out'[n][1], out[n][1])
  BY <1>3 DEF GoesOn
<1>. QED
  BY <1>1, <1>5, <1>6 DEF Covers

\* NothingGoesBack, of every fleet that is kept apart and whose set-up is
\* straight: with two messages kept for late joiners, of which a bridge that
\* comes up again delivers the older first, and with re-entrant callbacks, only
\* the robots of a crashed bridge and of an overtaken map are ever shown older.
THEOREM OrderKept ==
  ASSUME AllStraight
  PROVE  Spec => NothingGoesBack
<1>1. \A s \in Setups : KeptApart(s)
  BY DEF AllStraight
<1>2. Spec => []EachItsOwn
  BY <1>1, Invariance
<1>3. EachItsOwn /\ TypesInv => Sound
  BY DEF Sound, EachItsOwn, AllStraight
<1>4. Init => OrderInv
  BY InitOrdered
<1>5. Sound /\ OrderInv /\ [Next]_vars => OrderInv' /\ GoesOn
  BY StepOrder
<1>6. OrderInv /\ GoesOn =>
        \A n \in nodes : \A x \in UNION ToSet(out[n]) :
          out'[n] # <<>> => \E y \in out'[n][1] : y[1] = x[1] /\ (y[2] >= x[2] \/ x[1] \in disordered')
  BY MessagesGoOn DEF OrderInv
<1>. QED
  BY <1>2, <1>3, <1>4, <1>5, <1>6, TypesInvariant, PTL DEF Spec, NothingGoesBack
=============================================================================
