---------------------------- MODULE MCDeployment ----------------------------
(* The set-ups, as variations of the default: a robot with the base station *)
(* over Zenoh, maps compressed, and a fake robot on the laptop.  The base   *)
(* station's decompressor does not know the third robot.                    *)
EXTENDS Deployment, TLC

Entry(r, valid) == [name |-> r, valid |-> valid]
Bringup(one, two, three) == "ausra_1" :> one @@ "ausra_2" :> two @@ "ausra_3" :> three

Default ==
  [bringup |-> Bringup("comms", "fake", "none"), base |-> "swarm", use_zenoh |-> TRUE,
   enable_compression |-> TRUE, use_compression |-> TRUE,
   robot_config |-> <<Entry("ausra_1", TRUE), Entry("ausra_2", TRUE)>>,
   slam_in_namespace |-> FALSE, params_node |-> "map_merge", merged_map_topic |-> "/map_merged"]

\* As decentralized_robot.launch.py is in the repository.
OnEveryRobot ==
  [Default EXCEPT !.bringup = Bringup("decentralized", "decentralized", "none"), !.base = "none"]

\* Those of which the documents and the launch files say the same.
MCSetups ==
  {Default,
   \* Two robots, one of them decompressed but, by a slip, not configured.
   [Default EXCEPT !.bringup = Bringup("comms", "comms", "none"),
                   !.robot_config = <<Entry("ausra_1", FALSE), Entry("ausra_2", TRUE)>>],
   \* Without Zenoh: one robot's raw map beside a fake one's.
   [Default EXCEPT !.use_zenoh = FALSE, !.enable_compression = FALSE],
   \* The parameter file as edited for a merger on a robot.
   [OnEveryRobot EXCEPT !.bringup = Bringup("decentralized", "comms", "none"),
                        !.params_node = "/**/map_merge", !.merged_map_topic = "map_merged"]}

AsLaunched == {OnEveryRobot}

MCMaps == "ausra_1" :> 2 @@ "ausra_2" :> 1 @@ "ausra_3" :> 1
=============================================================================
