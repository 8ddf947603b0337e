------------------------------ MODULE Explore -------------------------------
(***************************************************************************)
(* explore.cpp: drives one robot to the frontiers of its map through the   *)
(* action server of Nav2, until none is left that was not tried.           *)
(*                                                                         *)
(* The node spins in one thread, so that a callback is one step.  What     *)
(* searchFrom returns, the frontiers sorted by cost, is the variable view: *)
(* it is whatever the map, the robot's pose and the search make of it, and *)
(* changes between any two callbacks.  Nav2 is external: its services take *)
(* goals and cancellations in any order, a newer goal aborts the one under *)
(* way, and results come back in the order in which the goals ended.       *)
(***************************************************************************)
EXTENDS Integers, Sequences, FiniteSets

CONSTANTS
  Places,       \* the centroids of frontiers
  Origin,       \* the place that has the coordinates of a Point nobody set
  Same,         \* same_point: the pairs of places less than a centimetre apart
  Near,         \* the pairs of places that goalOnBlacklist takes for one
  MaxFar,       \* distances are 1 .. MaxFar
  Views,        \* what searchFrom may return: sequences of [at, far]
  Home, None,   \* the goal of returnToInitialPose; no goal
  MaxChanges,   \* bound on the changes of the view
  MaxResumes, MaxStops,  \* bounds on the messages on explore/resume
  MaxEvents     \* bound on all three together

Frontiers == [at : Places, far : 1 .. MaxFar]

ASSUME ExploreAssumption ==
  /\ Origin \in Places
  /\ Same \subseteq Places \X Places /\ \A p \in Places : <<p, p>> \in Same
  /\ Same \subseteq Near  \* five cells are more than a centimetre
  /\ MaxFar \in Nat \ {0}
  /\ Views \subseteq Seq(Frontiers)
  /\ Home \notin Places /\ None \notin Places \cup {Home}
  /\ MaxChanges \in Nat /\ MaxResumes \in Nat /\ MaxStops \in Nat /\ MaxEvents \in Nat

VARIABLES
  node,       \* the process and the members of Explore, see Nodes
  tried,      \* history: the places that goals were sent to
  view, changes,
  resumes, stops,
  sent, cancels,  \* Nav2: the goals on their way, and the requests to cancel all
  active,         \* Nav2: the goal it pursues
  results         \* Nav2: the results on their way back

world == <<view, changes>>
commands == <<resumes, stops>>
requests == <<sent, cancels>>
server == <<active, results>>
vars == <<node, tried, world, commands, requests, server>>

\* prev_goal, prev_distance and return_to_init are the members of that name;
\* timer is whether exploring_timer_ runs.  patience is last_progress_ against
\* the clock: never set, or whether progress_timeout_ has passed since.
Nodes ==
  [phase : {"constructing", "spinning", "dead"}, blacklist : SUBSET Places,
   prev_goal : Places, prev_distance : 0 .. MaxFar, patience : {"unset", "running", "out"},
   resuming : BOOLEAN, timer : BOOLEAN, return_to_init : BOOLEAN,
   status : {"started", "in_progress", "paused", "complete", "returning", "returned"}]

\* UNKNOWN has no code of its own: reachedGoal treats it as success, and
\* returnToInitialPose as failure.
Codes == {"succeeded", "aborted", "canceled"}

Init ==
  /\ \E back \in BOOLEAN :
       node = [phase |-> "constructing", blacklist |-> {}, prev_goal |-> Origin,
               prev_distance |-> 0, patience |-> "unset", resuming |-> FALSE,
               timer |-> TRUE, return_to_init |-> back, status |-> "started"]
  /\ tried = {}
  /\ view \in Views /\ changes = 0
  /\ resumes = 0 /\ stops = 0
  /\ sent = <<>> /\ cancels = 0
  /\ active = None /\ results = <<>>

MoreEvents == changes + resumes + stops < MaxEvents

-----------------------------------------------------------------------------
(* makePlan, called with the members n                                     *)

\* goalOnBlacklist
OnBlacklist(n, p) == \E q \in n.blacklist : <<p, q>> \in Near

\* The index of the cheapest frontier that is not on the blacklist.
Chosen(n, i) ==
  /\ i \in DOMAIN view
  /\ ~OnBlacklist(n, view[i].at)
  /\ \A j \in 1 .. i - 1 : OnBlacklist(n, view[j].at)

\* The goal of the last plan, also if the centroid of its frontier crept since.
SameGoal(n, f) == <<n.prev_goal, f.at>> \in Same

\* Mutant: a new goal does not count as progress.
AimedStale(n, f) ==
  IF n.patience = "unset" \/ n.prev_distance > f.far
  THEN [n EXCEPT !.prev_goal = f.at, !.prev_distance = f.far, !.patience = "running"]
  ELSE [n EXCEPT !.prev_goal = f.at]

\* The goal is noted, and the time if the goal is new or nearer than before.
Aimed(n, f) ==
  IF ~SameGoal(n, f) \/ n.prev_distance > f.far
  THEN [n EXCEPT !.prev_goal = f.at, !.prev_distance = f.far, !.patience = "running"]
  ELSE [n EXCEPT !.prev_goal = f.at]

OutOfPatience(n, f) == Aimed(n, f).patience = "out" /\ ~n.resuming

\* EXPLORATION_COMPLETE and stop(true), with returnToInitialPose
Exhausts(n) ==
  /\ \A i \in DOMAIN view : OnBlacklist(n, view[i].at)
  /\ node' = [n EXCEPT !.timer = FALSE,
                       !.status = IF n.return_to_init THEN "returning" ELSE "complete"]
  /\ cancels' = cancels + 1
  /\ sent' = IF n.return_to_init THEN Append(sent, Home) ELSE sent
  /\ UNCHANGED tried

\* now() - last_progress_ throws as long as the two times are of different clocks.
Throws(n, f) ==
  /\ Aimed(n, f).patience = "unset"
  /\ node' = [Aimed(n, f) EXCEPT !.phase = "dead", !.timer = FALSE]
  /\ UNCHANGED <<tried, requests>>

\* Mutants: the immunity of a resumed node is kept; the goal is the cheapest
\* frontier, on the blacklist or not.
ResumedForGood(n, f) == Aimed(n, f)
GoalsOfCheapest(n, f) == IF SameGoal(n, f) THEN <<>> ELSE <<view[1].at>>

Resumed(n, f) == [Aimed(n, f) EXCEPT !.resuming = FALSE]
Goals(n, f) == IF SameGoal(n, f) THEN <<>> ELSE <<f.at>>

\* The goal is pursued, and sent if it is not the one of the last plan.
Pursues(n, f) ==
  /\ Aimed(n, f).patience # "unset" /\ ~OutOfPatience(n, f)
  /\ node' = Resumed(n, f)
  /\ sent' = sent \o Goals(n, f)
  /\ tried' = tried \cup {Goals(n, f)[i] : i \in DOMAIN Goals(n, f)}
  /\ UNCHANGED cancels

\* No progress for too long: the goal goes to the blacklist and makePlan calls
\* itself.  That call finds a goal that is not near this one, so a new one,
\* notes the time and never gets here.
WritesOff(n, f) ==
  /\ OutOfPatience(n, f)
  /\ LET again == [Aimed(n, f) EXCEPT !.blacklist = @ \cup {f.at}]
     IN  Exhausts(again) \/ \E i \in DOMAIN view : Chosen(again, i) /\ Pursues(again, view[i])

MakePlan(n) ==
  \/ Exhausts(n)
  \/ \E i \in DOMAIN view :
       /\ Chosen(n, i)
       /\ Throws(n, view[i]) \/ Pursues(n, view[i]) \/ WritesOff(n, view[i])

-----------------------------------------------------------------------------
(* The callbacks of the node                                               *)

\* The last line of the constructor.
Construct ==
  /\ node.phase = "constructing"
  /\ MakePlan([node EXCEPT !.phase = "spinning"])
  /\ UNCHANGED <<world, commands, server>>

\* exploring_timer_
Tick ==
  /\ node.phase = "spinning" /\ node.timer
  /\ MakePlan(node)
  /\ UNCHANGED <<world, commands, server>>

\* resumeCallback with TRUE, also while the node explores.
Resume ==
  /\ node.phase = "spinning" /\ resumes < MaxResumes /\ MoreEvents
  /\ resumes' = resumes + 1
  /\ MakePlan([node EXCEPT !.resuming = TRUE, !.timer = TRUE, !.status = "in_progress"])
  /\ UNCHANGED <<world, stops, server>>

\* resumeCallback with FALSE: stop(false)
Stop ==
  /\ node.phase = "spinning" /\ stops < MaxStops /\ MoreEvents
  /\ stops' = stops + 1
  /\ node' = [node EXCEPT !.timer = FALSE, !.status = "paused"]
  /\ cancels' = cancels + 1
  /\ UNCHANGED <<tried, world, resumes, sent, server>>

NextResult ==
  /\ node.phase = "spinning" /\ results # <<>>
  /\ results' = Tail(results)
  /\ UNCHANGED <<world, commands, active>>

Aborted(goal) == [node EXCEPT !.blacklist = @ \cup {goal}]

\* Mutants: a goal that was reached is forgotten; returnToInitialPose shares
\* the callback.
ReachedGoalForgets ==
  /\ NextResult
  /\ Head(results).goal \in Places
  /\ LET code == Head(results).code
     IN  \/ code = "succeeded" /\ MakePlan([node EXCEPT !.prev_goal = Origin])
         \/ code = "aborted" /\ node' = Aborted(Head(results).goal)
                             /\ UNCHANGED <<tried, requests>>
         \/ code = "canceled" /\ UNCHANGED <<node, tried, requests>>

ReachedAnyGoal ==
  /\ NextResult
  /\ LET code == Head(results).code
     IN  \/ code = "succeeded" /\ MakePlan(node)
         \/ code = "aborted" /\ node' = Aborted(Head(results).goal)
                             /\ UNCHANGED <<tried, requests>>
         \/ code = "canceled" /\ UNCHANGED <<node, tried, requests>>

ReachedGoal ==
  /\ NextResult
  /\ Head(results).goal \in Places
  /\ LET code == Head(results).code
     IN  \/ code = "succeeded" /\ MakePlan(node)
         \/ code = "aborted" /\ node' = Aborted(Head(results).goal)
                             /\ UNCHANGED <<tried, requests>>
         \/ code = "canceled" /\ UNCHANGED <<node, tried, requests>>

\* The result callback of returnToInitialPose.
ReachedHome ==
  /\ NextResult
  /\ Head(results).goal = Home
  /\ node' = IF Head(results).code = "succeeded"
             THEN [node EXCEPT !.status = "returned"] ELSE node
  /\ UNCHANGED <<tried, requests>>

-----------------------------------------------------------------------------
(* The clock, the map and the robot's pose, and Nav2                       *)

TimePasses ==
  /\ node.patience = "running"
  /\ node' = [node EXCEPT !.patience = "out"]
  /\ UNCHANGED <<tried, world, commands, requests, server>>

ViewChanges ==
  /\ changes < MaxChanges /\ MoreEvents
  /\ view' \in Views \ {view}
  /\ changes' = changes + 1
  /\ UNCHANGED <<node, tried, commands, requests, server>>

Ended(goal, code) == Append(results, [goal |-> goal, code |-> code])

\* A server that is idle may also reject: nobody is told.
TakesGoal ==
  /\ sent # <<>>
  /\ sent' = Tail(sent)
  /\ \/ /\ active' = Head(sent)
        /\ results' = IF active = None THEN results ELSE Ended(active, "aborted")
     \/ active = None /\ UNCHANGED server
  /\ UNCHANGED <<node, tried, world, commands, cancels>>

CancelsAll ==
  /\ cancels > 0
  /\ cancels' = cancels - 1
  /\ active' = None
  /\ results' = IF active = None THEN results ELSE Ended(active, "canceled")
  /\ UNCHANGED <<node, tried, world, commands, sent>>

EndsGoal(code) ==
  /\ active # None
  /\ active' = None
  /\ results' = Ended(active, code)
  /\ UNCHANGED <<node, tried, world, commands, requests>>

-----------------------------------------------------------------------------
Nav2 == TakesGoal \/ CancelsAll \/ \E code \in Codes \ {"canceled"} : EndsGoal(code)

Next ==
  \/ Construct \/ Tick \/ Resume \/ Stop \/ ReachedGoal \/ ReachedHome
  \/ TimePasses \/ ViewChanges \/ Nav2

\* The executor of the node runs on, the clock too, and Nav2 ends every goal.
Fairness ==
  /\ WF_vars(Construct) /\ WF_vars(Tick)
  /\ WF_vars(ReachedGoal \/ ReachedHome)
  /\ WF_vars(TimePasses)
  /\ WF_vars(TakesGoal) /\ WF_vars(CancelsAll)
  /\ WF_vars(\E code \in Codes \ {"canceled"} : EndsGoal(code))

Spec == Init /\ [][Next]_vars

FairSpec == Spec /\ Fairness

-----------------------------------------------------------------------------
(* Properties                                                              *)

TypeOK ==
  /\ node \in Nodes
  /\ tried \subseteq Places
  /\ view \in Views /\ changes \in 0 .. MaxChanges 
  /\ resumes \in 0 .. MaxResumes /\ stops \in 0 .. MaxStops
  /\ sent \in Seq(Places \cup {Home}) /\ cancels \in Nat
  /\ active \in Places \cup {Home, None}
  /\ results \in Seq([goal : Places \cup {Home}, code : Codes])

\* The pairs of places of which the second is where a frontier seen at the
\* first is taken for, plan after plan: each plan compares with the last one,
\* so that the steps add up (lines 271-273).
Drift ==
  UNION {{p} \X {q \in Places :
     \A S \in SUBSET Places :
       p \in S /\ (\A s \in Same : s[1] \in S => s[2] \in S) => q \in S} : p \in Places}

\* No frontier is written off that was not tried: for whatever is on the
\* blacklist a goal was sent before, there or to where its centroid crept from,
\* although the view changes between the call that notes a goal and the one
\* that loses patience, results come late and the node is paused in between
\* (lines 271-318 and 371-377).
WrittenOffWasTried == \A p \in node.blacklist : \E q \in tried : <<q, p>> \in Drift

\* The frontier that Nav2 was last told to drive to is the one whose progress
\* is timed, but for the steps of less than a centimetre that its centroid
\* crept since; the clock has a stamp by then, and the process can only die
\* before its first goal (lines 271-318).
TimesItsGoal ==
  LET latest == IF sent # <<>> THEN sent[Len(sent)] ELSE active
  IN  /\ latest \in Places => <<latest, node.prev_goal>> \in Drift
      /\ tried # {} => node.patience # "unset"
      /\ node.phase = "dead" => tried = {}

\* Exploration ends: the timer stops, with nothing left or by command, although
\* goals are rejected or lost, frontiers cannot be reached and a node that
\* resumes towards the same frontier sends no goal (lines 240-296).
ExplorationEnds == node.timer ~> ~node.timer

\* The robot comes to rest for good: once the map, the robot's pose and the user
\* leave it alone, goals that succeed, results that come late and the goals
\* that are sent while the node is paused do not make the node send another
\* goal for ever (lines 294-296 and 364-397).
ComesToRest == <>[](active = None /\ sent = <<>>)
=============================================================================
