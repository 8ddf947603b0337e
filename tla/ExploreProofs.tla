--------------------------- MODULE ExploreProofs ----------------------------
(***************************************************************************)
(* What holds of explore.cpp for every set of frontiers, every tolerance   *)
(* of its blacklist and of same_point, every way the views follow each     *)
(* other and any number of messages that stop it and make it resume.       *)
(***************************************************************************)
EXTENDS Explore, TLAPS

-----------------------------------------------------------------------------
(* The invariant                                                           *)

\* Place p is one of t, or a frontier seen at one of t crept there.
Crept(t, p) == \E q \in t : <<q, p>> \in Drift

\* The members n of the node against the places t that goals were sent to: the
\* clock has a stamp as soon as there is a goal, and its goal and those that it
\* wrote off crept from one of them.
Sound(n, t) ==
  /\ n.patience = "unset" => n.prev_distance = 0 /\ t = {}
  /\ n.patience # "unset" => Crept(t, n.prev_goal)
  /\ \A p \in n.blacklist : Crept(t, p)
  /\ n.phase = "dead" => t = {}

\* The goal Nav2 will pursue, when s is on the way and a is pursued now.
Latest(s, a) == IF s # <<>> THEN s[Len(s)] ELSE a

\* Goals on their way, under way and on their way back are among the tried.
Tracked(t, s, a, r) ==
  /\ \A i \in DOMAIN s : s[i] \in Places => s[i] \in t
  /\ a \in Places => a \in t
  /\ \A i \in DOMAIN r : r[i].goal \in Places => r[i].goal \in t

\* The goal that Nav2 will pursue is the one the node times, but for creeping.
Aims(n, s, a) == Latest(s, a) \in Places => <<Latest(s, a), n.prev_goal>> \in Drift

IInv ==
  /\ TypeOK
  /\ Sound(node, tried)
  /\ Tracked(tried, sent, active, results)
  /\ Aims(node, sent, active)

\* What every call of makePlan, whoever makes it, leaves behind.
Planned ==
  /\ node' \in Nodes /\ tried' \subseteq Places
  /\ sent' \in Seq(Places \cup {Home}) /\ cancels' \in Nat
  /\ tried \subseteq tried'
  /\ Sound(node', tried')
  /\ \A i \in DOMAIN sent' : sent'[i] \in Places => sent'[i] \in tried'
  /\ Aims(node', sent', active)

-----------------------------------------------------------------------------
(* makePlan                                                                *)

LEMMA NodeFields ==
  ASSUME NEW n \in Nodes
  PROVE  /\ n.blacklist \subseteq Places /\ n.prev_goal \in Places
         /\ n.prev_distance \in 0 .. MaxFar
         /\ n.patience \in {"unset", "running", "out"}
         /\ n.phase \in {"constructing", "spinning", "dead"}
         /\ n.resuming \in BOOLEAN /\ n.timer \in BOOLEAN /\ n.return_to_init \in BOOLEAN
         /\ n.status \in {"started", "in_progress", "paused", "complete", "returning", "returned"}
BY DEF Nodes

LEMMA ViewType ==
  ASSUME TypeOK, NEW i \in DOMAIN view
  PROVE  view[i].at \in Places /\ view[i].far \in 1 .. MaxFar /\ MaxFar \in Nat
<1>1. view \in Seq(Frontiers) /\ MaxFar \in Nat
  BY ExploreAssumption DEF TypeOK
<1>2. view[i] \in Frontiers
  BY <1>1
<1>. QED
  BY <1>1, <1>2 DEF Frontiers

\* The steps of less than a centimetre add up.
LEMMA DriftFacts ==
  /\ \A p \in Places : <<p, p>> \in Drift
  /\ \A p, q, r : <<p, q>> \in Drift /\ <<q, r>> \in Same => <<p, r>> \in Drift
<1>. DEFINE Closed(S) == \A s \in Same : s[1] \in S => s[2] \in S
<1>1. \A p, q : <<p, q>> \in Drift <=>
        p \in Places /\ q \in Places /\ \A S \in SUBSET Places : p \in S /\ Closed(S) => q \in S
  BY DEF Drift
<1>2. \A q, r : <<q, r>> \in Same => r \in Places
  BY ExploreAssumption
<1>3. \A S, q, r : <<q, r>> \in Same /\ Closed(S) /\ q \in S => r \in S
  <2>. SUFFICES ASSUME NEW S, NEW q, NEW r, <<q, r>> \in Same, Closed(S), q \in S PROVE r \in S
    OBVIOUS
  <2>. DEFINE s == <<q, r>>
  <2>1. s[1] = q /\ s[2] = r
    OBVIOUS
  <2>. QED
    BY <2>1
<1>. HIDE DEF Closed
<1>. QED
  BY <1>1, <1>2, <1>3

\* What crept from a place that was tried did so too if more are tried, and if
\* it creeps on.
LEMMA CreptFacts ==
  ASSUME NEW t, NEW u, NEW p, Crept(t, p)
  PROVE  /\ t \subseteq u => Crept(u, p)
         /\ \A q : <<p, q>> \in Same => Crept(t, q)
BY DriftFacts DEF Crept

\* The members that the callbacks set on their way to makePlan.
LEMMA Prepared ==
  ASSUME NEW n \in Nodes, NEW t, Sound(n, t)
  PROVE  /\ [n EXCEPT !.phase = "spinning"] \in Nodes
         /\ Sound([n EXCEPT !.phase = "spinning"], t)
         /\ [n EXCEPT !.resuming = TRUE, !.timer = TRUE, !.status = "in_progress"] \in Nodes
         /\ Sound([n EXCEPT !.resuming = TRUE, !.timer = TRUE, !.status = "in_progress"], t)
         /\ [n EXCEPT !.timer = FALSE, !.status = "paused"] \in Nodes
         /\ Sound([n EXCEPT !.timer = FALSE, !.status = "paused"], t)
BY DEF Nodes, Sound

\* Noting the goal keeps the clock sound as soon as the goal is sent.
LEMMA AimedType ==
  ASSUME TypeOK, NEW n \in Nodes, NEW i \in DOMAIN view
  PROVE  /\ Aimed(n, view[i]) \in Nodes
         /\ Aimed(n, view[i]).prev_goal = view[i].at
         /\ Aimed(n, view[i]).blacklist = n.blacklist
         /\ Aimed(n, view[i]).phase = n.phase
         /\ Aimed(n, view[i]).patience # "running" =>
              SameGoal(n, view[i]) /\ Aimed(n, view[i]) = [n EXCEPT !.prev_goal = view[i].at]
         /\ ~SameGoal(n, view[i]) \/ n.prev_distance > view[i].far
              => Aimed(n, view[i]).patience = "running"
<1>1. view[i].at \in Places /\ view[i].far \in 0 .. MaxFar
  BY ViewType
<1>. QED
  BY <1>1 DEF Aimed, Nodes

LEMMA AppendFacts ==
  ASSUME NEW S, NEW s \in Seq(S), NEW e \in S
  PROVE  /\ Append(s, e) \in Seq(S) /\ Append(s, e) # <<>>
         /\ Append(s, e)[Len(Append(s, e))] = e
         /\ \A i \in DOMAIN Append(s, e) :
              (i \in DOMAIN s /\ Append(s, e)[i] = s[i]) \/ Append(s, e)[i] = e
         /\ s \o <<e>> = Append(s, e) /\ s \o <<>> = s
OBVIOUS

LEMMA PursuesPlanned ==
  ASSUME TypeOK, Tracked(tried, sent, active, results),
         NEW n \in Nodes, n.phase # "dead", Sound(n, tried), Aims(n, sent, active),
         NEW i \in DOMAIN view, Pursues(n, view[i])
  PROVE  Planned
<1>. DEFINE f == view[i]
            m == Aimed(n, f)
<1>1. /\ m \in Nodes /\ m.prev_goal = f.at /\ m.blacklist = n.blacklist /\ m.phase = n.phase
      /\ m.patience # "running" => m = [n EXCEPT !.prev_goal = f.at]
      /\ ~SameGoal(n, f) \/ n.prev_distance > f.far => m.patience = "running"
  BY AimedType
<1>2. f.at \in Places /\ f.far \in 1 .. MaxFar /\ MaxFar \in Nat
  BY ViewType
<1>3. /\ m.patience # "unset" /\ node' = [m EXCEPT !.resuming = FALSE] /\ cancels' = cancels
      /\ sent' = sent \o Goals(n, f)
      /\ tried' = tried \cup {Goals(n, f)[j] : j \in DOMAIN Goals(n, f)}
  BY DEF Pursues, Resumed
<1>4. /\ node' \in Nodes /\ node'.prev_goal = f.at /\ node'.blacklist = n.blacklist
      /\ node'.patience # "unset" /\ node'.phase = n.phase
  BY <1>1, <1>3 DEF Nodes
<1>5. CASE SameGoal(n, f)
  <2>1. Goals(n, f) = <<>>
    BY <1>5 DEF Goals
  <2>2. sent' = sent /\ tried' = tried
    BY <2>1, <1>3, AppendFacts DEF TypeOK
  <2>3. n.patience # "unset"
    <3>1. SUFFICES ASSUME n.patience = "unset" PROVE FALSE
      OBVIOUS
    <3>2. n.prev_distance = 0 /\ ~(n.prev_distance > f.far)
      BY <3>1, <1>2 DEF Sound
    <3>3. m = [n EXCEPT !.prev_goal = f.at]
      BY <3>2, <1>5 DEF Aimed
    <3>4. m.patience = n.patience
      BY <3>3 DEF Nodes
    <3>. QED
      BY <3>1, <3>4, <1>3
  <2>4. <<n.prev_goal, f.at>> \in Same
    BY <1>5 DEF SameGoal
  <2>5. Crept(tried, n.prev_goal)
    BY <2>3 DEF Sound
  <2>6. Crept(tried, f.at)
    BY <2>4, <2>5, CreptFacts
  <2>7. Sound(node', tried')
    BY <2>2, <2>6, <1>4 DEF Sound
  <2>8. Aims(node', sent', active)
    BY <2>2, <2>4, <1>4, DriftFacts DEF Aims
  <2>. QED
    BY <2>2, <2>7, <2>8, <1>3, <1>4 DEF Planned, TypeOK, Tracked
<1>6. CASE ~SameGoal(n, f)
  <2>1. Goals(n, f) = <<f.at>>
    BY <1>6 DEF Goals
  <2>2. sent' = Append(sent, f.at) /\ tried' = tried \cup {f.at}
    BY <2>1, <1>2, <1>3, AppendFacts DEF TypeOK
  <2>3. /\ sent' \in Seq(Places \cup {Home}) /\ sent' # <<>> /\ sent'[Len(sent')] = f.at
        /\ \A j \in DOMAIN sent' : (j \in DOMAIN sent /\ sent'[j] = sent[j]) \/ sent'[j] = f.at
    BY <2>2, <1>2, AppendFacts DEF TypeOK
  <2>4. (\A p \in n.blacklist : Crept(tried', p)) /\ Crept(tried', f.at)
    <3>1. tried \subseteq tried' /\ f.at \in tried'
      BY <2>2
    <3>2. \A p \in n.blacklist : Crept(tried, p)
      BY DEF Sound
    <3>3. \A p \in n.blacklist : Crept(tried', p)
      BY <3>1, <3>2, CreptFacts
    <3>. QED
      BY <3>1, <3>3, <1>2, DriftFacts DEF Crept
  <2>5. tried' \subseteq Places /\ tried \subseteq tried' /\ cancels' \in Nat
    BY <2>2, <1>2, <1>3 DEF TypeOK
  <2>6. Sound(node', tried')
    BY <2>2, <2>4, <1>4 DEF Sound
  <2>7. \A j \in DOMAIN sent' : sent'[j] \in Places => sent'[j] \in tried'
    BY <2>2, <2>3 DEF Tracked
  <2>8. Aims(node', sent', active)
    BY <2>3, <1>2, <1>4, DriftFacts DEF Aims, Latest
  <2>. QED
    BY <2>3, <2>5, <2>6, <2>7, <2>8, <1>4 DEF Planned
<1>. QED
  BY <1>5, <1>6

\* Without frontiers the members that a plan depends on stay, and the way home
\* is no place.
LEMMA ExhaustsPlanned ==
  ASSUME TypeOK, Tracked(tried, sent, active, results),
         NEW n \in Nodes, Sound(n, tried), Aims(n, sent, active), Exhausts(n)
  PROVE  Planned
<1>1. PICK s \in {"returning", "complete"} :
        node' = [n EXCEPT !.timer = FALSE, !.status = s]
  BY DEF Exhausts
<1>2. /\ node' \in Nodes /\ node'.prev_goal = n.prev_goal /\ Sound(node', tried)
  BY <1>1 DEF Nodes, Sound
<1>3. tried' = tried /\ cancels' \in Nat
  BY DEF Exhausts, TypeOK
<1>4. sent' = sent \/ sent' = Append(sent, Home)
  BY DEF Exhausts
<1>5. Home \notin Places
  BY ExploreAssumption
<1>6. /\ sent' \in Seq(Places \cup {Home})
      /\ \A i \in DOMAIN sent' : (i \in DOMAIN sent /\ sent'[i] = sent[i]) \/ sent'[i] = Home
      /\ sent' = sent \/ Latest(sent', active) = Home
  <2>1. sent \in Seq(Places \cup {Home}) /\ Home \in Places \cup {Home}
    BY DEF TypeOK
  <2>2. CASE sent' = sent
    BY <2>1, <2>2
  <2>3. CASE sent' = Append(sent, Home)
    BY <2>1, <2>3, AppendFacts DEF Latest
  <2>. QED
    BY <1>4, <2>2, <2>3
<1>7. \A i \in DOMAIN sent' : sent'[i] \in Places => sent'[i] \in tried
  BY <1>5, <1>6 DEF Tracked
<1>8. Aims(node', sent', active)
  BY <1>2, <1>5, <1>6 DEF Aims
<1>. QED
  BY <1>2, <1>3, <1>6, <1>7, <1>8 DEF Planned, TypeOK

LEMMA ThrowsPlanned ==
  ASSUME TypeOK, Tracked(tried, sent, active, results),
         NEW n \in Nodes, Sound(n, tried), Aims(n, sent, active),
         NEW i \in DOMAIN view, Throws(n, view[i])
  PROVE  Planned
<1>. DEFINE m == Aimed(n, view[i])
<1>1. m \in Nodes /\ m.patience = "unset" /\ m = [n EXCEPT !.prev_goal = view[i].at]
  BY AimedType DEF Throws
<1>2. n.patience = "unset" /\ m.blacklist = n.blacklist /\ m.prev_distance = n.prev_distance
  BY <1>1 DEF Nodes
<1>3. node' = [m EXCEPT !.phase = "dead", !.timer = FALSE]
      /\ tried' = tried /\ sent' = sent /\ cancels' = cancels
  BY DEF Throws, requests
<1>. HIDE DEF m
<1>4. n.prev_distance = 0 /\ tried = {} /\ \A p \in n.blacklist : Crept(tried, p)
  BY <1>2 DEF Sound
<1>5. node' \in Nodes /\ Sound(node', tried)
  BY <1>1, <1>2, <1>3, <1>4 DEF Nodes, Sound
<1>6. Latest(sent, active) \notin Places
  BY <1>4 DEF Tracked, Latest, TypeOK
<1>. QED
  BY <1>3, <1>5, <1>6 DEF Planned, TypeOK, Tracked, Aims

\* Only the goal of the last plan is written off.
LEMMA WrittenOffIsAimed ==
  ASSUME TypeOK, NEW n \in Nodes, NEW t, Sound(n, t),
         NEW i \in DOMAIN view, OutOfPatience(n, view[i])
  PROVE  LET again == [Aimed(n, view[i]) EXCEPT !.blacklist = @ \cup {view[i].at}]
         IN  /\ again \in Nodes /\ Sound(again, t)
             /\ <<n.prev_goal, again.prev_goal>> \in Same /\ again.phase = n.phase
<1>. DEFINE f == view[i]
            m == Aimed(n, f)
<1>1. m \in Nodes /\ m = [n EXCEPT !.prev_goal = f.at] /\ m.patience = "out" /\ SameGoal(n, f)
  BY AimedType DEF OutOfPatience
<1>2. /\ n.patience = "out" /\ m.blacklist = n.blacklist /\ m.prev_goal = f.at
      /\ m.phase = n.phase /\ f.at \in Places
  BY <1>1, ViewType DEF Nodes
<1>3. Crept(t, f.at) /\ (\A p \in n.blacklist : Crept(t, p)) /\ (n.phase = "dead" => t = {})
  BY <1>1, <1>2, CreptFacts DEF Sound, SameGoal
<1>. DEFINE again == [m EXCEPT !.blacklist = @ \cup {f.at}]
<1>. HIDE DEF m
<1>4. /\ again \in Nodes /\ again.prev_goal = f.at /\ again.phase = n.phase
      /\ again.patience = "out" /\ again.blacklist = n.blacklist \cup {f.at}
  BY <1>1, <1>2 DEF Nodes
<1>. HIDE DEF again
<1>5. Sound(again, t)
  BY <1>2, <1>3, <1>4 DEF Sound
<1>6. <<n.prev_goal, again.prev_goal>> \in Same
  BY <1>1, <1>4 DEF SameGoal
<1>. QED
  BY <1>4, <1>5, <1>6 DEF again, m

LEMMA MakePlanPlanned ==
  ASSUME TypeOK, Tracked(tried, sent, active, results),
         NEW n \in Nodes, n.phase # "dead", Sound(n, tried), Aims(n, sent, active),
         MakePlan(n)
  PROVE  Planned
<1>1. CASE Exhausts(n)
  BY <1>1, ExhaustsPlanned
<1>2. ASSUME NEW i \in DOMAIN view, Throws(n, view[i]) PROVE Planned
  BY <1>2, ThrowsPlanned
<1>3. ASSUME NEW i \in DOMAIN view, Pursues(n, view[i]) PROVE Planned
  BY <1>3, PursuesPlanned
<1>4. ASSUME NEW i \in DOMAIN view, WritesOff(n, view[i]) PROVE Planned
  <2>. DEFINE again == [Aimed(n, view[i]) EXCEPT !.blacklist = @ \cup {view[i].at}]
  <2>1. OutOfPatience(n, view[i])
    BY <1>4 DEF WritesOff
  <2>2. again \in Nodes /\ Sound(again, tried) /\ <<n.prev_goal, again.prev_goal>> \in Same
        /\ again.phase # "dead"
    BY <2>1, WrittenOffIsAimed
  <2>3. Aims(again, sent, active)
    BY <2>2, DriftFacts DEF Aims
  <2>4. Exhausts(again) \/ \E j \in DOMAIN view : Pursues(again, view[j])
    BY <1>4 DEF WritesOff
  <2>. HIDE DEF again
  <2>. QED
    BY <2>2, <2>3, <2>4, ExhaustsPlanned, PursuesPlanned
<1>. QED
  BY <1>1, <1>2, <1>3, <1>4 DEF MakePlan

\* A call of makePlan in a step that leaves the rest of the state in its types.
LEMMA PlanStep ==
  ASSUME IInv, Planned, UNCHANGED world,
         resumes' \in 0 .. MaxResumes, stops' \in 0 .. MaxStops, UNCHANGED active,
         results' \in Seq([goal : Places \cup {Home}, code : Codes]),
         \A i \in DOMAIN results' : results'[i].goal \in Places => results'[i].goal \in tried
  PROVE  IInv'
<1>1. TypeOK'
  BY DEF IInv, Planned, TypeOK, world
<1>2. Tracked(tried, sent, active, results)'
  BY DEF IInv, Planned, Tracked
<1>3. Sound(node, tried)' /\ Aims(node, sent, active)'
  BY DEF Planned, Sound, Aims, Latest
<1>. QED
  BY <1>1, <1>2, <1>3 DEF IInv

-----------------------------------------------------------------------------
(* The steps                                                               *)

LEMMA InitIInv == Init => IInv
<1>. SUFFICES ASSUME Init PROVE IInv
  OBVIOUS
<1>1. Home \notin Places /\ None \notin Places /\ Origin \in Places /\ MaxFar \in Nat
      /\ MaxChanges \in Nat /\ MaxResumes \in Nat /\ MaxStops \in Nat
  BY ExploreAssumption
<1>2. node \in Nodes
  BY <1>1 DEF Init, Nodes
<1>3. TypeOK
  BY <1>1, <1>2 DEF Init, TypeOK
<1>. QED
  BY <1>1, <1>3 DEF Init, IInv, Sound, Tracked, Aims, Latest

LEMMA ConstructIInv == ASSUME IInv, Construct PROVE IInv'
<1>. DEFINE n == [node EXCEPT !.phase = "spinning"]
<1>1. n \in Nodes /\ Sound(n, tried) /\ n.phase # "dead" /\ n.prev_goal = node.prev_goal
  BY Prepared DEF IInv, TypeOK, Nodes
<1>2. Planned
  BY <1>1, MakePlanPlanned DEF Construct, IInv, Aims
<1>. QED
  BY <1>2, PlanStep DEF Construct, IInv, TypeOK, Tracked, commands, server

LEMMA TickIInv == ASSUME IInv, Tick PROVE IInv'
<1>1. node \in Nodes /\ node.phase # "dead"
  BY DEF Tick, IInv, TypeOK
<1>2. Planned
  BY <1>1, MakePlanPlanned DEF Tick, IInv
<1>. QED
  BY <1>2, PlanStep DEF Tick, IInv, TypeOK, Tracked, commands, server

LEMMA ResumeIInv == ASSUME IInv, Resume PROVE IInv'
<1>. DEFINE n == [node EXCEPT !.resuming = TRUE, !.timer = TRUE, !.status = "in_progress"]
<1>1. n \in Nodes /\ Sound(n, tried) /\ n.phase # "dead" /\ n.prev_goal = node.prev_goal
  BY Prepared DEF IInv, TypeOK, Nodes, Resume
<1>2. Planned
  BY <1>1, MakePlanPlanned DEF Resume, IInv, Aims
<1>3. resumes' \in 0 .. MaxResumes
  BY ExploreAssumption DEF Resume, IInv, TypeOK
<1>. QED
  BY <1>2, <1>3, PlanStep DEF Resume, IInv, TypeOK, Tracked, server

LEMMA StopIInv == ASSUME IInv, Stop PROVE IInv'
<1>1. /\ node' \in Nodes /\ Sound(node', tried) /\ node'.prev_goal = node.prev_goal
  BY Prepared DEF IInv, TypeOK, Nodes, Stop
<1>2. stops' \in 0 .. MaxStops /\ cancels' \in Nat
  BY ExploreAssumption DEF Stop, IInv, TypeOK
<1>. QED
  BY <1>1, <1>2 DEF Stop, IInv, TypeOK, Sound, Tracked, Aims, Latest, world, server

LEMMA NextResultFacts ==
  ASSUME IInv, NextResult
  PROVE  /\ Head(results) \in [goal : Places \cup {Home}, code : Codes]
         /\ Head(results).goal \in Places => Head(results).goal \in tried
         /\ results' \in Seq([goal : Places \cup {Home}, code : Codes])
         /\ \A i \in DOMAIN results' : results'[i].goal \in Places => results'[i].goal \in tried
<1>. DEFINE R == [goal : Places \cup {Home}, code : Codes]
<1>1. results \in Seq(R) /\ results # <<>> /\ results' = Tail(results)
  BY DEF IInv, TypeOK, NextResult
<1>. HIDE DEF R
<1>2. /\ 1 \in DOMAIN results /\ Head(results) = results[1] /\ Head(results) \in R
      /\ results' \in Seq(R)
      /\ \A i \in DOMAIN results' : i + 1 \in DOMAIN results /\ results'[i] = results[i + 1]
  BY <1>1
<1>. QED
  BY <1>2 DEF IInv, Tracked, R

LEMMA ReachedGoalIInv == ASSUME IInv, ReachedGoal PROVE IInv'
<1>1. /\ Head(results).goal \in Places /\ NextResult /\ node.phase = "spinning"
      /\ UNCHANGED <<world, commands, active>>
  BY DEF ReachedGoal, NextResult
<1>2. /\ Head(results).goal \in tried
      /\ results' \in Seq([goal : Places \cup {Home}, code : Codes])
      /\ \A i \in DOMAIN results' : results'[i].goal \in Places => results'[i].goal \in tried
  BY <1>1, NextResultFacts
<1>3. CASE MakePlan(node)
  <2>1. node \in Nodes /\ node.phase # "dead"
    BY <1>1 DEF IInv, TypeOK
  <2>2. Planned
    BY <2>1, <1>3, MakePlanPlanned DEF IInv
  <2>. QED
    BY <2>2, <1>1, <1>2, PlanStep DEF IInv, TypeOK, commands
<1>4. CASE node' = Aborted(Head(results).goal) /\ UNCHANGED <<tried, requests>>
  <2>1. Crept(tried, Head(results).goal)
    BY <1>1, <1>2, DriftFacts DEF Crept
  <2>2. /\ node' \in Nodes /\ Sound(node', tried) /\ node'.prev_goal = node.prev_goal
    BY <1>1, <1>4, <2>1 DEF IInv, TypeOK, Nodes, Aborted, Sound
  <2>. QED
    BY <1>1, <1>2, <1>4, <2>2
    DEF IInv, TypeOK, Sound, Tracked, Aims, Latest, world, commands, requests
<1>5. CASE UNCHANGED <<node, tried, requests>>
  BY <1>1, <1>2, <1>5 DEF IInv, TypeOK, Sound, Tracked, Aims, Latest, world, commands, requests
<1>. QED
  BY <1>3, <1>4, <1>5 DEF ReachedGoal

LEMMA ReachedHomeIInv == ASSUME IInv, ReachedHome PROVE IInv'
<1>1. /\ NextResult /\ UNCHANGED <<world, commands, active, tried, requests>>
      /\ node' = [node EXCEPT !.status = "returned"] \/ node' = node
  BY DEF ReachedHome, NextResult
<1>2. /\ results' \in Seq([goal : Places \cup {Home}, code : Codes])
      /\ \A i \in DOMAIN results' : results'[i].goal \in Places => results'[i].goal \in tried
  BY <1>1, NextResultFacts
<1>3. node' \in Nodes /\ Sound(node', tried) /\ node'.prev_goal = node.prev_goal
  BY <1>1 DEF IInv, TypeOK, Nodes, Sound
<1>. QED
  BY <1>1, <1>2, <1>3 DEF IInv, TypeOK, Sound, Tracked, Aims, Latest, world, commands, requests

LEMMA EnvironmentIInv == ASSUME IInv, TimePasses \/ ViewChanges PROVE IInv'
<1>1. CASE TimePasses
  <2>1. node' \in Nodes /\ Sound(node', tried) /\ node'.prev_goal = node.prev_goal
    BY <1>1 DEF TimePasses, IInv, TypeOK, Nodes, Sound
  <2>. QED
    BY <1>1, <2>1
    DEF TimePasses, IInv, TypeOK, Sound, Tracked, Aims, Latest, world, commands, requests, server
<1>2. CASE ViewChanges
  <2>1. view' \in Views /\ changes' \in 0 .. MaxChanges
    BY <1>2, ExploreAssumption DEF ViewChanges, IInv, TypeOK
  <2>. QED
    BY <1>2, <2>1
    DEF ViewChanges, IInv, TypeOK, Sound, Tracked, Aims, Latest, commands, requests, server
<1>. QED
  BY <1>1, <1>2

\* The results that Nav2 sends are of goals it pursued.
LEMMA EndedFacts ==
  ASSUME IInv, active # None, NEW code \in Codes
  PROVE  /\ Ended(active, code) \in Seq([goal : Places \cup {Home}, code : Codes])
         /\ \A i \in DOMAIN Ended(active, code) :
              Ended(active, code)[i].goal \in Places => Ended(active, code)[i].goal \in tried
<1>. DEFINE R == [goal : Places \cup {Home}, code : Codes]
            e == [goal |-> active, code |-> code]
<1>1. results \in Seq(R) /\ e \in R /\ e.goal = active
  BY DEF IInv, TypeOK
<1>. HIDE DEF R, e
<1>2. /\ Append(results, e) \in Seq(R)
      /\ \A i \in DOMAIN Append(results, e) :
           (i \in DOMAIN results /\ Append(results, e)[i] = results[i]) \/ Append(results, e)[i] = e
  BY <1>1, AppendFacts
<1>. QED
  BY <1>1, <1>2 DEF IInv, Tracked, R, e, Ended

LEMMA TailFacts ==
  ASSUME NEW S, NEW s \in Seq(S), s # <<>>
  PROVE  /\ Head(s) \in S /\ Head(s) = s[1] /\ 1 \in DOMAIN s
         /\ Tail(s) \in Seq(S)
         /\ \A i \in DOMAIN Tail(s) : i + 1 \in DOMAIN s /\ Tail(s)[i] = s[i + 1]
         /\ Tail(s) = <<>> => s[Len(s)] = s[1]
         /\ Tail(s) # <<>> => Tail(s)[Len(Tail(s))] = s[Len(s)]
<1>1. /\ Head(s) \in S /\ Head(s) = s[1] /\ 1 \in DOMAIN s /\ Tail(s) \in Seq(S)
      /\ Len(s) \in Nat \ {0} /\ Len(Tail(s)) = Len(s) - 1
  OBVIOUS
<1>2. \A i \in 1 .. Len(s) - 1 : Tail(s)[i] = s[i + 1]
  OBVIOUS
<1>3. \A i \in DOMAIN Tail(s) : i + 1 \in DOMAIN s /\ Tail(s)[i] = s[i + 1]
  BY <1>1, <1>2
<1>. DEFINE rest == Tail(s)
<1>4. rest = <<>> => s[Len(s)] = s[1]
  <2>1. Len(rest) = Len(s) - 1 /\ Len(s) \in Nat
    BY <1>1
  <2>. HIDE DEF rest
  <2>2. rest = <<>> => Len(rest) = 0
    OBVIOUS
  <2>3. rest = <<>> => Len(s) = 1
    BY <2>1, <2>2
  <2>. QED
    BY <2>3
<1>5. Tail(s) # <<>> => Tail(s)[Len(Tail(s))] = s[Len(s)]
  <2>1. Tail(s) # <<>> => Len(s) - 1 \in 1 .. Len(s) - 1
    BY <1>1
  <2>. QED
    BY <2>1, <1>1, <1>2
<1>. QED
  BY <1>1, <1>3, <1>4, <1>5

LEMMA TakesGoalIInv == ASSUME IInv, TakesGoal PROVE IInv'
<1>1. /\ sent \in Seq(Places \cup {Home}) /\ sent # <<>> /\ sent' = Tail(sent)
      /\ UNCHANGED <<node, tried, world, commands, cancels>>
  BY DEF TakesGoal, IInv, TypeOK
<1>2. /\ Head(sent) \in Places \cup {Home} /\ Head(sent) = sent[1] /\ 1 \in DOMAIN sent
      /\ sent' \in Seq(Places \cup {Home})
      /\ \A i \in DOMAIN sent' : i + 1 \in DOMAIN sent /\ sent'[i] = sent[i + 1]
      /\ sent' = <<>> => sent[Len(sent)] = sent[1]
      /\ sent' # <<>> => sent'[Len(sent')] = sent[Len(sent)]
  BY <1>1, TailFacts
<1>3. \A i \in DOMAIN sent' : sent'[i] \in Places => sent'[i] \in tried
  BY <1>2 DEF IInv, Tracked
<1>4. CASE active' = Head(sent)
           /\ results' = IF active = None THEN results ELSE Ended(active, "aborted")
  <2>1. /\ results' \in Seq([goal : Places \cup {Home}, code : Codes])
        /\ \A i \in DOMAIN results' : results'[i].goal \in Places => results'[i].goal \in tried
    BY <1>4, EndedFacts DEF Codes, IInv, TypeOK, Tracked
  <2>2. active' \in Places => active' \in tried
    BY <1>4, <1>2 DEF IInv, Tracked
  <2>3. Latest(sent', active') = Latest(sent, active)
    BY <1>1, <1>2, <1>4 DEF Latest
  <2>. QED
    BY <1>1, <1>2, <1>3, <1>4, <2>1, <2>2, <2>3
    DEF IInv, TypeOK, Sound, Tracked, Aims, Latest, world, commands
<1>5. CASE active = None /\ UNCHANGED server
  <2>1. None \notin Places
    BY ExploreAssumption
  <2>2. Latest(sent', active') \in Places => Latest(sent', active') = Latest(sent, active)
    BY <2>1, <1>1, <1>2, <1>5 DEF Latest, server
  <2>. QED
    BY <1>1, <1>2, <1>3, <1>5, <2>2
    DEF IInv, TypeOK, Sound, Tracked, Aims, Latest, world, commands, server
<1>. QED
  BY <1>4, <1>5 DEF TakesGoal

\* The goal under way ends, by itself or by a request to cancel all.
LEMMA GoalEndsIInv ==
  ASSUME IInv, UNCHANGED <<node, tried, world, commands, sent>>, active' = None, cancels' \in Nat,
         NEW code \in Codes,
         results' = IF active = None THEN results ELSE Ended(active, code)
  PROVE  IInv'
<1>1. /\ results' \in Seq([goal : Places \cup {Home}, code : Codes])
      /\ \A i \in DOMAIN results' : results'[i].goal \in Places => results'[i].goal \in tried
  BY EndedFacts DEF IInv, TypeOK, Tracked
<1>2. None \notin Places
  BY ExploreAssumption
<1>3. Latest(sent', active') \in Places => Latest(sent', active') = Latest(sent, active)
  BY <1>2 DEF Latest
<1>. QED
  BY <1>1, <1>2, <1>3 DEF IInv, TypeOK, Sound, Tracked, Aims, Latest, world, commands

LEMMA NextIInv == IInv /\ [Next]_vars => IInv'
<1>. SUFFICES ASSUME IInv, [Next]_vars PROVE IInv'
  OBVIOUS
<1>1. CASE Construct
  BY <1>1, ConstructIInv
<1>2. CASE Tick
  BY <1>2, TickIInv
<1>3. CASE Resume
  BY <1>3, ResumeIInv
<1>4. CASE Stop
  BY <1>4, StopIInv
<1>5. CASE ReachedGoal
  BY <1>5, ReachedGoalIInv
<1>6. CASE ReachedHome
  BY <1>6, ReachedHomeIInv
<1>7. CASE TimePasses \/ ViewChanges
  BY <1>7, EnvironmentIInv
<1>8. CASE TakesGoal
  BY <1>8, TakesGoalIInv
<1>9. CASE CancelsAll
  <2>1. cancels' \in Nat /\ "canceled" \in Codes
    BY <1>9 DEF CancelsAll, IInv, TypeOK, Codes
  <2>. QED
    BY <1>9, <2>1, GoalEndsIInv DEF CancelsAll
<1>10. ASSUME NEW code \in Codes \ {"canceled"}, EndsGoal(code) PROVE IInv'
  <2>1. cancels' \in Nat
    BY <1>10 DEF EndsGoal, IInv, TypeOK, requests
  <2>. QED
    BY <1>10, <2>1, GoalEndsIInv DEF EndsGoal, requests, Codes
<1>11. CASE UNCHANGED vars
  BY <1>11 DEF IInv, TypeOK, Sound, Tracked, Aims, Latest, vars, world, commands, requests, server
<1>. QED
  BY <1>1, <1>2, <1>3, <1>4, <1>5, <1>6, <1>7, <1>8, <1>9, <1>10, <1>11 DEF Next, Nav2

-----------------------------------------------------------------------------
(* The theorems                                                            *)

\* The inductive invariant: every goal on its way, under way or on its way back
\* is one that was tried, and the last one is the goal the node knows, or where it
\* crept from.
THEOREM Invariance == Spec => []IInv
BY InitIInv, NextIInv, PTL DEF Spec

\* The members keep their types, whatever the order of results, stops and
\* resumes; a recursive call of makePlan is not made twice (lines 229-319).
THEOREM TypeCorrect == Spec => []TypeOK
<1>1. IInv => TypeOK
  BY DEF IInv
<1>. QED
  BY <1>1, Invariance, PTL

\* For any set of frontiers, any tolerance of same_point and any way the map
\* changes, no frontier is written off that no goal was sent to, there or to
\* where its centroid crept from (lines 271-318 and 371-377).
THEOREM WrittenOffCorrect == Spec => []WrittenOffWasTried
<1>1. IInv => WrittenOffWasTried
  BY DEF IInv, Sound, Crept, WrittenOffWasTried
<1>. QED
  BY <1>1, Invariance, PTL

\* The goal whose progress is timed is the one Nav2 was last told to drive to, or
\* where its centroid crept since, and the node dies, if at all, before its first goal (lines 268-318).
THEOREM TimedGoalCorrect == Spec => []TimesItsGoal
<1>1. IInv => TimesItsGoal
  BY DEF IInv, Sound, Aims, Latest, TimesItsGoal
<1>. QED
  BY <1>1, Invariance, PTL
=============================================================================
