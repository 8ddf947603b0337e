--------------------------- MODULE MapMergeProofs ---------------------------
(***************************************************************************)
(* What holds of map_merge.cpp for every number of robots, every size of   *)
(* maps and every set of updates: of the maps kept, of the merged map, and *)
(* of how its process can end.                                             *)
(***************************************************************************)
EXTENDS MapMerge, FiniteSetTheorems, SequenceTheorems, TLAPS

-----------------------------------------------------------------------------
(* Lists                                                                   *)

\* A function on 1 .. n is a sequence of length n.
LEMMA FunctionIsSeq ==
  ASSUME NEW n \in Nat, NEW S, NEW f \in [1 .. n -> S]
  PROVE  f \in Seq(S) /\ Len(f) = n /\ DOMAIN f = 1 .. n
OBVIOUS

\* A strictly decreasing function has no value twice.
LEMMA DecreasingIsInjective ==
  ASSUME NEW n \in Nat, NEW S, S \subseteq Nat, NEW f \in [1 .. n -> S],
         \A i, j \in 1 .. n : i < j => f[i] > f[j]
  PROVE  \A i, j \in 1 .. n : f[i] = f[j] => i = j
<1>1. ASSUME NEW i \in 1 .. n PROVE i \in Int /\ f[i] \in Nat
  <2>1. f[i] \in S
    OBVIOUS
  <2>2. i \in Int
    BY SMTT(20)
  <2>3. f[i] \in Nat
    BY <2>1, Zenon
  <2>. QED
    BY <2>2, <2>3
<1>2. ASSUME NEW i \in 1 .. n, NEW j \in 1 .. n, i < j PROVE f[i] # f[j]
  BY <1>1, <1>2
<1>. QED
  BY <1>1, <1>2

\* The list of subscriptions is a list of robots.
LEMMA ListOfRobots ==
  ASSUME TypeOK
  PROVE  /\ subscriptions \in Seq(visible) /\ subscriptions \in Seq(Robots)
         /\ Len(subscriptions) \in Nat
         /\ DOMAIN subscriptions = 1 .. Len(subscriptions)
         /\ \A i \in 1 .. Len(subscriptions) : subscriptions[i] \in Robots
<1>1. subscriptions \in Seq(visible) /\ visible \subseteq Robots
  BY DEF TypeOK
<1>2. subscriptions \in Seq(Robots)
  BY <1>1, SeqMonotonic
<1>. QED
  BY <1>1, <1>2, LenProperties, ElementOfSeq

\* The newcomers, in the order the loop meets them, make a list with no robot
\* twice, none of which was subscribed to before.
LEMMA FrontIsList ==
  ASSUME TypeOK, NEW front \in [1 .. Cardinality(Newcomers) -> Newcomers],
         \A i, j \in DOMAIN front : i < j => front[i] > front[j]
  PROVE  /\ front \in Seq(visible) /\ DOMAIN front = 1 .. Len(front)
         /\ \A i, j \in DOMAIN front : front[i] = front[j] => i = j
         /\ \A i \in DOMAIN front, j \in DOMAIN subscriptions :
              front[i] # subscriptions[j]
<1>1. Newcomers \subseteq visible /\ Newcomers \subseteq Robots /\ Newcomers \subseteq Nat
      /\ Newcomers \cap Subscribed = {}
  BY MergeAssumption DEF Newcomers, TypeOK
<1>2. Cardinality(Newcomers) \in Nat
  BY <1>1, FS_Subset, FS_CardinalityType, MergeAssumption
<1>3. front \in [1 .. Cardinality(Newcomers) -> visible]
  BY <1>1
<1>4. front \in Seq(visible) /\ DOMAIN front = 1 .. Len(front)
  BY <1>2, <1>3, FunctionIsSeq
<1>5. \A i, j \in DOMAIN front : front[i] = front[j] => i = j
  <2>1. DOMAIN front = 1 .. Cardinality(Newcomers)
    OBVIOUS
  <2>. QED
    BY <1>1, <1>2, <2>1, DecreasingIsInjective
<1>6. \A i \in DOMAIN front : front[i] \notin Subscribed
  BY <1>1
<1>. QED
  BY <1>4, <1>5, <1>6 DEF Subscribed, Range

-----------------------------------------------------------------------------
(* Final segments                                                          *)

\* The robots of entries are the last ones of the list of subscriptions.
Final(entries, list) ==
  /\ Len(entries) <= Len(list)
  /\ \A i \in DOMAIN entries :
       entries[i].robot = list[Len(list) - Len(entries) + i]

SegmentInvariant == Final(grids, subscriptions) /\ Final(transforms, subscriptions)

IInv == TypeOK /\ SegmentInvariant

\* Robots put in front of the list do not disturb a final segment.
LEMMA FinalOfLonger ==
  ASSUME NEW S, NEW T, NEW entries \in Seq(S), NEW list \in Seq(T),
         NEW front \in Seq(T), Final(entries, list)
  PROVE  Final(entries, front \o list)
<1>1. /\ Len(front \o list) = Len(front) + Len(list)
      /\ \A i \in 1 .. Len(front) + Len(list) :
           (front \o list)[i] = IF i <= Len(front) THEN front[i] ELSE list[i - Len(front)]
  BY ConcatProperties
<1>2. Len(front) \in Nat /\ Len(list) \in Nat /\ Len(entries) \in Nat
      /\ DOMAIN entries = 1 .. Len(entries)
  OBVIOUS
<1>3. ASSUME NEW i \in 1 .. Len(entries)
      PROVE  (front \o list)[Len(front) + Len(list) - Len(entries) + i]
                = list[Len(list) - Len(entries) + i]
  <2>. DEFINE k == Len(front) + Len(list) - Len(entries) + i
  <2>1. k \in 1 .. Len(front) + Len(list) /\ k > Len(front)
        /\ k - Len(front) = Len(list) - Len(entries) + i
    BY <1>2 DEF Final
  <2>. QED
    BY <1>1, <2>1, <1>2
<1>. QED
  BY <1>1, <1>2, <1>3 DEF Final

\* What poses and grids the pipeline is given is one entry per subscription.
LEMMA FedIsWhole ==
  ASSUME TypeOK
  PROVE  /\ Fed \in Seq([robot : Robots, grid : Grid \cup {NoGrid}])
         /\ DOMAIN Fed = DOMAIN subscriptions
         /\ Final(Fed, subscriptions)
<1>. DEFINE n == Len(subscriptions)
<1>1. n \in Nat /\ DOMAIN subscriptions = 1 .. n /\ \A i \in 1 .. n : subscriptions[i] \in Robots
  BY ListOfRobots
<1>2. Fed \in [1 .. n -> [robot : Robots, grid : Grid \cup {NoGrid}]]
  BY <1>1 DEF Fed, TypeOK
<1>3. Len(Fed) = n /\ Fed \in Seq([robot : Robots, grid : Grid \cup {NoGrid}])
      /\ DOMAIN Fed = 1 .. n
  BY <1>1, <1>2, FunctionIsSeq
<1>4. \A i \in 1 .. n : Fed[i].robot = subscriptions[n - n + i]
  BY <1>1 DEF Fed
<1>. QED
  BY <1>1, <1>3, <1>4 DEF Final

LEMMA TransformsAreWhole ==
  ASSUME TypeOK, NEW pose, \A i \in DOMAIN subscriptions : pose[i] \in Poses
  PROVE  LET ts == [i \in DOMAIN subscriptions |->
                      [robot |-> subscriptions[i], pose |-> pose[i]]]
         IN  ts \in Seq([robot : Robots, pose : Poses]) /\ Final(ts, subscriptions)
<1>. DEFINE n == Len(subscriptions)
            ts == [i \in DOMAIN subscriptions |->
                      [robot |-> subscriptions[i], pose |-> pose[i]]]
<1>1. n \in Nat /\ DOMAIN subscriptions = 1 .. n /\ \A i \in 1 .. n : subscriptions[i] \in Robots
  BY ListOfRobots
<1>2. ts \in [1 .. n -> [robot : Robots, pose : Poses]]
  BY <1>1
<1>3. Len(ts) = n /\ ts \in Seq([robot : Robots, pose : Poses]) /\ DOMAIN ts = 1 .. n
  BY <1>1, <1>2, FunctionIsSeq
<1>4. \A i \in 1 .. n : ts[i].robot = subscriptions[n - n + i]
  BY <1>1
<1>. QED
  BY <1>1, <1>3, <1>4 DEF Final

-----------------------------------------------------------------------------
(* Partial updates                                                         *)

\* Multiplication by a natural number is monotone.
LEMMA TimesMonotone ==
  \A a, b \in Int : \A w \in Nat : a >= b => a * w >= b * w /\ w * a >= w * b
OBVIOUS


\* An update is read within its data, and patching keeps a grid a grid.
LEMMA PatchedType ==
  ASSUME NEW u \in Updates, u.x >= 0, u.y >= 0, NEW data \in [Cells -> Values]
  PROVE  /\ \A p \in Covered(u) :
              (p[1] - u.y) * CopiedPerRow(u) + p[2] - u.x + 1 \in DOMAIN u.data
         /\ Patched(data, u) \in [Cells -> Values]
<1>1. /\ u.x \in Int /\ u.y \in Int /\ u.width \in Nat /\ u.height \in Nat
      /\ u.data \in Seq(Values) /\ Len(u.data) = u.width * u.height
  BY MergeAssumption
<1>2. DOMAIN u.data = 1 .. Len(u.data) /\ \A i \in DOMAIN u.data : u.data[i] \in Values
  BY <1>1
<1>3. ASSUME NEW p \in Covered(u)
      PROVE  (p[1] - u.y) * CopiedPerRow(u) + p[2] - u.x + 1 \in DOMAIN u.data
  <2>. DEFINE a == p[1] - u.y
              c == CopiedPerRow(u)
              b == p[2] - u.x
  <2>1. /\ p[1] \in Int /\ p[2] \in Int /\ p[2] <= MapWidth - 1
        /\ a \in 0 .. u.height - 1 /\ b \in 0 .. u.width - 1
    BY <1>1, MergeAssumption DEF Covered, Cells
  <2>2. c \in Int /\ b + 1 <= c /\ c <= u.width
    <3>1. b \in Int /\ b <= u.width - 1 /\ MapWidth \in Int /\ b + 1 <= MapWidth - u.x
      BY <1>1, <2>1, MergeAssumption
    <3>2. CASE u.x + u.width <= MapWidth
      BY <1>1, <3>1, <3>2 DEF CopiedPerRow
    <3>3. CASE ~(u.x + u.width <= MapWidth)
      BY <1>1, <3>1, <3>3 DEF CopiedPerRow
    <3>. QED
      BY <3>2, <3>3
  <2>. HIDE DEF a, b, c
  <2>3. a \in Nat /\ b \in Nat /\ c \in Nat /\ a + 1 <= u.height
    BY <1>1, <2>1, <2>2
  <2>4. a * c + b + 1 <= (a + 1) * c
    BY <2>2, <2>3
  <2>5. (a + 1) * c <= (a + 1) * u.width
    <3>1. a + 1 \in Nat /\ u.width \in Int /\ u.width >= c
      BY <1>1, <2>2, <2>3
    <3>. QED
      BY <2>3, <3>1, TimesMonotone
  <2>6. (a + 1) * u.width <= u.height * u.width
    BY <1>1, <2>3, TimesMonotone
  <2>7. a * c \in Nat /\ (a + 1) * c \in Nat /\ (a + 1) * u.width \in Nat
        /\ u.height * u.width \in Nat /\ u.height * u.width = u.width * u.height
    BY <1>1, <2>3
  <2>8. a * c + b + 1 \in 1 .. Len(u.data)
    BY <1>1, <2>3, <2>4, <2>5, <2>6, <2>7
  <2>. QED
    BY <1>2, <2>8, <2>1, <2>2 DEF a, b, c
<1>4. \A p \in Cells : Patched(data, u)[p] \in Values
  BY <1>2, <1>3 DEF Patched
<1>. QED
  BY <1>3, <1>4 DEF Patched

-----------------------------------------------------------------------------
(* The initial state and the steps                                         *)

\* The types by what the callbacks and the robots change together.
ParamsType == known_init_poses \in KnownModes /\ init_pose \in InitPoses

IncomingType ==
  /\ visible \subseteq Robots
  /\ clock \in [Robots -> Nat]
  /\ latched \in [Robots -> Grid \cup {NoGrid}]
  /\ maps \in [Robots -> Seq(Grid)]
  /\ updates \in [Robots -> Seq([stamp : Nat \ {0}, patch : Updates])]

ListType ==
  /\ subscriptions \in Seq(visible)
  /\ \A i, j \in DOMAIN subscriptions : subscriptions[i] = subscriptions[j] => i = j

StorageType ==
  /\ readonly_map \in [Robots -> Grid \cup {NoGrid}]
  /\ writable \in [Robots -> BOOLEAN]

PipelineType ==
  /\ grids \in Seq([robot : Robots, grid : Grid \cup {NoGrid}])
  /\ transforms \in Seq([robot : Robots, pose : Poses])

MergedType ==
  /\ merged \in [DOMAIN merged -> [grid : Grid, pose : Poses]]
  /\ DOMAIN merged \subseteq Robots
  /\ ended \in {"", "size check", "null grid"}

LEMMA Parts ==
  /\ TypeOK <=> /\ ParamsType /\ IncomingType /\ ListType /\ StorageType
               /\ PipelineType /\ aliased \subseteq Subscribed /\ MergedType
  /\ TypeOK' <=> /\ ParamsType' /\ IncomingType' /\ ListType' /\ StorageType'
                /\ PipelineType' /\ aliased' \subseteq Subscribed' /\ MergedType'
BY DEF TypeOK, ParamsType, IncomingType, ListType, StorageType, PipelineType, MergedType

\* Every state variable that a step leaves alone keeps its part.
LEMMA UnchangedParts ==
  /\ UNCHANGED params /\ ParamsType => ParamsType'
  /\ UNCHANGED incoming /\ IncomingType => IncomingType'
  /\ UNCHANGED <<visible, subscriptions>> /\ ListType => ListType'
  /\ UNCHANGED <<readonly_map, writable>> /\ StorageType => StorageType'
  /\ UNCHANGED <<grids, transforms>> /\ PipelineType => PipelineType'
  /\ UNCHANGED <<merged, ended>> /\ MergedType => MergedType'
  /\ UNCHANGED <<subscriptions, aliased>> /\ aliased \subseteq Subscribed
       => aliased' \subseteq Subscribed'
  /\ UNCHANGED <<subscriptions, grids, transforms>> /\ SegmentInvariant => SegmentInvariant'
<1>1. UNCHANGED subscriptions => Subscribed' = Subscribed
  BY DEF Subscribed
<1>. QED
  BY <1>1 DEF params, incoming, ParamsType, IncomingType, ListType, StorageType,
              PipelineType, MergedType, SegmentInvariant, Final

LEMMA InitIInv == Init => IInv
<1>. SUFFICES ASSUME Init PROVE IInv
  OBVIOUS
<1>e. ASSUME NEW S
      PROVE  <<>> \in Seq(S) /\ Len(<<>>) = 0 /\ DOMAIN <<>> = {} /\ <<>> \in [{} -> S]
  OBVIOUS
<1>1. ParamsType /\ MergedType
  <2>1. merged \in [DOMAIN merged -> [grid : Grid, pose : Poses]] /\ DOMAIN merged = {}
    BY <1>e DEF Init
  <2>. QED
    BY <2>1 DEF Init, ParamsType, MergedType
<1>2. IncomingType
  <2>1. /\ clock \in [Robots -> Nat]
        /\ latched \in [Robots -> Grid \cup {NoGrid}]
    BY DEF Init
  <2>2. maps \in [Robots -> Seq(Grid)]
    BY <1>e DEF Init
  <2>3. updates \in [Robots -> Seq([stamp : Nat \ {0}, patch : Updates])]
    BY <1>e DEF Init
  <2>. QED
    BY <2>1, <2>2, <2>3 DEF Init, IncomingType
<1>3. ListType /\ StorageType /\ PipelineType /\ aliased \subseteq Subscribed
  BY <1>e DEF Init, ListType, StorageType, PipelineType
<1>4. SegmentInvariant
  <2>1. Len(<<>>) = 0 /\ DOMAIN <<>> = {}
    OBVIOUS
  <2>2. Final(<<>>, <<>>)
    BY <2>1 DEF Final
  <2>3. grids = <<>> /\ transforms = <<>> /\ subscriptions = <<>>
    BY DEF Init
  <2>. QED
    BY <2>2, <2>3 DEF SegmentInvariant
<1>. QED
  BY <1>1, <1>2, <1>3, <1>4, Parts DEF IInv

\* What the appearance of a topic and a robot's publications do.
LEMMA EnvironmentIInv ==
  ASSUME IInv, NEW r \in Robots, Environment(r)
  PROVE  IInv'
<1>1. UNCHANGED <<params, storage, pipeline, merged, ended>>
  BY DEF Environment, TopicAppears, PublishMap, PublishUpdate
<1>2. CASE TopicAppears(r)
  <2>1. subscriptions \in Seq(visible \cup {r})
    BY SeqMonotonic, Parts DEF IInv, ListType
  <2>2. ListType'
    BY <1>2, <2>1, <1>1, Parts DEF IInv, ListType, TopicAppears, storage
  <2>3. IncomingType'
    BY <1>2, Parts DEF IInv, IncomingType, TopicAppears
  <2>. QED
    BY <1>1, <2>2, <2>3, Parts, UnchangedParts DEF IInv, storage, pipeline
<1>3. ASSUME NEW data \in FullMaps, PublishMap(r, data) PROVE IInv'
  <2>. DEFINE m == [stamp |-> clock[r] + 1, data |-> data]
  <2>1. clock[r] \in Nat /\ maps[r] \in Seq(Grid) /\ data \in [Cells -> Values]
    BY MergeAssumption, Parts DEF IInv, IncomingType
  <2>2. m \in Grid
    BY <2>1 DEF Grid
  <2>3. Append(maps[r], m) \in Seq(Grid)
    BY <2>1, <2>2
  <2>. HIDE DEF m
  <2>4. IncomingType'
    <3>1. IncomingType
      BY Parts DEF IInv
    <3>2. clock' \in [Robots -> Nat] /\ latched' \in [Robots -> Grid \cup {NoGrid}]
      BY <1>3, <2>1, <2>2, <3>1 DEF IncomingType, PublishMap, Stamp, m
    <3>3. maps' \in [Robots -> Seq(Grid)]
      BY <1>3, <2>3, <3>1 DEF IncomingType, PublishMap, m
    <3>. QED
      BY <1>3, <3>1, <3>2, <3>3 DEF IncomingType, PublishMap
  <2>. QED
    BY <1>1, <1>3, <2>4, Parts, UnchangedParts DEF IInv, storage, pipeline, PublishMap
<1>4. ASSUME NEW u \in Updates, PublishUpdate(r, u) PROVE IInv'
  <2>. DEFINE Message == [stamp : Nat \ {0}, patch : Updates]
              m == [stamp |-> clock[r] + 1, patch |-> u]
  <2>1. clock[r] \in Nat /\ updates[r] \in Seq(Message)
    BY Parts DEF IInv, IncomingType
  <2>2. m \in Message
    BY <2>1
  <2>3. Append(updates[r], m) \in Seq(Message)
    <3>. HIDE DEF m, Message
    <3>. QED BY <2>1, <2>2
  <2>. HIDE DEF m
  <2>4. IncomingType'
    <3>1. IncomingType
      BY Parts DEF IInv
    <3>2. clock' \in [Robots -> Nat]
      BY <1>4, <2>1, <3>1 DEF IncomingType, PublishUpdate, Stamp
    <3>3. updates' \in [Robots -> Seq(Message)]
      BY <1>4, <2>3, <3>1 DEF IncomingType, PublishUpdate, m
    <3>. QED
      BY <1>4, <3>1, <3>2, <3>3 DEF IncomingType, PublishUpdate
  <2>. QED
    BY <1>1, <1>4, <2>4, Parts, UnchangedParts DEF IInv, storage, pipeline, PublishUpdate
<1>. QED
  BY <1>2, <1>3, <1>4 DEF Environment

\* A robot that was subscribed to stays in the list.
LEMMA SubscribedGrows ==
  ASSUME TypeOK, TopicSubscribing
  PROVE  Subscribed \subseteq Subscribed'
<1>1. PICK front \in [1 .. Cardinality(Newcomers) -> Newcomers] :
        /\ \A i, j \in DOMAIN front : i < j => front[i] > front[j]
        /\ subscriptions' = front \o subscriptions
  BY DEF TopicSubscribing
<1>2. front \in Seq(visible) /\ subscriptions \in Seq(visible)
  BY <1>1, FrontIsList, ListOfRobots
<1>3. /\ Len(front) \in Nat /\ Len(subscriptions) \in Nat
      /\ DOMAIN subscriptions = 1 .. Len(subscriptions)
      /\ DOMAIN subscriptions' = 1 .. Len(front) + Len(subscriptions)
      /\ \A i \in 1 .. Len(front) + Len(subscriptions) : subscriptions'[i] =
           IF i <= Len(front) THEN front[i] ELSE subscriptions[i - Len(front)]
  BY <1>1, <1>2, ConcatProperties, LenProperties
<1>4. ASSUME NEW j \in 1 .. Len(subscriptions)
      PROVE  \E k \in DOMAIN subscriptions' : subscriptions'[k] = subscriptions[j]
  <2>1. /\ j + Len(front) \in 1 .. Len(front) + Len(subscriptions)
        /\ ~(j + Len(front) <= Len(front)) /\ (j + Len(front)) - Len(front) = j
    BY <1>3
  <2>. QED
    BY <1>3, <2>1
<1>. QED
  BY <1>3, <1>4 DEF Subscribed, Range

\* What topicSubscribing does: the newcomers in front, their latched maps.
LEMMA TopicSubscribingIInv ==
  ASSUME IInv, TopicSubscribing
  PROVE  IInv'
<1>1. /\ UNCHANGED <<params, visible, clock, latched, updates, readonly_map, writable,
                     pipeline, merged, ended>>
      /\ maps' = [r \in Robots |-> IF r \in Newcomers /\ latched[r] # NoGrid
                                     THEN <<latched[r]>> ELSE maps[r]]
  BY DEF TopicSubscribing
<1>2. PICK front \in [1 .. Cardinality(Newcomers) -> Newcomers] :
        /\ \A i, j \in DOMAIN front : i < j => front[i] > front[j]
        /\ subscriptions' = front \o subscriptions
  BY DEF TopicSubscribing
<1>3. TypeOK
  BY DEF IInv
<1>4. /\ front \in Seq(visible) /\ DOMAIN front = 1 .. Len(front)
      /\ \A i, j \in DOMAIN front : front[i] = front[j] => i = j
      /\ \A i \in DOMAIN front, j \in DOMAIN subscriptions :
           front[i] # subscriptions[j]
  BY <1>2, <1>3, FrontIsList
<1>5. subscriptions \in Seq(visible) /\ DOMAIN subscriptions = 1 .. Len(subscriptions)
  BY <1>3, ListOfRobots
<1>6. /\ subscriptions' \in Seq(visible)
      /\ Len(subscriptions') = Len(front) + Len(subscriptions)
      /\ DOMAIN subscriptions' = 1 .. Len(front) + Len(subscriptions)
      /\ \A i \in 1 .. Len(front) + Len(subscriptions) : subscriptions'[i] =
           IF i <= Len(front) THEN front[i] ELSE subscriptions[i - Len(front)]
  <2>1. front \o subscriptions \in Seq(visible)
    BY <1>4, <1>5, ConcatProperties
  <2>. QED
    BY <1>2, <1>4, <1>5, <2>1, ConcatProperties, LenProperties
<1>7. Len(front) \in Nat /\ Len(subscriptions) \in Nat
  BY <1>4, <1>5, LenProperties
<1>8. ListType'
  <2>1. ASSUME NEW i \in DOMAIN subscriptions', NEW j \in DOMAIN subscriptions',
               subscriptions'[i] = subscriptions'[j]
        PROVE  i = j
    <3>1. i \in 1 .. Len(front) + Len(subscriptions) /\ j \in 1 .. Len(front) + Len(subscriptions)
      BY <1>6, <2>1
    <3>2. ASSUME NEW k \in 1 .. Len(front) + Len(subscriptions)
          PROVE  \/ k \in DOMAIN front /\ subscriptions'[k] = front[k]
                 \/ /\ k - Len(front) \in DOMAIN subscriptions /\ k > Len(front)
                    /\ subscriptions'[k] = subscriptions[k - Len(front)]
      BY <1>4, <1>5, <1>6, <1>7
    <3>3. \A m, n \in DOMAIN subscriptions : subscriptions[m] = subscriptions[n] => m = n
      BY <1>3 DEF TypeOK
    <3>4. CASE i \in DOMAIN front /\ subscriptions'[i] = front[i]
      BY <1>4, <2>1, <3>1, <3>2, <3>4
    <3>5. CASE /\ i - Len(front) \in DOMAIN subscriptions /\ i > Len(front)
               /\ subscriptions'[i] = subscriptions[i - Len(front)]
      <4>1. /\ j - Len(front) \in DOMAIN subscriptions
            /\ subscriptions'[j] = subscriptions[j - Len(front)]
        BY <1>4, <2>1, <3>1, <3>2, <3>5
      <4>2. i - Len(front) = j - Len(front)
        BY <2>1, <3>3, <3>5, <4>1
      <4>. QED
        BY <1>7, <3>1, <4>2
    <3>. QED
      BY <3>1, <3>2, <3>4, <3>5
  <2>. QED
    BY <1>1, <1>6, <2>1 DEF ListType
<1>9. Subscribed \subseteq Subscribed'
  BY <1>3, SubscribedGrows
<1>10. IncomingType'
  <2>1. IncomingType
    BY <1>3, Parts
  <2>2. ASSUME NEW r \in Robots, latched[r] # NoGrid PROVE <<latched[r]>> \in Seq(Grid)
    <3>1. latched[r] \in Grid
      BY <2>1, <2>2 DEF IncomingType
    <3>. QED
      BY <3>1
  <2>3. maps' \in [Robots -> Seq(Grid)]
    BY <1>1, <2>1, <2>2 DEF IncomingType
  <2>. QED
    BY <1>1, <2>1, <2>3 DEF IncomingType
<1>11. SegmentInvariant'
  <2>1. PipelineType /\ SegmentInvariant
    BY <1>3, Parts DEF IInv
  <2>2. Final(grids, front \o subscriptions)
    BY <1>4, <1>5, <2>1, FinalOfLonger DEF PipelineType, SegmentInvariant
  <2>3. Final(transforms, front \o subscriptions)
    BY <1>4, <1>5, <2>1, FinalOfLonger DEF PipelineType, SegmentInvariant
  <2>. QED
    BY <1>1, <1>2, <2>2, <2>3 DEF SegmentInvariant, pipeline
<1>12. aliased' \subseteq Subscribed'
  BY <1>1, <1>3, <1>9 DEF pipeline, TypeOK
<1>. QED
  BY <1>1, <1>3, <1>8, <1>10, <1>11, <1>12, Parts, UnchangedParts DEF IInv, pipeline

\* What a full map does: at most the stored map changes.
LEMMA FullMapUpdateIInv ==
  ASSUME IInv, NEW r \in Robots, FullMapUpdate(r)
  PROVE  IInv'
<1>1. /\ UNCHANGED <<params, visible, clock, latched, updates, grids, transforms,
                     subscriptions, merged, ended>>
      /\ maps[r] # <<>> /\ maps' = [maps EXCEPT ![r] = Tail(@)]
      /\ aliased' \subseteq aliased
      /\ \/ UNCHANGED <<readonly_map, writable>>
         \/ /\ readonly_map' = [readonly_map EXCEPT ![r] = Head(maps[r])]
            /\ writable' = [writable EXCEPT ![r] = FALSE]
  BY DEF FullMapUpdate, storage
<1>2. IncomingType /\ StorageType /\ aliased \subseteq Subscribed
  BY Parts DEF IInv
<1>3. maps[r] \in Seq(Grid)
  BY <1>2 DEF IncomingType
<1>4. Head(maps[r]) \in Grid /\ Tail(maps[r]) \in Seq(Grid)
  BY <1>1, <1>3, HeadTailProperties
<1>5. maps' \in [Robots -> Seq(Grid)]
  BY <1>1, <1>2, <1>4 DEF IncomingType
<1>6. IncomingType'
  BY <1>1, <1>2, <1>5 DEF IncomingType
<1>7. StorageType'
  BY <1>1, <1>2, <1>4 DEF StorageType
<1>8. aliased' \subseteq Subscribed'
  BY <1>1, <1>2 DEF Subscribed
<1>. QED
  BY <1>1, <1>6, <1>7, <1>8, Parts, UnchangedParts DEF IInv

\* What a partial update does: it is read within its data, and the map it
\* patches keeps its place in the pipeline.
LEMMA PartialMapUpdateIInv ==
  ASSUME IInv, NEW r \in Robots, PartialMapUpdate(r)
  PROVE  IInv'
<1>. DEFINE u == Head(updates[r])
            Message == [stamp : Nat \ {0}, patch : Updates]
            Entry == [robot : Robots, grid : Grid \cup {NoGrid}]
            map == [stamp |-> u.stamp, data |-> Patched(readonly_map[r].data, u.patch)]
            patched == /\ u.patch.x >= 0 /\ u.patch.y >= 0 /\ readonly_map[r] # NoGrid
                       /\ readonly_map' = [readonly_map EXCEPT ![r] = map]
                       /\ writable' = [writable EXCEPT ![r] = TRUE]
                       /\ grids' = [i \in DOMAIN grids |->
                               IF writable[r] /\ r \in aliased /\ grids[i].robot = r
                                 THEN [grids[i] EXCEPT !.grid = map] ELSE grids[i]]
<1>1. /\ UNCHANGED <<params, visible, clock, latched, maps, transforms, subscriptions,
                     merged, ended>>
      /\ updates[r] # <<>> /\ updates' = [updates EXCEPT ![r] = Tail(@)]
      /\ aliased' \subseteq aliased
      /\ UNCHANGED <<readonly_map, writable, grids>> \/ patched
  BY DEF PartialMapUpdate, storage
<1>2. /\ IncomingType /\ StorageType /\ PipelineType /\ SegmentInvariant
      /\ aliased \subseteq Subscribed
  BY Parts DEF IInv
<1>3. updates[r] \in Seq(Message)
  BY <1>2 DEF IncomingType
<1>4. u \in Message /\ Tail(updates[r]) \in Seq(Message)
  <2>. HIDE DEF Message
  <2>. QED
    BY <1>1, <1>3, HeadTailProperties
<1>5. updates' \in [Robots -> Seq(Message)]
  BY <1>1, <1>2, <1>4 DEF IncomingType
<1>6. IncomingType'
  BY <1>1, <1>2, <1>5 DEF IncomingType
<1>7. aliased' \subseteq Subscribed'
  BY <1>1, <1>2 DEF Subscribed
<1>8. CASE UNCHANGED <<readonly_map, writable, grids>>
  BY <1>1, <1>6, <1>7, <1>8, Parts, UnchangedParts DEF IInv
<1>9. CASE patched
  <2>1. readonly_map[r] \in Grid
    BY <1>2, <1>9 DEF StorageType
  <2>2. map \in Grid
    <3>1. readonly_map[r].data \in [Cells -> Values] /\ u.patch \in Updates
          /\ u.stamp \in Nat \ {0}
      BY <1>4, <2>1 DEF Grid
    <3>2. Patched(readonly_map[r].data, u.patch) \in [Cells -> Values]
      BY <1>9, <3>1, PatchedType
    <3>. QED
      BY <3>1, <3>2 DEF Grid
  <2>. HIDE DEF map
  <2>3. StorageType'
    BY <1>2, <1>9, <2>2 DEF StorageType
  <2>4. /\ grids' \in Seq(Entry) /\ Len(grids') = Len(grids)
        /\ DOMAIN grids' = DOMAIN grids
        /\ \A i \in DOMAIN grids : grids'[i].robot = grids[i].robot
    <3>1. grids \in Seq(Entry) /\ Len(grids) \in Nat /\ DOMAIN grids = 1 .. Len(grids)
          /\ \A i \in 1 .. Len(grids) : grids[i] \in Entry
      <4>1. grids \in Seq(Entry)
        BY <1>2 DEF PipelineType
      <4>. HIDE DEF Entry
      <4>. QED
        BY <4>1, LenProperties, ElementOfSeq
    <3>2. ASSUME NEW i \in 1 .. Len(grids)
          PROVE  grids'[i] \in Entry /\ grids'[i].robot = grids[i].robot
      BY <1>9, <2>2, <3>1
    <3>3. grids' \in [1 .. Len(grids) -> Entry]
      <4>. HIDE DEF Entry
      <4>. QED
        BY <1>9, <3>1, <3>2
    <3>4. grids' \in Seq(Entry) /\ Len(grids') = Len(grids) /\ DOMAIN grids' = 1 .. Len(grids)
      <4>. HIDE DEF Entry
      <4>. QED
        BY <3>1, <3>3, FunctionIsSeq
    <3>. QED
      BY <3>1, <3>2, <3>4
  <2>5. PipelineType'
    BY <1>1, <1>2, <2>4 DEF PipelineType
  <2>6. SegmentInvariant'
    <3>. HIDE DEF patched, u
    <3>. QED
      BY <1>1, <1>2, <2>4 DEF SegmentInvariant, Final
  <2>. QED
    BY <1>1, <1>6, <1>7, <2>3, <2>5, <2>6, Parts, UnchangedParts DEF IInv
<1>. HIDE DEF patched
<1>. QED
  BY <1>1, <1>8, <1>9

\* A composition leaves the last merged map or shows what it draws.
LEMMA ComposeGridsType ==
  ASSUME NEW gs \in Seq([robot : Robots, grid : Grid \cup {NoGrid}]),
         NEW ts \in Seq([robot : Robots, pose : Poses]),
         MergedType, ComposeGrids(gs, ts)
  PROVE  MergedType'
<1>1. CASE Len(gs) # Len(ts)
  BY <1>1 DEF ComposeGrids, MergedType
<1>2. CASE Len(gs) = Len(ts) /\ UNCHANGED merged
  BY <1>2 DEF ComposeGrids, MergedType
<1>3. CASE Len(gs) = Len(ts) /\ merged' = Merge(gs, ts) /\ UNCHANGED ended
  <2>. DEFINE D == {gs[i].robot : i \in Drawn(gs, ts)}
              I(r) == CHOOSE k \in Drawn(gs, ts) : gs[k].robot = r
  <2>1. ASSUME NEW i \in Drawn(gs, ts)
        PROVE  gs[i].robot \in Robots /\ gs[i].grid \in Grid /\ ts[i].pose \in Poses
    <3>1. i \in 1 .. Len(gs) /\ i \in 1 .. Len(ts) /\ gs[i].grid # NoGrid
      BY <1>3, <2>1 DEF Drawn
    <3>2. gs[i] \in [robot : Robots, grid : Grid \cup {NoGrid}]
      BY <3>1, ElementOfSeq
    <3>3. ts[i] \in [robot : Robots, pose : Poses]
      BY <3>1, ElementOfSeq
    <3>. QED
      BY <3>1, <3>2, <3>3
  <2>2. ASSUME NEW r \in D PROVE I(r) \in Drawn(gs, ts)
    BY <2>2
  <2>3. merged' = [r \in D |-> [grid |-> gs[I(r)].grid, pose |-> ts[I(r)].pose]]
    BY <1>3 DEF Merge
  <2>4. D \subseteq Robots
    BY <2>1
  <2>. HIDE DEF D, I
  <2>5. merged' \in [D -> [grid : Grid, pose : Poses]]
    BY <2>1, <2>2, <2>3
  <2>6. DOMAIN merged' = D
    BY <2>3
  <2>. QED
    BY <1>3, <2>4, <2>5, <2>6 DEF MergedType
<1>. QED
  BY <1>1, <1>2, <1>3 DEF ComposeGrids

\* What a merge does: with known poses the pipeline is given every map and
\* every pose, then the grids are composed.
LEMMA MapMergingIInv ==
  ASSUME IInv, MapMerging
  PROVE  IInv'
<1>1. UNCHANGED <<params, incoming, storage>> /\ ComposeGrids(grids', transforms')
  BY DEF MapMerging
<1>2. TypeOK /\ PipelineType /\ MergedType /\ ParamsType
  BY Parts DEF IInv
<1>3. PipelineType' /\ SegmentInvariant' /\ aliased' \subseteq Subscribed'
  <2>1. CASE known_init_poses
    <3>1. grids' = Fed /\ aliased' = Subscribed /\ transforms' = InitialTransforms
          /\ UNCHANGED subscriptions
      BY <1>1, <2>1 DEF MapMerging, storage
    <3>2. Fed \in Seq([robot : Robots, grid : Grid \cup {NoGrid}]) /\ Final(Fed, subscriptions)
      BY <1>2, FedIsWhole
    <3>. DEFINE pose == [i \in DOMAIN subscriptions |-> init_pose[subscriptions[i]]]
    <3>3. \A i \in DOMAIN subscriptions : pose[i] \in Poses
      <4>1. init_pose \in [Robots -> Poses]
        BY <1>2, MergeAssumption DEF ParamsType
      <4>. QED
        BY <1>2, <4>1, ListOfRobots
    <3>4. LET ts == [i \in DOMAIN subscriptions |->
                       [robot |-> subscriptions[i], pose |-> pose[i]]]
          IN  ts \in Seq([robot : Robots, pose : Poses]) /\ Final(ts, subscriptions)
      <4>. HIDE DEF pose
      <4>. QED
        BY <1>2, <3>3, TransformsAreWhole
    <3>5. InitialTransforms = [i \in DOMAIN subscriptions |->
                                [robot |-> subscriptions[i], pose |-> pose[i]]]
      BY DEF InitialTransforms
    <3>6. /\ InitialTransforms \in Seq([robot : Robots, pose : Poses])
          /\ Final(InitialTransforms, subscriptions)
      BY <3>4, <3>5
    <3>. QED
      BY <3>1, <3>2, <3>6 DEF PipelineType, SegmentInvariant, Subscribed
  <2>2. CASE ~known_init_poses
    <3>1. UNCHANGED <<pipeline, subscriptions>>
      BY <1>1, <2>2 DEF MapMerging, storage
    <3>. QED
      BY <1>2, <3>1, Parts, UnchangedParts DEF IInv, pipeline
  <2>. QED
    BY <2>1, <2>2
<1>4. MergedType'
  BY <1>1, <1>2, <1>3, ComposeGridsType DEF PipelineType
<1>. QED
  BY <1>1, <1>2, <1>3, <1>4, Parts, UnchangedParts DEF IInv, incoming, storage

\* What an estimation does: the pipeline is given every map, and every
\* transform unless the estimation fails.
LEMMA PoseEstimationIInv ==
  ASSUME IInv, PoseEstimation
  PROVE  IInv'
<1>1. /\ UNCHANGED <<params, incoming, storage, merged, ended>>
      /\ grids' = Fed /\ aliased' = Subscribed
      /\ UNCHANGED transforms \/ NoMatch \/ Matched
  BY DEF PoseEstimation, AdjusterFails
<1>2. TypeOK /\ PipelineType /\ SegmentInvariant
  BY Parts DEF IInv
<1>3. /\ Fed \in Seq([robot : Robots, grid : Grid \cup {NoGrid}])
      /\ DOMAIN Fed = DOMAIN subscriptions /\ Final(Fed, subscriptions)
  BY <1>2, FedIsWhole
<1>4. ASSUME NEW pose, \A i \in DOMAIN Fed : pose[i] \in Poses, SetTransforms(pose)
      PROVE  transforms' \in Seq([robot : Robots, pose : Poses])
             /\ Final(transforms', subscriptions)
  <2>1. transforms' = [i \in DOMAIN subscriptions |->
                         [robot |-> subscriptions[i], pose |-> pose[i]]]
    <3>1. \A i \in DOMAIN subscriptions : Fed[i].robot = subscriptions[i]
      BY DEF Fed
    <3>. QED
      BY <1>3, <1>4, <3>1 DEF SetTransforms
  <2>. QED
    BY <1>2, <1>3, <1>4, <2>1, TransformsAreWhole
<1>5. /\ transforms' \in Seq([robot : Robots, pose : Poses])
      /\ Final(transforms', subscriptions)
  <2>1. CASE UNCHANGED transforms
    BY <1>2, <2>1 DEF PipelineType, SegmentInvariant
  <2>2. CASE NoMatch
    <3>. DEFINE pose == [i \in DOMAIN Fed |->
                           IF i \in Arrived /\ \A j \in 1 .. i - 1 : j \notin Arrived
                             THEN "identity" ELSE "none"]
    <3>1. \A i \in DOMAIN Fed : pose[i] \in Poses
      BY DEF Poses
    <3>2. SetTransforms(pose)
      BY <2>2 DEF NoMatch
    <3>. HIDE DEF pose
    <3>. QED
      BY <1>4, <3>1, <3>2
  <2>3. CASE Matched
    <3>1. PICK good \in SUBSET Arrived : \E reference \in good :
            SetTransforms([i \in DOMAIN Fed |->
              IF i \notin good THEN "none"
                               ELSE IF i = reference THEN "identity" ELSE "offset"])
      BY <2>3 DEF Matched
    <3>2. PICK reference \in good :
            SetTransforms([i \in DOMAIN Fed |->
              IF i \notin good THEN "none"
                               ELSE IF i = reference THEN "identity" ELSE "offset"])
      BY <3>1
    <3>. DEFINE pose == [i \in DOMAIN Fed |->
                           IF i \notin good THEN "none"
                             ELSE IF i = reference THEN "identity" ELSE "offset"]
    <3>3. \A i \in DOMAIN Fed : pose[i] \in Poses
      BY DEF Poses
    <3>4. SetTransforms(pose)
      BY <3>2
    <3>. HIDE DEF pose
    <3>. QED
      BY <1>4, <3>3, <3>4
  <2>. QED
    BY <1>1, <2>1, <2>2, <2>3
<1>6. PipelineType' /\ SegmentInvariant' /\ aliased' \subseteq Subscribed'
  <2>1. UNCHANGED subscriptions
    BY <1>1 DEF storage
  <2>. QED
    BY <1>1, <1>3, <1>5, <2>1 DEF PipelineType, SegmentInvariant, Subscribed
<1>. QED
  BY <1>1, <1>6, Parts, UnchangedParts DEF IInv, incoming, storage

-----------------------------------------------------------------------------
(* Theorems                                                                *)

LEMMA NextIInv == IInv /\ [Next]_vars => IInv'
<1>. SUFFICES ASSUME IInv, [Next]_vars PROVE IInv'
  OBVIOUS
<1>1. CASE \E r \in Robots : FullMapUpdate(r) \/ PartialMapUpdate(r)
  BY <1>1, FullMapUpdateIInv, PartialMapUpdateIInv
<1>2. CASE TopicSubscribing
  BY <1>2, TopicSubscribingIInv
<1>3. CASE MapMerging
  BY <1>3, MapMergingIInv
<1>4. CASE PoseEstimation
  BY <1>4, PoseEstimationIInv
<1>5. CASE \E r \in Robots : Environment(r)
  BY <1>5, EnvironmentIInv
<1>6. CASE UNCHANGED vars
  BY <1>6, Parts, UnchangedParts DEF IInv, vars, storage, pipeline, incoming
<1>. QED
  BY <1>1, <1>2, <1>3, <1>4, <1>5, <1>6 DEF Next, Callback

\* Every state is well typed (map_merge.cpp, merging_pipeline): no robot is
\* subscribed to twice (lines 147-172), and no step of partialMapUpdate reads
\* an update outside its data (lines 330-353), whatever its offset and size.
THEOREM TypeCorrect == Spec => []TypeOK
<1>1. IInv => TypeOK
  BY DEF IInv
<1>. QED
  BY <1>1, InitIInv, NextIInv, PTL DEF Spec

\* A map is only ever drawn with its own robot's transform: the transforms the
\* pipeline keeps when an estimation fails, while robots come to the front of
\* the list, still pair by index with the right grids whenever the size check
\* of composeGrids lets them (map_merge.cpp:159, merging_pipeline.cpp:168).
THEOREM PoseCorrect == Spec => []PoseOfItsRobot
<1>1. IInv => PoseOfItsRobot
  <2>. SUFFICES ASSUME IInv, Len(grids) = Len(transforms), NEW i \in DOMAIN grids
                PROVE  grids[i].robot = transforms[i].robot
    BY DEF PoseOfItsRobot
  <2>1. DOMAIN grids = 1 .. Len(grids) /\ DOMAIN transforms = 1 .. Len(transforms)
    BY Parts, LenProperties DEF IInv, PipelineType
  <2>. QED
    BY <2>1 DEF IInv, SegmentInvariant, Final
<1>. QED
  BY <1>1, InitIInv, NextIInv, PTL DEF Spec

-----------------------------------------------------------------------------
(* The map of a robot does not go back in time                             *)

\* The updates on their way to a robot's callback are in the order of their
\* stamps, and a writable map, which is patched without comparing stamps, is
\* older than all of them.
Ordered(r) ==
  /\ \A i, j \in DOMAIN updates[r] : i < j => updates[r][i].stamp < updates[r][j].stamp
  /\ \A i \in DOMAIN updates[r] : updates[r][i].stamp <= clock[r]
  /\ writable[r] => /\ readonly_map[r].stamp <= clock[r]
                    /\ \A i \in DOMAIN updates[r] :
                         readonly_map[r].stamp < updates[r][i].stamp

OrderInvariant == TypeOK /\ \A r \in Robots : Ordered(r)

\* What the types say of one robot's stamps and updates.
LEMMA StampTypes ==
  ASSUME TypeOK, NEW r \in Robots
  PROVE  /\ clock[r] \in Nat /\ readonly_map[r].stamp \in Nat
         /\ updates[r] \in Seq([stamp : Nat \ {0}, patch : Updates])
         /\ Len(updates[r]) \in Nat /\ DOMAIN updates[r] = 1 .. Len(updates[r])
         /\ \A i \in DOMAIN updates[r] : updates[r][i].stamp \in Nat
<1>. DEFINE Message == [stamp : Nat \ {0}, patch : Updates]
<1>1. clock[r] \in Nat /\ updates[r] \in Seq(Message) /\ readonly_map[r] \in Grid \cup {NoGrid}
  BY DEF TypeOK
<1>2. readonly_map[r].stamp \in Nat
  BY <1>1 DEF Grid, NoGrid
<1>3. \A m \in Message : m.stamp \in Nat
  OBVIOUS
<1>. HIDE DEF Message
<1>4. /\ Len(updates[r]) \in Nat /\ DOMAIN updates[r] = 1 .. Len(updates[r])
      /\ \A i \in 1 .. Len(updates[r]) : updates[r][i] \in Message
  BY <1>1, LenProperties, ElementOfSeq
<1>. QED
  BY <1>1, <1>2, <1>3, <1>4 DEF Message

\* Taking the first message off an ordered queue of updates.
LEMMA TakeUpdate ==
  ASSUME TypeOK, NEW r \in Robots, Ordered(r), updates[r] # <<>>
  PROVE  LET q == Tail(updates[r])
             s == Head(updates[r]).stamp
         IN  /\ s \in Nat /\ s <= clock[r]
             /\ writable[r] => readonly_map[r].stamp < s
             /\ \A i \in DOMAIN q : /\ i + 1 \in DOMAIN updates[r]
                                    /\ q[i] = updates[r][i + 1] /\ s < q[i].stamp
             /\ \A i, j \in DOMAIN q : i < j => q[i].stamp < q[j].stamp
<1>. DEFINE Message == [stamp : Nat \ {0}, patch : Updates]
            q == updates[r]
<1>1. q \in Seq(Message) /\ Len(q) \in Nat /\ DOMAIN q = 1 .. Len(q)
      /\ \A i \in DOMAIN q : q[i].stamp \in Nat
  BY StampTypes
<1>2. Head(q) = q[1] /\ 1 \in DOMAIN q /\ DOMAIN Tail(q) = 1 .. Len(q) - 1
      /\ \A i \in 1 .. Len(q) - 1 : Tail(q)[i] = q[i + 1] /\ i + 1 \in DOMAIN q
  <2>. HIDE DEF Message
  <2>1. q # <<>>
    OBVIOUS
  <2>2. Len(q) >= 1
    BY <1>1, <2>1, EmptySeq
  <2>3. Tail(q) \in Seq(Message) /\ Len(Tail(q)) = Len(q) - 1
        /\ \A i \in 1 .. Len(Tail(q)) : Tail(q)[i] = q[i + 1]
    BY <1>1, <2>1, HeadTailProperties
  <2>4. DOMAIN Tail(q) = 1 .. Len(q) - 1
    BY <2>3, LenProperties
  <2>. QED
    BY <1>1, <2>2, <2>3, <2>4
<1>3. \A i, j \in DOMAIN q : i < j => q[i].stamp < q[j].stamp
  BY DEF Ordered
<1>4. q[1].stamp <= clock[r] /\ (writable[r] => readonly_map[r].stamp < q[1].stamp)
  BY <1>2 DEF Ordered
<1>5. \A i \in 1 .. Len(q) - 1 : 1 < i + 1
  OBVIOUS
<1>6. \A i, j \in 1 .. Len(q) - 1 : i < j => i + 1 < j + 1
  BY <1>1
<1>. HIDE DEF q
<1>7. \A i \in DOMAIN Tail(q) : q[1].stamp < Tail(q)[i].stamp
  BY <1>2, <1>3, <1>5
<1>8. \A i, j \in DOMAIN Tail(q) : i < j => Tail(q)[i].stamp < Tail(q)[j].stamp
  BY <1>2, <1>3, <1>6
<1>. QED
  BY <1>1, <1>2, <1>4, <1>7, <1>8 DEF q

\* A robot none of whose queue, clock and map a step changes stays ordered.
LEMMA UnchangedOrder ==
  ASSUME NEW r \in Robots, Ordered(r),
         updates'[r] = updates[r], clock'[r] = clock[r],
         writable'[r] = writable[r], readonly_map'[r] = readonly_map[r]
  PROVE  Ordered(r)'
BY DEF Ordered

LEMMA OrderInductive == OrderInvariant /\ TypeOK' /\ [Next]_vars => OrderInvariant'
<1>. SUFFICES ASSUME TypeOK, TypeOK', [Next]_vars, NEW r \in Robots,
                     \A x \in Robots : Ordered(x)
              PROVE  Ordered(r)'
  BY DEF OrderInvariant
<1>0. /\ DOMAIN clock = Robots /\ DOMAIN updates = Robots
      /\ DOMAIN readonly_map = Robots /\ DOMAIN writable = Robots
  BY DEF TypeOK
<1>1. ASSUME NEW x \in Robots, FullMapUpdate(x) PROVE Ordered(r)'
  <2>1. UNCHANGED <<clock, updates>>
    BY <1>1 DEF FullMapUpdate
  <2>2. CASE readonly_map'[r] = readonly_map[r] /\ writable'[r] = writable[r]
    BY <2>1, <2>2, UnchangedOrder
  <2>3. CASE writable'[r] = FALSE
    BY <2>1, <2>3 DEF Ordered
  <2>4. \/ UNCHANGED <<readonly_map, writable>>
        \/ /\ readonly_map' = [readonly_map EXCEPT ![x] = Head(maps[x])]
           /\ writable' = [writable EXCEPT ![x] = FALSE]
    BY <1>1 DEF FullMapUpdate, storage
  <2>. QED
    BY <1>0, <2>2, <2>3, <2>4
<1>2. ASSUME NEW x \in Robots, PartialMapUpdate(x) PROVE Ordered(r)'
  <2>. DEFINE s == Head(updates[x]).stamp
              data == Patched(readonly_map[x].data, Head(updates[x]).patch)
  <2>1. /\ UNCHANGED clock /\ updates[x] # <<>>
        /\ updates' = [updates EXCEPT ![x] = Tail(@)]
        /\ \/ UNCHANGED <<readonly_map, writable>>
           \/ /\ readonly_map' = [readonly_map EXCEPT ![x] = [stamp |-> s, data |-> data]]
              /\ writable' = [writable EXCEPT ![x] = TRUE]
    BY <1>2 DEF PartialMapUpdate, storage
  <2>. HIDE DEF data
  <2>2. CASE x # r
    <3>1. updates'[r] = updates[r] /\ readonly_map'[r] = readonly_map[r]
          /\ writable'[r] = writable[r]
      BY <1>0, <2>1, <2>2
    <3>. QED
      BY <2>1, <3>1, UnchangedOrder
  <2>3. CASE x = r
    <3>. DEFINE q == Tail(updates[r])
    <3>1. updates'[r] = q /\ clock'[r] = clock[r]
      BY <1>0, <2>1, <2>3
    <3>2. /\ s \in Nat /\ s <= clock[r]
          /\ \A i \in DOMAIN q : /\ i + 1 \in DOMAIN updates[r]
                                 /\ q[i] = updates[r][i + 1] /\ s < q[i].stamp
          /\ \A i, j \in DOMAIN q : i < j => q[i].stamp < q[j].stamp
      BY <2>1, <2>3, TakeUpdate
    <3>. HIDE DEF q, s
    <3>3. \A i \in DOMAIN q : q[i].stamp <= clock[r]
      BY <3>2 DEF Ordered
    <3>4. CASE readonly_map'[r] = readonly_map[r] /\ writable'[r] = writable[r]
      BY <3>1, <3>2, <3>3, <3>4 DEF Ordered
    <3>5. CASE readonly_map'[r].stamp = s
      BY <3>1, <3>2, <3>3, <3>5 DEF Ordered
    <3>6. \/ UNCHANGED <<readonly_map, writable>>
          \/ readonly_map'[r] = [stamp |-> s, data |-> data]
      BY <1>0, <2>1, <2>3
    <3>. QED
      BY <3>4, <3>5, <3>6
  <2>. QED
    BY <2>2, <2>3
<1>3. CASE TopicSubscribing \/ MapMerging \/ PoseEstimation \/ UNCHANGED vars
  BY <1>3, UnchangedOrder DEF TopicSubscribing, MapMerging, PoseEstimation, vars,
                              incoming, storage
<1>4. ASSUME NEW x \in Robots, TopicAppears(x) PROVE Ordered(r)'
  BY <1>4, UnchangedOrder DEF TopicAppears, storage
<1>5. ASSUME NEW x \in Robots, NEW data \in FullMaps, PublishMap(x, data) PROVE Ordered(r)'
  <2>1. UNCHANGED <<updates, readonly_map, writable>>
    BY <1>5 DEF PublishMap, storage
  <2>2. clock'[r] \in Nat /\ clock[r] <= clock'[r]
    <3>1. clock' = [clock EXCEPT ![x] = @ + 1]
      BY <1>5 DEF PublishMap, Stamp
    <3>2. clock[r] \in Nat
      BY StampTypes
    <3>. QED
      BY <1>0, <3>1, <3>2
  <2>. QED
    BY <2>1, <2>2, StampTypes DEF Ordered
<1>6. ASSUME NEW x \in Robots, NEW u \in Updates, PublishUpdate(x, u) PROVE Ordered(r)'
  <2>. DEFINE m == [stamp |-> clock[x] + 1, patch |-> u]
  <2>1. UNCHANGED <<readonly_map, writable>>
        /\ clock' = [clock EXCEPT ![x] = @ + 1]
        /\ updates' = [updates EXCEPT ![x] = Append(@, m)]
    BY <1>6 DEF PublishUpdate, Stamp, storage
  <2>2. CASE x # r
    <3>. HIDE DEF m
    <3>1. updates'[r] = updates[r] /\ clock'[r] = clock[r]
      BY <1>0, <2>1, <2>2
    <3>. QED
      BY <2>1, <3>1, UnchangedOrder
  <2>3. CASE x = r
    <3>. DEFINE q == updates[r]
                n == Len(updates[r])
    <3>1. n \in Nat /\ DOMAIN q = 1 .. n /\ clock[r] \in Nat
          /\ readonly_map[r].stamp \in Nat
          /\ \A i \in DOMAIN q : q[i].stamp \in Nat
      BY StampTypes
    <3>2. updates'[r] = Append(q, m) /\ clock'[r] = clock[r] + 1
      BY <1>0, <2>1, <2>3
    <3>3. DOMAIN updates'[r] = 1 .. n + 1 /\ updates'[r][n + 1] = m
          /\ \A i \in 1 .. n : updates'[r][i] = q[i]
      <4>. DEFINE Message == [stamp : Nat \ {0}, patch : Updates]
      <4>1. q \in Seq(Message)
        BY StampTypes
      <4>2. m \in Message
        BY <2>3, <3>1
      <4>. HIDE DEF m, Message
      <4>. QED
        BY <3>1, <3>2, <4>1, <4>2, AppendProperties, LenProperties
    <3>4. m.stamp = clock[r] + 1
      BY <2>3
    <3>5. /\ \A i, j \in 1 .. n : i < j => q[i].stamp < q[j].stamp
          /\ \A i \in 1 .. n : q[i].stamp <= clock[r]
          /\ writable[r] => /\ readonly_map[r].stamp <= clock[r]
                            /\ \A i \in 1 .. n : readonly_map[r].stamp < q[i].stamp
      BY <3>1 DEF Ordered
    <3>. HIDE DEF m, q, n
    <3>6. \A i \in 1 .. n + 1 : i \in 1 .. n \/ i = n + 1
      BY <3>1
    <3>7. \A i \in 1 .. n + 1 : updates'[r][i].stamp <= clock[r] + 1
      BY <3>1, <3>3, <3>4, <3>5, <3>6
    <3>8. ASSUME NEW i \in 1 .. n + 1, NEW j \in 1 .. n + 1, i < j
          PROVE  updates'[r][i].stamp < updates'[r][j].stamp
      <4>1. i \in 1 .. n
        BY <3>1, <3>8
      <4>2. updates'[r][i] = q[i] /\ q[i].stamp \in Nat /\ q[i].stamp <= clock[r]
        BY <3>1, <3>3, <3>5, <4>1
      <4>3. CASE j \in 1 .. n
        BY <3>3, <3>5, <3>8, <4>1, <4>3
      <4>4. CASE j = n + 1
        BY <3>1, <3>3, <3>4, <4>2, <4>4
      <4>. QED
        BY <3>6, <4>3, <4>4
    <3>9. writable[r] => /\ readonly_map[r].stamp <= clock[r] + 1
                         /\ \A i \in 1 .. n + 1 :
                              readonly_map[r].stamp < updates'[r][i].stamp
      BY <3>1, <3>3, <3>4, <3>5, <3>6
    <3>. QED
      BY <2>1, <3>2, <3>3, <3>7, <3>8, <3>9 DEF Ordered
  <2>. QED
    BY <2>2, <2>3
<1>. QED
  BY <1>1, <1>2, <1>3, <1>4, <1>5, <1>6 DEF Next, Callback, Environment

\* A step takes over a full map only if it is not older than the map kept, and
\* patches a map in place only with a newer update.
LEMMA StepNeverOlder ==
  OrderInvariant /\ [Next]_vars
    => [\A r \in Robots : readonly_map'[r].stamp >= readonly_map[r].stamp]_vars
<1>. SUFFICES ASSUME TypeOK, \A x \in Robots : Ordered(x), Next, NEW r \in Robots
              PROVE  readonly_map'[r].stamp >= readonly_map[r].stamp
  BY DEF OrderInvariant
<1>0. readonly_map[r].stamp \in Nat /\ DOMAIN readonly_map = Robots
  BY StampTypes DEF TypeOK
<1>1. ASSUME NEW x \in Robots, FullMapUpdate(x)
      PROVE  readonly_map'[r].stamp >= readonly_map[r].stamp
  <2>1. \/ UNCHANGED readonly_map
        \/ /\ ~(readonly_map[x].stamp > Head(maps[x]).stamp)
           /\ readonly_map' = [readonly_map EXCEPT ![x] = Head(maps[x])]
    BY <1>1 DEF FullMapUpdate, storage
  <2>2. Head(maps[x]).stamp \in Nat
    <3>1. maps[x] \in Seq(Grid) /\ maps[x] # <<>>
      BY <1>1 DEF TypeOK, FullMapUpdate
    <3>2. Head(maps[x]) \in Grid
      BY <3>1, HeadTailProperties
    <3>. QED
      BY <3>2 DEF Grid
  <2>. QED
    BY <1>0, <2>1, <2>2
<1>2. ASSUME NEW x \in Robots, PartialMapUpdate(x)
      PROVE  readonly_map'[r].stamp >= readonly_map[r].stamp
  <2>. DEFINE s == Head(updates[x]).stamp
              data == Patched(readonly_map[x].data, Head(updates[x]).patch)
  <2>1. /\ updates[x] # <<>>
        /\ \/ UNCHANGED readonly_map
           \/ /\ writable[x] \/ ~(readonly_map[x].stamp > s)
              /\ readonly_map' = [readonly_map EXCEPT ![x] = [stamp |-> s, data |-> data]]
    BY <1>2 DEF PartialMapUpdate, storage
  <2>2. s \in Nat /\ (writable[x] => readonly_map[x].stamp < s)
    BY <2>1, TakeUpdate
  <2>3. readonly_map[x].stamp \in Nat
    BY StampTypes
  <2>. HIDE DEF s, data
  <2>. QED
    BY <1>0, <2>1, <2>2, <2>3
<1>3. CASE TopicSubscribing \/ MapMerging \/ PoseEstimation
  <2>1. UNCHANGED readonly_map
    BY <1>3 DEF TopicSubscribing, MapMerging, PoseEstimation, storage
  <2>. QED
    BY <1>0, <2>1
<1>4. CASE \E x \in Robots : Environment(x)
  <2>1. UNCHANGED readonly_map
    BY <1>4 DEF Environment, TopicAppears, PublishMap, PublishUpdate, storage
  <2>. QED
    BY <1>0, <2>1
<1>. QED
  BY <1>1, <1>2, <1>3, <1>4 DEF Next, Callback

LEMMA InitOrder == Init => OrderInvariant
<1>. SUFFICES ASSUME Init, NEW r \in Robots PROVE TypeOK /\ Ordered(r)
  BY InitIInv DEF OrderInvariant, IInv
<1>1. TypeOK
  BY InitIInv DEF IInv
<1>2. updates[r] = <<>> /\ writable[r] = FALSE
  BY DEF Init
<1>3. DOMAIN <<>> = {}
  OBVIOUS
<1>. QED
  BY <1>1, <1>2, <1>3 DEF Ordered

\* The map kept of a robot never goes back in time, although full maps and
\* updates travel on separate topics and overtake each other: fullMapUpdate
\* compares stamps (lines 294-302), partialMapUpdate compares the first one
\* after a full map and relies on the order of the topic for the others (lines
\* 355-382).
THEOREM KeptMapCorrect == Spec => NeverOlder
<1>. QED
  BY InitOrder, TypeCorrect, OrderInductive, StepNeverOlder, PTL DEF Spec, NeverOlder

-----------------------------------------------------------------------------
(* The way of a map: kept, in the pipeline, merged                         *)

\* Along the way of a robot's maps, from the map kept to the grid in the
\* pipeline to the merged map, no place is ahead of the one before.
Trails(r) == r \in DOMAIN merged => merged[r].grid.stamp <= readonly_map[r].stamp

EntryTrails(i) ==
  LET r == grids[i].robot
  IN  /\ grids[i].grid.stamp <= readonly_map[r].stamp
      /\ r \in DOMAIN merged => merged[r].grid.stamp <= grids[i].grid.stamp

\* With known poses only robots with a pose are merged, and only subscribed ones.
Placed == known_init_poses => \A r \in DOMAIN merged : r \in Subscribed /\ init_pose[r] # "none"

TrailInvariant ==
  /\ IInv
  /\ \A r \in Robots : Ordered(r) /\ Trails(r)
  /\ \A i \in DOMAIN grids : EntryTrails(i)
  /\ Placed

\* The entries of the pipeline and of the merged map, and their stamps.
LEMMA PipelineTypes ==
  ASSUME TypeOK
  PROVE  /\ Len(grids) \in Nat /\ DOMAIN grids = 1 .. Len(grids)
         /\ DOMAIN transforms = 1 .. Len(transforms)
         /\ \A i \in DOMAIN grids : /\ grids[i].robot \in Robots
                                    /\ grids[i].grid \in Grid \cup {NoGrid}
                                    /\ grids[i].grid.stamp \in Nat
         /\ \A r \in DOMAIN merged : r \in Robots /\ merged[r].grid.stamp \in Nat \ {0}
         /\ \A r \in Robots : readonly_map[r].stamp \in Nat
<1>. DEFINE Entry == [robot : Robots, grid : Grid \cup {NoGrid}]
<1>0. \A g \in Grid \cup {NoGrid} : g.stamp \in Nat
  BY DEF Grid, NoGrid
<1>1. \A e \in Entry : e.robot \in Robots /\ e.grid \in Grid \cup {NoGrid}
  OBVIOUS
<1>2. grids \in Seq(Entry) /\ transforms \in Seq([robot : Robots, pose : Poses])
  BY DEF TypeOK
<1>. HIDE DEF Entry
<1>3. Len(grids) \in Nat /\ DOMAIN grids = 1 .. Len(grids)
      /\ DOMAIN transforms = 1 .. Len(transforms) /\ \A i \in DOMAIN grids : grids[i] \in Entry
  BY <1>2, LenProperties, ElementOfSeq
<1>4. ASSUME NEW r \in DOMAIN merged PROVE r \in Robots /\ merged[r].grid.stamp \in Nat \ {0}
  <2>1. merged[r] \in [grid : Grid, pose : Poses] /\ r \in Robots
    BY DEF TypeOK
  <2>2. merged[r].grid \in Grid
    BY <2>1
  <2>. QED
    BY <2>1, <2>2 DEF Grid
<1>. QED
  BY <1>0, <1>1, <1>3, <1>4, StampTypes

LEMMA TransformTypes ==
  ASSUME TypeOK PROVE \A i \in DOMAIN transforms : transforms[i].robot \in Robots
<1>. DEFINE Entry == [robot : Robots, pose : Poses]
<1>1. transforms \in Seq(Entry) /\ \A e \in Entry : e.robot \in Robots
  BY DEF TypeOK
<1>. HIDE DEF Entry
<1>. QED
  BY <1>1, LenProperties, ElementOfSeq

\* No robot has two entries in the pipeline.
LEMMA EntriesDiffer ==
  ASSUME IInv, NEW i \in DOMAIN grids, NEW j \in DOMAIN grids, grids[i].robot = grids[j].robot
  PROVE  i = j
<1>. DEFINE k == Len(subscriptions) - Len(grids)
<1>1. /\ TypeOK /\ Len(grids) \in Nat /\ DOMAIN grids = 1 .. Len(grids)
      /\ Len(subscriptions) \in Nat /\ DOMAIN subscriptions = 1 .. Len(subscriptions)
  BY PipelineTypes, ListOfRobots DEF IInv
<1>2. Len(grids) <= Len(subscriptions) /\ \A n \in DOMAIN grids : grids[n].robot = subscriptions[k + n]
  BY DEF IInv, SegmentInvariant, Final
<1>3. k + i \in DOMAIN subscriptions /\ k + j \in DOMAIN subscriptions
  BY <1>1, <1>2
<1>4. k + i = k + j
  BY <1>1, <1>2, <1>3 DEF TypeOK
<1>. QED
  BY <1>1, <1>4

\* What a merge shows of a robot is the grid of one of its drawn entries.
LEMMA MergeShowsEntries ==
  ASSUME NEW gs, NEW ts, NEW m, m = Merge(gs, ts)
  PROVE  /\ DOMAIN m = {gs[i].robot : i \in Drawn(gs, ts)}
         /\ \A r \in DOMAIN m : \E i \in Drawn(gs, ts) :
              gs[i].robot = r /\ m[r].grid = gs[i].grid
<1>. DEFINE D == {gs[i].robot : i \in Drawn(gs, ts)}
            I(r) == CHOOSE k \in Drawn(gs, ts) : gs[k].robot = r
<1>1. m = [r \in D |-> [grid |-> gs[I(r)].grid, pose |-> ts[I(r)].pose]]
  BY DEF Merge
<1>2. ASSUME NEW r \in D PROVE I(r) \in Drawn(gs, ts) /\ gs[I(r)].robot = r
  BY <1>2
<1>. HIDE DEF D, I
<1>3. DOMAIN m = D /\ \A r \in D : m[r].grid = gs[I(r)].grid
  BY <1>1
<1>. QED
  BY <1>2, <1>3 DEF D

\* What is merged of a robot is its grid in the pipeline.
LEMMA MergedIsInPipeline ==
  ASSUME merged' = Merge(grids', transforms')
  PROVE  \A r \in DOMAIN merged' : \E i \in DOMAIN grids' :
           grids'[i].robot = r /\ merged'[r].grid = grids'[i].grid
<1>. DEFINE D == {grids'[i].robot : i \in Drawn(grids', transforms')}
            I(r) == CHOOSE k \in Drawn(grids', transforms') : grids'[k].robot = r
<1>1. merged' = [r \in D |-> [grid |-> grids'[I(r)].grid, pose |-> transforms'[I(r)].pose]]
  BY DEF Merge
<1>2. ASSUME NEW r \in D PROVE I(r) \in Drawn(grids', transforms') /\ grids'[I(r)].robot = r
  BY <1>2
<1>3. Drawn(grids', transforms') \subseteq DOMAIN grids'
  BY DEF Drawn
<1>. HIDE DEF D, I
<1>4. DOMAIN merged' = D /\ \A r \in D : merged'[r].grid = grids'[I(r)].grid
  BY <1>1
<1>. QED
  BY <1>2, <1>3, <1>4

\* A composition leaves what is merged, or merges what is drawn.
LEMMA ComposeGridsMerges ==
  ASSUME NEW gs, NEW ts, ComposeGrids(gs, ts)
  PROVE  UNCHANGED merged \/ (Len(gs) = Len(ts) /\ merged' = Merge(gs, ts))
BY DEF ComposeGrids

\* While the pipeline and the merged map stay, a map that only gets newer
\* keeps the trail.
LEMMA NewerMapKeepsTrail ==
  ASSUME TypeOK, TypeOK', UNCHANGED <<grids, merged>>,
         \A r \in Robots : readonly_map'[r].stamp >= readonly_map[r].stamp,
         \A r \in Robots : Trails(r), \A i \in DOMAIN grids : EntryTrails(i)
  PROVE  (\A r \in Robots : Trails(r)') /\ (\A i \in DOMAIN grids' : EntryTrails(i)')
<1>1. \A r \in Robots : readonly_map[r].stamp \in Nat /\ readonly_map'[r].stamp \in Nat
  <2>1. \A r \in Robots : readonly_map[r].stamp \in Nat
    BY PipelineTypes
  <2>2. readonly_map' \in [Robots -> Grid \cup {NoGrid}]
    BY DEF TypeOK
  <2>3. \A g \in Grid \cup {NoGrid} : g.stamp \in Nat
    BY DEF Grid, NoGrid
  <2>. QED
    BY <2>1, <2>2, <2>3
<1>2. ASSUME NEW r \in Robots PROVE Trails(r)'
  BY <1>1, PipelineTypes DEF Trails
<1>3. ASSUME NEW i \in DOMAIN grids PROVE EntryTrails(i)'
  BY <1>1, <1>3, PipelineTypes DEF EntryTrails
<1>. QED
  BY <1>2, <1>3

\* The pipeline is given every map kept: the trail starts anew from there.
LEMMA FedTrails ==
  ASSUME TypeOK, UNCHANGED readonly_map, grids' = Fed,
         \A r \in Robots : Trails(r),
         \/ UNCHANGED merged
         \/ merged' = Merge(grids', transforms')
  PROVE  /\ \A r \in Robots : Trails(r)'
         /\ \A i \in DOMAIN grids' : EntryTrails(i)'
         /\ \A r \in DOMAIN merged \cap DOMAIN merged' :
              merged'[r].grid.stamp >= merged[r].grid.stamp
<1>1. /\ DOMAIN Fed = DOMAIN subscriptions
      /\ \A i \in DOMAIN Fed : /\ Fed[i].robot \in Robots
                               /\ Fed[i].grid = readonly_map[Fed[i].robot]
  BY ListOfRobots DEF Fed
<1>2. ASSUME NEW r \in DOMAIN merged'
      PROVE  r \in Robots /\ (r \in DOMAIN merged => merged'[r].grid.stamp >= merged[r].grid.stamp)
             /\ merged'[r].grid.stamp <= readonly_map[r].stamp
  <2>1. CASE UNCHANGED merged
    <3>1. r \in DOMAIN merged /\ merged'[r] = merged[r]
      BY <2>1
    <3>2. r \in Robots /\ merged[r].grid.stamp \in Nat
      BY <3>1, PipelineTypes
    <3>. QED
      BY <3>1, <3>2 DEF Trails
  <2>2. CASE merged' = Merge(grids', transforms')
    <3>1. PICK i \in DOMAIN grids' : grids'[i].robot = r /\ merged'[r].grid = grids'[i].grid
      BY <2>2, MergedIsInPipeline
    <3>3. r \in Robots /\ merged'[r].grid = readonly_map[r] /\ readonly_map[r].stamp \in Nat
      BY <1>1, <3>1, PipelineTypes
    <3>. QED
      BY <3>3, PipelineTypes DEF Trails
  <2>. QED
    BY <2>1, <2>2
<1>3. ASSUME NEW i \in DOMAIN Fed
      PROVE  EntryTrails(i)'
  <2>1. grids'[i].robot \in Robots /\ grids'[i].grid = readonly_map'[grids'[i].robot]
    BY <1>1
  <2>2. readonly_map'[grids'[i].robot].stamp \in Nat
    BY <2>1, PipelineTypes
  <2>. QED
    BY <1>2, <2>1, <2>2 DEF EntryTrails
<1>. QED
  BY <1>2, <1>3 DEF Trails

\* Every step but a merge or an estimation leaves pipeline and merged map, up
\* to a grid that is patched in place.
LEMMA TrailInductive ==
  ASSUME TrailInvariant, IInv', \A r \in Robots : Ordered(r)', [Next]_vars,
         \A r \in Robots : readonly_map'[r].stamp >= readonly_map[r].stamp
  PROVE  /\ \A r \in Robots : Trails(r)'
         /\ \A i \in DOMAIN grids' : EntryTrails(i)'
         /\ \A r \in DOMAIN merged \cap DOMAIN merged' :
              merged'[r].grid.stamp >= merged[r].grid.stamp
<1>0. TypeOK /\ TypeOK' /\ (\A r \in Robots : Trails(r)) /\ (\A i \in DOMAIN grids : EntryTrails(i))
  BY DEF TrailInvariant, IInv
<1>1. \A r \in DOMAIN merged : merged[r].grid.stamp \in Nat
  BY <1>0, PipelineTypes
<1>2. CASE UNCHANGED <<grids, merged>>
  BY <1>0, <1>1, <1>2, NewerMapKeepsTrail
<1>3. ASSUME NEW x \in Robots, PartialMapUpdate(x), grids' # grids
      PROVE  /\ \A r \in Robots : Trails(r)'
             /\ \A i \in DOMAIN grids' : EntryTrails(i)'
             /\ UNCHANGED merged
  <2>. DEFINE map == readonly_map'[x]
  <2>1. /\ UNCHANGED merged
        /\ readonly_map' = [readonly_map EXCEPT ![x] =
              [stamp |-> Head(updates[x]).stamp,
               data |-> Patched(readonly_map[x].data, Head(updates[x]).patch)]]
        /\ grids' = [i \in DOMAIN grids |->
              IF writable[x] /\ x \in aliased /\ grids[i].robot = x
                THEN [grids[i] EXCEPT !.grid =
                  [stamp |-> Head(updates[x]).stamp,
                   data |-> Patched(readonly_map[x].data, Head(updates[x]).patch)]]
                ELSE grids[i]]
    BY <1>3 DEF PartialMapUpdate
  <2>2. map = [stamp |-> Head(updates[x]).stamp,
               data |-> Patched(readonly_map[x].data, Head(updates[x]).patch)]
    BY <2>1, <1>0 DEF TypeOK
  <2>3. ASSUME NEW i \in DOMAIN grids
        PROVE  /\ grids'[i].robot = grids[i].robot
               /\ \/ grids'[i].grid = grids[i].grid
                  \/ grids[i].robot = x /\ grids'[i].grid = map
    <3>. HIDE DEF map
    <3>. DEFINE Entry == [robot : Robots, grid : Grid \cup {NoGrid}]
    <3>1. grids \in Seq(Entry) /\ i \in 1 .. Len(grids)
      BY <1>0, <2>3, PipelineTypes DEF TypeOK
    <3>2. grids[i] \in Entry
      <4>. HIDE DEF Entry
      <4>. QED
        BY <3>1, ElementOfSeq
    <3>. QED
      BY <2>1, <2>2, <3>2
  <2>4. /\ DOMAIN grids' = DOMAIN grids
        /\ \A r \in Robots : readonly_map[r].stamp \in Nat /\ readonly_map'[r].stamp \in Nat
    <3>1. \A r \in Robots : readonly_map[r].stamp \in Nat
      BY <1>0, PipelineTypes
    <3>2. readonly_map' \in [Robots -> Grid \cup {NoGrid}]
      BY <1>0 DEF TypeOK
    <3>3. \A g \in Grid \cup {NoGrid} : g.stamp \in Nat
      BY DEF Grid, NoGrid
    <3>. QED
      BY <2>1, <3>1, <3>2, <3>3
  <2>. HIDE DEF map
  <2>5. ASSUME NEW r \in Robots PROVE Trails(r)'
    BY <1>0, <1>1, <2>1, <2>4 DEF Trails
  <2>6. ASSUME NEW i \in DOMAIN grids PROVE EntryTrails(i)'
    <3>1. grids[i].robot \in Robots /\ grids[i].grid.stamp \in Nat
      BY <1>0, PipelineTypes
    <3>2. CASE grids'[i].grid = grids[i].grid
      BY <1>0, <1>1, <2>1, <2>3, <2>4, <3>1, <3>2 DEF EntryTrails
    <3>3. CASE grids[i].robot = x /\ grids'[i].grid = map
      BY <1>0, <1>1, <2>1, <2>3, <2>4, <2>5, <3>1, <3>3 DEF EntryTrails, Trails, map
    <3>. QED
      BY <2>3, <3>2, <3>3
  <2>. QED
    BY <2>1, <2>4, <2>5, <2>6
<1>4. CASE MapMerging
  <2>1. UNCHANGED readonly_map /\ ComposeGrids(grids', transforms')
    BY <1>4 DEF MapMerging, storage
  <2>2. UNCHANGED merged \/ merged' = Merge(grids', transforms')
    BY <2>1, ComposeGridsMerges
  <2>3. CASE known_init_poses
    <3>1. grids' = Fed
      BY <1>4, <2>3 DEF MapMerging
    <3>. QED
      BY <1>0, <2>1, <2>2, <3>1, FedTrails
  <2>4. CASE ~known_init_poses
    <3>1. UNCHANGED grids
      BY <1>4, <2>4 DEF MapMerging, pipeline
    <3>2. CASE UNCHANGED merged
      BY <1>2, <3>1, <3>2
    <3>3. CASE merged' = Merge(grids', transforms')
      <4>1. ASSUME NEW r \in DOMAIN merged'
            PROVE  \E i \in DOMAIN grids : grids[i].robot = r /\ merged'[r].grid = grids[i].grid
        BY <3>1, <3>3, MergedIsInPipeline
      <4>2. ASSUME NEW i \in DOMAIN grids
            PROVE  /\ grids[i].robot \in Robots /\ grids[i].grid.stamp \in Nat
                   /\ readonly_map[grids[i].robot].stamp \in Nat
                   /\ grids[i].grid.stamp <= readonly_map[grids[i].robot].stamp
                   /\ grids[i].robot \in DOMAIN merged
                        => merged[grids[i].robot].grid.stamp <= grids[i].grid.stamp
        BY <1>0, PipelineTypes DEF EntryTrails
      <4>3. ASSUME NEW r \in Robots PROVE Trails(r)'
        BY <2>1, <4>1, <4>2 DEF Trails
      <4>4. ASSUME NEW i \in DOMAIN grids PROVE EntryTrails(i)'
        <5>1. ASSUME grids[i].robot \in DOMAIN merged'
              PROVE  merged'[grids[i].robot].grid = grids[i].grid
          <6>1. PICK j \in DOMAIN grids :
                  grids[j].robot = grids[i].robot /\ merged'[grids[i].robot].grid = grids[j].grid
            BY <4>1, <5>1
          <6>2. i = j
            BY <6>1, EntriesDiffer DEF TrailInvariant
          <6>. QED
            BY <6>1, <6>2
        <5>. QED
          BY <2>1, <3>1, <4>2, <5>1 DEF EntryTrails
      <4>5. ASSUME NEW r \in DOMAIN merged \cap DOMAIN merged'
            PROVE  merged'[r].grid.stamp >= merged[r].grid.stamp
        <5>1. PICK i \in DOMAIN grids : grids[i].robot = r /\ merged'[r].grid = grids[i].grid
          BY <4>1
        <5>. QED
          BY <1>1, <4>2, <5>1
      <4>. QED
        BY <3>1, <4>3, <4>4, <4>5
    <3>. QED
      BY <2>2, <3>1, <3>2, <3>3
  <2>. QED
    BY <2>3, <2>4
<1>5. CASE PoseEstimation
  <2>1. UNCHANGED <<readonly_map, merged>> /\ grids' = Fed
    BY <1>5 DEF PoseEstimation, storage
  <2>. QED
    BY <1>0, <2>1, FedTrails
<1>6. ASSUME NEW x \in Robots, FullMapUpdate(x) PROVE UNCHANGED <<grids, merged>>
  BY <1>6 DEF FullMapUpdate
<1>7. ASSUME NEW x \in Robots, PartialMapUpdate(x) PROVE UNCHANGED merged
  BY <1>7 DEF PartialMapUpdate
<1>8. ASSUME NEW x \in Robots, Environment(x) PROVE UNCHANGED <<grids, merged>>
  BY <1>8 DEF Environment, TopicAppears, PublishMap, PublishUpdate, pipeline
<1>9. CASE TopicSubscribing \/ UNCHANGED vars
  BY <1>2, <1>9 DEF TopicSubscribing, pipeline, vars
<1>. QED
  BY <1>1, <1>2, <1>3, <1>4, <1>5, <1>6, <1>7, <1>8, <1>9 DEF Next, Callback

\* With known poses a robot that is merged has a map and a pose, and so is
\* drawn again.
LEMMA MergedStaysMerged ==
  ASSUME TrailInvariant, IInv', [Next]_vars
  PROVE  Placed' /\ (known_init_poses => DOMAIN merged \subseteq DOMAIN merged')
<1>0. TypeOK /\ Placed
  BY DEF TrailInvariant, IInv
<1>1. UNCHANGED params
  BY DEF Next, Callback, Environment, TopicAppears, PublishMap, PublishUpdate, TopicSubscribing,
         FullMapUpdate, PartialMapUpdate, MapMerging, PoseEstimation, vars
<1>2. Subscribed \subseteq Subscribed'
  <2>1. CASE UNCHANGED subscriptions
    BY <2>1 DEF Subscribed
  <2>2. CASE TopicSubscribing
    BY <1>0, <2>2, SubscribedGrows
  <2>. QED
    BY <2>1, <2>2 DEF Next, Callback, Environment, TopicAppears, PublishMap, PublishUpdate,
         FullMapUpdate, PartialMapUpdate, MapMerging, PoseEstimation, vars, storage
<1>3. CASE UNCHANGED merged
  BY <1>0, <1>1, <1>2, <1>3 DEF Placed, params
<1>4. CASE MapMerging /\ known_init_poses
  <2>1. /\ UNCHANGED subscriptions /\ UNCHANGED <<known_init_poses, init_pose>>
        /\ grids' = Fed /\ transforms' = InitialTransforms
        /\ ComposeGrids(Fed, InitialTransforms)
    BY <1>4 DEF MapMerging, storage, params
  <2>2. CASE merged' = Merge(Fed, InitialTransforms)
    <3>1. DOMAIN merged' = {Fed[i].robot : i \in Drawn(Fed, InitialTransforms)}
      BY <2>2, MergeShowsEntries
    <3>2. Drawn(Fed, InitialTransforms) =
            {i \in DOMAIN subscriptions : /\ readonly_map[subscriptions[i]] # NoGrid
                                          /\ init_pose[subscriptions[i]] # "none"}
      BY DEF Drawn, Fed, InitialTransforms
    <3>3. \A i \in DOMAIN subscriptions : Fed[i].robot = subscriptions[i]
      BY DEF Fed
    <3>4. DOMAIN merged' = {subscriptions[i] : i \in
            {i \in DOMAIN subscriptions : /\ readonly_map[subscriptions[i]] # NoGrid
                                          /\ init_pose[subscriptions[i]] # "none"}}
      BY <3>1, <3>2, <3>3
    <3>5. ASSUME NEW r \in DOMAIN merged
          PROVE  readonly_map[r] # NoGrid
      <4>1. merged[r].grid.stamp \in Nat \ {0} /\ r \in Robots /\ readonly_map[r].stamp \in Nat
        BY <1>0, PipelineTypes
      <4>2. merged[r].grid.stamp <= readonly_map[r].stamp
        BY <4>1 DEF TrailInvariant, Trails
      <4>. QED
        BY <4>1, <4>2 DEF NoGrid
    <3>6. DOMAIN merged \subseteq DOMAIN merged'
      BY <1>0, <1>4, <3>4, <3>5 DEF Placed, Subscribed, Range
    <3>7. \A r \in DOMAIN merged' : r \in Subscribed' /\ init_pose'[r] # "none"
      BY <2>1, <3>4 DEF Subscribed, Range
    <3>. QED
      BY <3>6, <3>7 DEF Placed
  <2>. QED
    BY <1>3, <2>1, <2>2, ComposeGridsMerges
<1>5. CASE MapMerging /\ ~known_init_poses
  BY <1>1, <1>5 DEF Placed, params
<1>. QED
  BY <1>3, <1>4, <1>5 DEF Next, Callback, Environment, TopicAppears, PublishMap, PublishUpdate,
         TopicSubscribing, FullMapUpdate, PartialMapUpdate, PoseEstimation, vars

LEMMA StepKeepsTrail ==
  TrailInvariant /\ IInv' /\ OrderInvariant' /\ [Next]_vars
    => /\ TrailInvariant'
       /\ [/\ \A r \in DOMAIN merged \cap DOMAIN merged' :
                merged'[r].grid.stamp >= merged[r].grid.stamp
           /\ known_init_poses => DOMAIN merged \subseteq DOMAIN merged']_vars
<1>. SUFFICES ASSUME TrailInvariant, IInv', OrderInvariant', [Next]_vars
              PROVE  /\ TrailInvariant'
                     /\ \A r \in DOMAIN merged \cap DOMAIN merged' :
                          merged'[r].grid.stamp >= merged[r].grid.stamp
                     /\ known_init_poses => DOMAIN merged \subseteq DOMAIN merged'
  OBVIOUS
<1>1. \A r \in Robots : readonly_map'[r].stamp >= readonly_map[r].stamp
  <2>1. TypeOK /\ OrderInvariant
    BY DEF TrailInvariant, IInv, OrderInvariant
  <2>2. \A r \in Robots : readonly_map[r].stamp \in Nat
    BY <2>1, StampTypes
  <2>3. CASE UNCHANGED readonly_map
    BY <2>2, <2>3
  <2>. QED
    BY <2>1, <2>3, StepNeverOlder DEF vars, storage
<1>2. \A r \in Robots : Ordered(r)'
  BY DEF OrderInvariant
<1>3. /\ \A r \in Robots : Trails(r)'
      /\ \A i \in DOMAIN grids' : EntryTrails(i)'
      /\ \A r \in DOMAIN merged \cap DOMAIN merged' :
           merged'[r].grid.stamp >= merged[r].grid.stamp
  BY <1>1, <1>2, TrailInductive
<1>4. Placed' /\ (known_init_poses => DOMAIN merged \subseteq DOMAIN merged')
  BY MergedStaysMerged
<1>. QED
  BY <1>2, <1>3, <1>4 DEF TrailInvariant

LEMMA TrailStarts == Init => TrailInvariant
<1>. SUFFICES ASSUME Init PROVE TrailInvariant
  OBVIOUS
<1>1. IInv /\ OrderInvariant
  BY InitIInv, InitOrder
<1>2. DOMAIN merged = {} /\ DOMAIN grids = {}
  <2>1. DOMAIN <<>> = {}
    OBVIOUS
  <2>. QED
    BY <2>1 DEF Init
<1>3. \A i \in DOMAIN grids : EntryTrails(i)
  BY <1>2
<1>4. \A r \in Robots : Ordered(r) /\ Trails(r)
  BY <1>1, <1>2 DEF OrderInvariant, Trails
<1>. QED
  BY <1>1, <1>2, <1>3, <1>4 DEF TrailInvariant, Placed

\* The merged map shows of no robot a map older than the one it showed before:
\* poseEstimation feeds the pipeline the maps that the callbacks of map_merge.cpp
\* keep and mapMerging composes the grids last fed, in whatever order the timers
\* and callbacks run and messages come; and with known poses a robot that is on
\* the merged map stays on it.
THEOREM MergedCorrect == Spec => MergedNeverGoesBack
<1>1. IInv /\ [Next]_vars => IInv' /\ TypeOK /\ TypeOK'
  BY NextIInv DEF IInv
<1>2. Init => IInv /\ OrderInvariant
  BY InitIInv, InitOrder
<1>. QED
  BY <1>1, <1>2, TrailStarts, NextIInv, OrderInductive, StepKeepsTrail, PTL
     DEF Spec, MergedNeverGoesBack

-----------------------------------------------------------------------------
(* How the process can end                                                 *)

\* A map of robot r is there, and in every place it has in the pipeline.
HasGrid(r) ==
  /\ readonly_map[r] # NoGrid
  /\ \A j \in DOMAIN grids : grids[j].robot = r => grids[j].grid # NoGrid

Posed(r) == \E i \in DOMAIN transforms : transforms[i].robot = r /\ transforms[i].pose # "none"

Estimated == \A r \in Robots : Posed(r) => HasGrid(r)

EndInvariant == IInv /\ (~known_init_poses => Estimated) /\ EachModeFailsItsWay

LEMMA GridIsThere == \A g \in Grid : g # NoGrid
BY DEF Grid, NoGrid

LEMMA ParamsStay == [Next]_vars => UNCHANGED <<known_init_poses, init_pose>>
BY DEF Next, Callback, Environment, TopicAppears, PublishMap, PublishUpdate, TopicSubscribing,
       FullMapUpdate, PartialMapUpdate, MapMerging, PoseEstimation, vars, params

\* Once a robot's map is there, it stays there.
LEMMA HasGridStays ==
  ASSUME IInv, IInv', [Next]_vars, NEW r \in Robots, HasGrid(r)
  PROVE  HasGrid(r)'
<1>0. TypeOK /\ TypeOK'
  BY DEF IInv
<1>1. ASSUME NEW x \in Robots, FullMapUpdate(x) PROVE HasGrid(r)'
  <2>1. UNCHANGED grids
    BY <1>1 DEF FullMapUpdate
  <2>2. Head(maps[x]) \in Grid
    <3>1. maps[x] \in Seq(Grid) /\ maps[x] # <<>>
      BY <1>0, <1>1 DEF TypeOK, FullMapUpdate
    <3>. QED
      BY <3>1, HeadTailProperties
  <2>3. \/ UNCHANGED readonly_map
        \/ readonly_map' = [readonly_map EXCEPT ![x] = Head(maps[x])]
    BY <1>1 DEF FullMapUpdate, storage
  <2>4. readonly_map'[r] = readonly_map[r] \/ readonly_map'[r] = Head(maps[x])
    BY <1>0, <2>3 DEF TypeOK
  <2>. QED
    BY <2>1, <2>2, <2>4, GridIsThere DEF HasGrid
<1>2. ASSUME NEW x \in Robots, PartialMapUpdate(x) PROVE HasGrid(r)'
  <2>. DEFINE data == Patched(readonly_map[x].data, Head(updates[x]).patch)
              s == Head(updates[x]).stamp
              map == [stamp |-> s, data |-> data]
  <2>1. \/ UNCHANGED <<readonly_map, grids>>
        \/ /\ readonly_map' = [readonly_map EXCEPT ![x] = map]
           /\ grids' = [i \in DOMAIN grids |->
                IF writable[x] /\ x \in aliased /\ grids[i].robot = x
                  THEN [grids[i] EXCEPT !.grid = map] ELSE grids[i]]
    BY <1>2 DEF PartialMapUpdate, storage
  <2>2. CASE UNCHANGED <<readonly_map, grids>>
    BY <2>2 DEF HasGrid
  <2>3. CASE /\ readonly_map' = [readonly_map EXCEPT ![x] = map]
             /\ grids' = [i \in DOMAIN grids |->
                  IF writable[x] /\ x \in aliased /\ grids[i].robot = x
                    THEN [grids[i] EXCEPT !.grid = map] ELSE grids[i]]
    <3>1. DOMAIN readonly_map = Robots /\ readonly_map' \in [Robots -> Grid \cup {NoGrid}]
      BY <1>0 DEF TypeOK
    <3>2. map # NoGrid
      <4>1. "data" \in DOMAIN map /\ "data" \notin DOMAIN NoGrid
        BY DEF NoGrid
      <4>. QED
        BY <4>1
    <3>. HIDE DEF map
    <3>3. readonly_map'[r] # NoGrid
      BY <2>3, <3>1, <3>2 DEF HasGrid
    <3>4. ASSUME NEW i \in DOMAIN grids
          PROVE  /\ grids'[i].robot = grids[i].robot
                 /\ grids'[i].grid = grids[i].grid \/ grids'[i].grid = map
      <4>. DEFINE Entry == [robot : Robots, grid : Grid \cup {NoGrid}]
      <4>1. grids \in Seq(Entry) /\ i \in 1 .. Len(grids)
        BY <1>0, <3>4, PipelineTypes DEF TypeOK
      <4>2. grids[i] \in Entry
        <5>. HIDE DEF Entry
        <5>. QED
          BY <4>1, ElementOfSeq
      <4>. QED
        BY <2>3, <4>2
    <3>5. DOMAIN grids' = DOMAIN grids
      BY <2>3
    <3>. QED
      BY <3>2, <3>3, <3>4, <3>5 DEF HasGrid
  <2>. HIDE DEF map
  <2>. QED
    BY <2>1, <2>2, <2>3
<1>3. CASE UNCHANGED readonly_map /\ grids' = Fed
  <2>1. \A j \in DOMAIN Fed : Fed[j].grid = readonly_map[Fed[j].robot]
    BY DEF Fed
  <2>. QED
    BY <1>3, <2>1 DEF HasGrid
<1>4. CASE UNCHANGED <<readonly_map, grids>>
  BY <1>4 DEF HasGrid
<1>5. CASE TopicSubscribing \/ MapMerging \/ PoseEstimation \/ UNCHANGED vars
  BY <1>3, <1>4, <1>5 DEF TopicSubscribing, MapMerging, PoseEstimation, vars, storage, pipeline
<1>6. ASSUME NEW x \in Robots, Environment(x) PROVE HasGrid(r)'
  BY <1>4, <1>6 DEF Environment, TopicAppears, PublishMap, PublishUpdate, storage, pipeline
<1>. QED
  BY <1>1, <1>2, <1>5, <1>6 DEF Next, Callback

\* An estimation gives poses to maps that are there only.
LEMMA EstimationFindsGrids ==
  ASSUME IInv, IInv', PoseEstimation, ~known_init_poses => Estimated
  PROVE  Estimated'
<1>0. TypeOK /\ TypeOK' /\ ~known_init_poses
  BY DEF IInv, PoseEstimation
<1>1. UNCHANGED readonly_map /\ grids' = Fed
  BY DEF PoseEstimation, storage
<1>2. CASE UNCHANGED transforms
  <2>1. ASSUME NEW r \in Robots, Posed(r)' PROVE HasGrid(r)'
    <3>1. Posed(r)
      BY <1>2, <2>1 DEF Posed
    <3>2. [Next]_vars
      BY DEF Next, Callback
    <3>. QED
      BY <1>0, <2>1, <3>1, <3>2, HasGridStays DEF Estimated
  <2>. QED
    BY <2>1 DEF Estimated
<1>3. CASE ~UNCHANGED transforms
  <2>1. PICK pose : /\ SetTransforms(pose)
                    /\ \A i \in DOMAIN Fed : pose[i] # "none" => i \in Arrived
    <3>1. CASE NoMatch
      <4>. DEFINE pose == [i \in DOMAIN Fed |->
                             IF i \in Arrived /\ \A j \in 1 .. i - 1 : j \notin Arrived
                               THEN "identity" ELSE "none"]
      <4>1. SetTransforms(pose)
        BY <3>1 DEF NoMatch
      <4>2. \A i \in DOMAIN Fed : pose[i] # "none" => i \in Arrived
        OBVIOUS
      <4>. HIDE DEF pose
      <4>. QED
        BY <4>1, <4>2
    <3>2. CASE Matched
      <4>0. PICK good \in SUBSET Arrived : \E reference \in good :
              SetTransforms([i \in DOMAIN Fed |->
                IF i \notin good THEN "none"
                                 ELSE IF i = reference THEN "identity" ELSE "offset"])
        BY <3>2 DEF Matched
      <4>1. PICK reference \in good :
              SetTransforms([i \in DOMAIN Fed |->
                IF i \notin good THEN "none"
                                 ELSE IF i = reference THEN "identity" ELSE "offset"])
        BY <4>0
      <4>. DEFINE pose == [i \in DOMAIN Fed |->
                             IF i \notin good THEN "none"
                               ELSE IF i = reference THEN "identity" ELSE "offset"]
      <4>2. SetTransforms(pose)
        BY <4>1
      <4>3. \A i \in DOMAIN Fed : pose[i] # "none" => i \in Arrived
        OBVIOUS
      <4>. HIDE DEF pose
      <4>. QED
        BY <4>2, <4>3
    <3>. QED
      BY <1>3, <3>1, <3>2 DEF PoseEstimation, AdjusterFails
  <2>2. transforms' = [i \in DOMAIN Fed |-> [robot |-> Fed[i].robot, pose |-> pose[i]]]
    BY <2>1 DEF SetTransforms
  <2>3. \A i \in DOMAIN Fed : Fed[i].grid = readonly_map[Fed[i].robot]
    BY DEF Fed
  <2>4. ASSUME NEW r \in Robots, Posed(r)' PROVE HasGrid(r)'
    <3>1. PICK i \in DOMAIN transforms' : transforms'[i].robot = r /\ transforms'[i].pose # "none"
      BY <2>4 DEF Posed
    <3>2. i \in DOMAIN Fed /\ Fed[i].robot = r /\ Fed[i].grid # NoGrid
      BY <2>1, <2>2, <3>1 DEF Arrived
    <3>. QED
      BY <1>1, <2>3, <3>2 DEF HasGrid
  <2>. QED
    BY <2>4 DEF Estimated
<1>. QED
  BY <1>2, <1>3

\* With known poses there are as many transforms as grids; estimated ones are
\* of maps that are there.
LEMMA MergingEndsItsWay ==
  ASSUME EndInvariant, MapMerging
  PROVE  EachModeFailsItsWay'
<1>0. TypeOK /\ SegmentInvariant /\ ended = ""
  BY DEF EndInvariant, IInv, MapMerging
<1>1. ComposeGrids(grids', transforms') /\ UNCHANGED known_init_poses
  BY DEF MapMerging, params
<1>2. CASE known_init_poses
  <2>. DEFINE n == Len(subscriptions)
  <2>1. n \in Nat /\ DOMAIN subscriptions = 1 .. n
    BY <1>0, ListOfRobots
  <2>2. Fed \in [1 .. n -> Range(Fed)] /\ InitialTransforms \in [1 .. n -> Range(InitialTransforms)]
    BY <2>1 DEF Fed, InitialTransforms, Range
  <2>3. Len(Fed) = n /\ Len(InitialTransforms) = n
    BY <2>1, <2>2, FunctionIsSeq
  <2>4. grids' = Fed /\ transforms' = InitialTransforms
    BY <1>2 DEF MapMerging
  <2>. QED
    BY <1>0, <1>1, <1>2, <2>3, <2>4 DEF ComposeGrids, EachModeFailsItsWay
<1>3. CASE ~known_init_poses
  <2>1. UNCHANGED <<grids, transforms>>
    BY <1>3 DEF MapMerging, pipeline
  <2>2. ASSUME Len(grids) = Len(transforms), NEW i \in DOMAIN transforms,
               transforms[i].pose = "identity"
        PROVE  grids[i].grid # NoGrid
    <3>1. i \in DOMAIN grids /\ grids[i].robot = transforms[i].robot
      BY <1>0, <2>2, PipelineTypes DEF SegmentInvariant, Final
    <3>2. HasGrid(transforms[i].robot)
      BY <1>0, <1>3, <2>2, TransformTypes DEF EndInvariant, Estimated, Posed
    <3>. QED
      BY <3>1, <3>2 DEF HasGrid
  <2>3. Len(grids) = Len(transforms) => ~ReferenceIsMissing(grids, transforms)
    BY <2>2 DEF ReferenceIsMissing
  <2>4. ended' # "null grid"
    BY <1>0, <1>1, <2>1, <2>3 DEF ComposeGrids
  <2>. QED
    BY <1>1, <1>3, <2>4 DEF EachModeFailsItsWay
<1>. QED
  BY <1>2, <1>3

LEMMA EndInductive == EndInvariant /\ IInv' /\ [Next]_vars => EndInvariant'
<1>. SUFFICES ASSUME EndInvariant, IInv', [Next]_vars PROVE EndInvariant'
  OBVIOUS
<1>0. IInv /\ TypeOK /\ UNCHANGED known_init_poses
  BY ParamsStay DEF EndInvariant, IInv
<1>1. EachModeFailsItsWay'
  <2>1. CASE MapMerging
    BY <2>1, MergingEndsItsWay
  <2>2. CASE UNCHANGED ended
    BY <1>0, <2>2 DEF EndInvariant, EachModeFailsItsWay
  <2>. QED
    BY <2>1, <2>2 DEF Next, Callback, Environment, TopicAppears, PublishMap, PublishUpdate,
         TopicSubscribing, FullMapUpdate, PartialMapUpdate, PoseEstimation, vars
<1>2. ASSUME ~known_init_poses PROVE Estimated'
  <2>0. Estimated
    BY <1>2 DEF EndInvariant
  <2>1. CASE PoseEstimation
    BY <1>0, <2>0, <2>1, EstimationFindsGrids
  <2>2. CASE UNCHANGED transforms
    <3>1. ASSUME NEW r \in Robots, Posed(r)' PROVE HasGrid(r)'
      <4>1. Posed(r)
        BY <2>2, <3>1 DEF Posed
      <4>. QED
        BY <1>0, <2>0, <3>1, <4>1, HasGridStays DEF Estimated
    <3>. QED
      BY <3>1 DEF Estimated
  <2>3. MapMerging => UNCHANGED transforms
    BY <1>2 DEF MapMerging, pipeline
  <2>. QED
    BY <2>1, <2>2, <2>3 DEF Next, Callback, Environment, TopicAppears, PublishMap, PublishUpdate,
         TopicSubscribing, FullMapUpdate, PartialMapUpdate, vars, pipeline
<1>. QED
  BY <1>0, <1>1, <1>2 DEF EndInvariant

\* The process ends only as the mode it runs in ends it: composeGrids
\* dereferences the null grid of a robot without a map with known poses alone,
\* and its check that transforms and images are as many fails only when poses
\* are estimated. The estimation gives no pose to a robot whose grid is null,
\* and a grid that is there is never replaced by null.
THEOREM EndsItsWay == Spec => []EachModeFailsItsWay
<1>1. Init => EndInvariant
  <2>1. DOMAIN <<>> = {}
    OBVIOUS
  <2>2. Init => DOMAIN transforms = {} /\ ended = ""
    BY <2>1 DEF Init
  <2>. QED
    BY <2>2, InitIInv DEF EndInvariant, Estimated, Posed, EachModeFailsItsWay
<1>2. EndInvariant => IInv /\ EachModeFailsItsWay
  BY DEF EndInvariant
<1>. QED
  BY <1>1, <1>2, NextIInv, EndInductive, PTL DEF Spec

-----------------------------------------------------------------------------
(* Clipped updates                                                         *)

\* Updates that do not hang over the right edge are copied in place, wherever
\* else they leave the map.
THEOREM FittingUpdatesFit ==
  ASSUME \A u \in Updates : u.x + u.width <= MapWidth
  PROVE  Spec => PartFits
<1>1. TypeOK /\ TypeOK' /\ [Next]_vars => [\A r \in Robots :
        (PartialMapUpdate(r) /\ readonly_map'[r] # readonly_map[r]) =>
          LET u == Head(updates[r]).patch
          IN  \A p \in Covered(u) : readonly_map'[r].data[p]
                                     = u.data[(p[1] - u.y) * u.width + p[2] - u.x + 1]]_vars
  <2>. SUFFICES ASSUME TypeOK, NEW r \in Robots, PartialMapUpdate(r),
                       readonly_map'[r] # readonly_map[r],
                       NEW p \in Covered(Head(updates[r]).patch)
                PROVE  LET u == Head(updates[r]).patch
                       IN  readonly_map'[r].data[p]
                             = u.data[(p[1] - u.y) * u.width + p[2] - u.x + 1]
    OBVIOUS
  <2>. DEFINE u == Head(updates[r]).patch
              Message == [stamp : Nat \ {0}, patch : Updates]
  <2>1. u \in Updates
    <3>1. updates[r] \in Seq(Message) /\ updates[r] # <<>>
      BY DEF TypeOK, PartialMapUpdate
    <3>2. Head(updates[r]) \in Message
      <4>. HIDE DEF Message
      <4>. QED
        BY <3>1, HeadTailProperties
    <3>. QED
      BY <3>2
  <2>2. CopiedPerRow(u) = u.width
    BY <2>1 DEF CopiedPerRow
  <2>3. readonly_map' = [readonly_map EXCEPT ![r] =
          [stamp |-> Head(updates[r]).stamp, data |-> Patched(readonly_map[r].data, u)]]
    BY DEF PartialMapUpdate, storage
  <2>4. readonly_map'[r].data = Patched(readonly_map[r].data, u)
    BY <2>3 DEF TypeOK
  <2>5. p \in Cells
    BY DEF Covered
  <2>. HIDE DEF u
  <2>6. Patched(readonly_map[r].data, u)[p]
          = u.data[(p[1] - u.y) * CopiedPerRow(u) + p[2] - u.x + 1]
    BY <2>5 DEF Patched, u
  <2>. QED
    BY <2>2, <2>4, <2>6 DEF u
<1>. QED
  BY <1>1, TypeCorrect, PTL DEF Spec, PartFits
=============================================================================
