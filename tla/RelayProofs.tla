---------------------------- MODULE RelayProofs ----------------------------
(***************************************************************************)
(* What holds of relay_node.py for every set of executor threads, every    *)
(* interval and every clock: types, what the delta check suppresses, and   *)
(* that the hash and the throttle fail by one race each and by no other.   *)
(***************************************************************************)
EXTENDS Relay, TLAPS

\* A queue keeps its type and its depth when a message arrives and when one
\* is taken.
LEMMA EnqueueType ==
  ASSUME TypeOK, NEW topic \in Topics, NEW m \in Map
  PROVE  /\ Enqueue(topic, m) \in [Topics -> Seq(Map)]
         /\ \A other \in Topics : Len(Enqueue(topic, m)[other]) <= QueueDepth
<1>. DEFINE old == inbox[topic]
            grown == Append(old, m)
<1>1. old \in Seq(Map) /\ Len(old) <= QueueDepth /\ QueueDepth \in Nat
  BY RelayAssumption DEF TypeOK
<1>2. grown \in Seq(Map) /\ Len(grown) = Len(old) + 1 /\ grown # <<>>
  BY <1>1
<1>3. Tail(grown) \in Seq(Map) /\ Len(Tail(grown)) = Len(old)
  BY <1>2, <1>1
<1>4. Len(old) \in Nat
  BY <1>1
<1>. HIDE DEF grown, old
<1>. QED
  BY <1>1, <1>2, <1>3, <1>4 DEF Enqueue, TypeOK, grown, old

LEMMA DequeueType ==
  ASSUME TypeOK, NEW topic \in Topics, inbox[topic] # <<>>
  PROVE  /\ Head(inbox[topic]) \in Map
         /\ [inbox EXCEPT ![topic] = Tail(@)] \in [Topics -> Seq(Map)]
         /\ \A other \in Topics :
              Len([inbox EXCEPT ![topic] = Tail(@)][other]) <= QueueDepth
<1>1. inbox[topic] \in Seq(Map) /\ Len(inbox[topic]) <= QueueDepth /\ QueueDepth \in Nat
  BY RelayAssumption DEF TypeOK
<1>2. /\ Head(inbox[topic]) \in Map /\ Tail(inbox[topic]) \in Seq(Map)
      /\ Len(Tail(inbox[topic])) <= QueueDepth
  BY <1>1
<1>. QED
  BY <1>1, <1>2 DEF TypeOK

\* How far n time syncs can move the clock.
Drift(n) == MaxShift * n

LEMMA ThresholdsAreIntegers ==
  /\ LongestInterval \in Nat /\ ShortestInterval \in Nat /\ Horizon \in Nat
  /\ Drift(MaxSyncs) \in Nat
  /\ Horizon = LongestInterval + MaxStall + 2 * Drift(MaxSyncs)
  /\ ShortestInterval <= LongestInterval
  /\ \A latency \in Latencies : /\ IntervalFor(latency) \in Nat
                                /\ IntervalFor(latency) >= ShortestInterval
<1>1. /\ DefaultInterval \in Nat /\ BusyInterval \in Nat /\ SlowInterval \in Nat
      /\ WorstInterval \in Nat /\ MaxStall \in Nat /\ MaxShift \in Nat /\ MaxSyncs \in Nat
  BY RelayAssumption
<1>2. MaxShift * MaxSyncs \in Nat /\ 2 * MaxShift * MaxSyncs = 2 * (MaxShift * MaxSyncs)
  BY <1>1
<1>3. LongestInterval \in Nat /\ ShortestInterval \in Nat
      /\ ShortestInterval <= LongestInterval
  BY <1>1 DEF LongestInterval, ShortestInterval, Max2, Min2
<1>4. \A latency \in Latencies : /\ IntervalFor(latency) \in Nat
                                 /\ IntervalFor(latency) >= ShortestInterval
  BY <1>1 DEF Latencies, IntervalFor, ShortestInterval, Max2, Min2
<1>. QED
  BY <1>1, <1>2, <1>3, <1>4 DEF Horizon, Drift

-----------------------------------------------------------------------------
(* Types, and what the delta check suppresses, for any set of threads      *)

IInv == TypeOK /\ SuppressedWasSent

LEMMA InitIInv == Init => IInv
<1>. SUFFICES ASSUME Init PROVE IInv
  OBVIOUS
<1>1. DefaultInterval = IntervalFor("good")
  BY DEF IntervalFor
<1>2. <<>> \in Seq(Map) /\ Len(<<>>) <= QueueDepth
  BY RelayAssumption
<1>0. PICK load \in Load : /\ mode = load.mode /\ enable_delta = load.enable_delta
                           /\ workers = load.workers /\ syncs = load.syncs
  BY RelayAssumption DEF Init
<1>4. /\ mode \in {"compressed", "raw"} /\ enable_delta \in BOOLEAN
      /\ workers \subseteq Threads /\ syncs \in 0 .. MaxSyncs
  BY <1>0 DEF Load
<1>5. /\ slam_topic \in Topics
      /\ current = NoMap /\ relayed = NoMap /\ last_map_hash = None
      /\ inbox = [topic \in Topics |-> <<>>]
      /\ pc = [t \in Threads |-> "idle"]
      /\ msg = [t \in Threads |-> NoMap]
      /\ age = [t \in Threads |-> 0]
      /\ since_sent = Horizon /\ map_interval = DefaultInterval
      /\ sent = {} /\ overtaken = {} /\ reverted = FALSE
  BY DEF Init
<1>3. TypeOK
  <2>1. inbox \in [Topics -> Seq(Map)] /\ \A topic \in Topics : Len(inbox[topic]) <= QueueDepth
    BY <1>2, <1>5
  <2>2. map_interval \in {IntervalFor(latency) : latency \in Latencies}
    BY <1>1, <1>5 DEF Latencies
  <2>3. /\ pc \in [Threads -> Labels] /\ \A t \in Threads : pc[t] = "idle"
        /\ msg \in [Threads -> Map \cup {NoMap}]
        /\ age \in [Threads -> Int] /\ since_sent \in Int
    BY <1>5, ThresholdsAreIntegers DEF Labels
  <2>. QED
    BY <1>4, <1>5, <2>1, <2>2, <2>3 DEF TypeOK
<1>. QED
  BY <1>3 DEF Init, IInv, SuppressedWasSent

\* A step of a callback: types.
LEMMA HandleMapType ==
  ASSUME TypeOK, NEW t \in Threads, HandleMap(t)
  PROVE  TypeOK'
<1>. USE DEF TypeOK, params, Goto, Labels, history
<1>1. ASSUME NEW topic \in Topics, Take(t, topic) PROVE TypeOK'
  <2>1. inbox' \in [Topics -> Seq(Map)]
        /\ \A other \in Topics : Len(inbox'[other]) <= QueueDepth
    BY <1>1, DequeueType DEF Take
  <2>2. msg' \in [Threads -> Map \cup {NoMap}]
        /\ \A u \in Threads : pc'[u] # "idle" => msg'[u] \in Map
    BY <1>1, DequeueType DEF Take
  <2>. QED
    BY <1>1, <2>1, <2>2 DEF Take
<1>. DEFINE Locals == /\ pc' \in [Threads -> Labels]
                      /\ msg' \in [Threads -> Map \cup {NoMap}]
                      /\ \A u \in Threads : pc'[u] # "idle" => msg'[u] \in Map
                      /\ age' \in [Threads -> Int]
<1>r. ASSUME Return(t) PROVE Locals
  BY <1>r DEF Return
<1>2. CASE Throttle(t)
  <2>1. CASE Open(t)
    BY <1>2, <2>1 DEF Throttle
  <2>2. CASE ~Open(t)
    <3>1. Locals
      BY <1>2, <2>2, <1>r DEF Throttle
    <3>. QED
      BY <1>2, <3>1 DEF Throttle
  <2>. QED
    BY <2>1, <2>2
<1>3. CASE Mark(t)
  BY <1>3 DEF Mark, Overtakes
<1>4. CASE Compare(t)
  <2>1. CASE msg[t].data # last_map_hash
    BY <1>4, <2>1 DEF Compare
  <2>2. CASE msg[t].data = last_map_hash
    <3>1. Locals
      BY <1>4, <2>2, <1>r DEF Compare
    <3>. QED
      BY <1>4, <3>1 DEF Compare
  <2>. QED
    BY <2>1, <2>2
<1>5. CASE RecordHash(t)
  BY <1>5 DEF RecordHash, Map, Overtakes
<1>6. CASE Send(t)
  <2>1. msg[t] \in Map /\ msg[t].data \in Contents
    BY <1>6 DEF Send, Map
  <2>2. inbox' \in [Topics -> Seq(Map)]
        /\ \A other \in Topics : Len(inbox'[other]) <= QueueDepth
    BY <1>6, <2>1, EnqueueType DEF Send, Topics
  <2>. QED
    BY <1>6, <2>1, <2>2 DEF Send, Return
<1>. QED
  BY <1>1, <1>2, <1>3, <1>4, <1>5, <1>6 DEF HandleMap

\* A step of SLAM, the clock or the latency monitor: types.
LEMMA EnvironmentType ==
  ASSUME TypeOK,
         \/ \E m \in Map : SlamPublish(m)
         \/ Tick
         \/ \E shift \in -MaxShift .. MaxShift : SyncClock(shift)
         \/ \E latency \in Latencies : AdaptInterval(latency)
         \/ UNCHANGED vars
  PROVE  TypeOK'
<1>. USE DEF TypeOK, params, threads, history
<1>1. ASSUME NEW m \in Map, SlamPublish(m) PROVE TypeOK'
  BY <1>1, EnqueueType DEF SlamPublish
<1>2. CASE Tick
  BY <1>2, ThresholdsAreIntegers DEF Tick, Min2
<1>3. ASSUME NEW shift \in -MaxShift .. MaxShift, SyncClock(shift) PROVE TypeOK'
  <2>1. shift \in Int /\ MaxSyncs \in Nat
    BY RelayAssumption
  <2>. QED
    BY <1>3, <2>1, ThresholdsAreIntegers DEF SyncClock, Min2
<1>4. ASSUME NEW latency \in Latencies, AdaptInterval(latency) PROVE TypeOK'
  BY <1>4 DEF AdaptInterval
<1>5. CASE UNCHANGED vars
  BY <1>5 DEF vars
<1>. QED
  BY <1>1, <1>2, <1>3, <1>4, <1>5

LEMMA NextIInv == IInv /\ [Next]_vars => IInv'
<1>. SUFFICES ASSUME IInv, [Next]_vars PROVE IInv'
  OBVIOUS
<1>1. TypeOK'
  <2>1. workers \subseteq Threads
    BY DEF IInv, TypeOK
  <2>. QED
    BY <2>1, HandleMapType, EnvironmentType DEF IInv, Next
<1>2. SuppressedWasSent'
  <2>. USE DEF IInv, TypeOK, SuppressedWasSent, params, threads, history, Goto, Return
  <2>1. CASE UNCHANGED <<last_map_hash, sent, pc, msg>>
    BY <2>1
  <2>2. ASSUME NEW t \in Threads, NEW topic \in Topics, Take(t, topic)
        PROVE  SuppressedWasSent'
    BY <2>2 DEF Take
  <2>3. ASSUME NEW t \in Threads, Throttle(t) PROVE SuppressedWasSent'
    BY <2>3 DEF Throttle
  <2>4. ASSUME NEW t \in Threads, Mark(t) PROVE SuppressedWasSent'
    BY <2>4 DEF Mark, Overtakes
  <2>5. ASSUME NEW t \in Threads, Compare(t) PROVE SuppressedWasSent'
    BY <2>5 DEF Compare
  <2>6. ASSUME NEW t \in Threads, RecordHash(t) PROVE SuppressedWasSent'
    BY <2>6 DEF RecordHash, Overtakes
  <2>7. ASSUME NEW t \in Threads, Send(t) PROVE SuppressedWasSent'
    BY <2>7 DEF Send
  <2>. QED
    BY <2>1, <2>2, <2>3, <2>4, <2>5, <2>6, <2>7
       DEF Next, HandleMap, SlamPublish, Tick, SyncClock, AdaptInterval, vars
<1>. QED
  BY <1>1, <1>2 DEF IInv

\* Type correctness, queue depths included, for any set of threads.
THEOREM TypeCorrect == Spec => []TypeOK
<1>1. IInv => TypeOK
  BY DEF IInv
<1>. QED
  BY <1>1, InitIInv, NextIInv, PTL DEF Spec

\* However many callbacks overlap, contents the delta check suppresses were
\* sent, or are about to be.
THEOREM SuppressionSound == Spec => []SuppressedWasSent
<1>1. IInv => SuppressedWasSent
  BY DEF IInv
<1>. QED
  BY <1>1, InitIInv, NextIInv, PTL DEF Spec

-----------------------------------------------------------------------------
(* The hash                                                                *)

\* A thread about to send, if no other has recorded a hash since, is the one
\* whose hash is recorded; when there is none, the hash is that of the last map
\* sent, unless that one was sent late.
HInv == enable_delta =>
  /\ \A t \in Threads \ overtaken : pc[t] = "send" => last_map_hash = msg[t].data
  /\ reverted \/ last_map_hash = relayed.data \/ \E t \in Threads \ overtaken : pc[t] = "send"

LEMMA InitHInv == Init => HInv
BY DEF Init, HInv, NoMap

LEMMA NextHInv ==
  ASSUME TypeOK, HInv, [Next]_vars
  PROVE  HInv'
<1>. USE DEF TypeOK, HInv, params, threads, history, Goto, Return
<1>1. CASE UNCHANGED <<enable_delta, last_map_hash, relayed, pc, msg, overtaken, reverted>>
  BY <1>1
<1>2. ASSUME NEW t \in Threads, NEW topic \in Topics, Take(t, topic) PROVE HInv'
  BY <1>2 DEF Take
<1>3. ASSUME NEW t \in Threads, Throttle(t) PROVE HInv'
  BY <1>3 DEF Throttle
<1>4. ASSUME NEW t \in Threads, Mark(t) PROVE HInv'
  BY <1>4 DEF Mark, Overtakes
<1>5. ASSUME NEW t \in Threads, Compare(t) PROVE HInv'
  BY <1>5 DEF Compare
<1>6. ASSUME NEW t \in Threads, RecordHash(t) PROVE HInv'
  BY <1>6 DEF RecordHash, Overtakes
<1>7. ASSUME NEW t \in Threads, Send(t) PROVE HInv'
  BY <1>7 DEF Send
<1>. QED
  BY <1>1, <1>2, <1>3, <1>4, <1>5, <1>6, <1>7
     DEF Next, HandleMap, SlamPublish, Tick, SyncClock, AdaptInterval, vars

\* However many callbacks overlap, the hash the delta check uses is that of the
\* last map sent, unless that map's callback was overtaken between its hash and
\* its send.
THEOREM HashCorrect == Spec => []HashIsOfLastSent
<1>1. TypeOK /\ HInv /\ [Next]_vars => HInv'
  BY NextHInv
<1>2. HInv => HashIsOfLastSent
  BY DEF HInv, HashIsOfLastSent
<1>. QED
  BY <1>1, <1>2, InitHInv, TypeCorrect, PTL DEF Spec

-----------------------------------------------------------------------------
(* The throttle                                                            *)

\* What the throttle established still holds when last_map_sent is written, if
\* no other thread has written it: no callback dwells in between, and both times
\* move with the clock. The clock has been set MaxSyncs - syncs times at most.
Shifted == Drift(MaxSyncs - syncs)

TInv ==
  /\ \A t \in Threads : pc[t] = "idle" => age[t] = 0
  /\ \A t \in Threads : age[t] <= MaxStall + Shifted
  /\ \A t \in Threads \ overtaken :
       pc[t] = "mark" => since_sent - age[t] >= ShortestInterval

LEMMA ShiftsBounded ==
  ASSUME NEW n \in 0 .. MaxSyncs
  PROVE  /\ Drift(n) \in Nat
         /\ Drift(n) <= Drift(MaxSyncs)
         /\ Drift(n + 1) = Drift(n) + MaxShift
<1>1. MaxShift \in Nat /\ MaxSyncs \in Nat /\ n \in Nat /\ n <= MaxSyncs
  BY RelayAssumption
<1>2. ASSUME NEW a \in Nat, NEW b \in Nat, NEW w \in Nat, a <= b
      PROVE  w * a \in Nat /\ w * a <= w * b /\ w * (a + 1) = w * a + w
  BY <1>2
<1>. QED
  BY <1>1, <1>2 DEF Drift

\* What the clock was shifted by so far.
LEMMA ShiftedBounded ==
  ASSUME NEW left \in 0 .. MaxSyncs
  PROVE  /\ Drift(MaxSyncs - left) \in Nat
         /\ Drift(MaxSyncs - left) <= Drift(MaxSyncs)
         /\ Drift(MaxSyncs - (left - 1)) = Drift(MaxSyncs - left) + MaxShift
<1>1. MaxSyncs \in Nat /\ MaxSyncs - left \in 0 .. MaxSyncs
  BY RelayAssumption
<1>2. MaxSyncs - (left - 1) = (MaxSyncs - left) + 1
  BY <1>1
<1>. QED
  BY <1>1, <1>2, ShiftsBounded

LEMMA InitTInv == Init => TInv
<1>. SUFFICES ASSUME Init PROVE TInv
  OBVIOUS
<1>1. syncs \in 0 .. MaxSyncs /\ MaxStall \in Nat
  BY InitIInv, RelayAssumption DEF IInv, TypeOK
<1>2. Shifted \in Nat
  BY <1>1, ShiftedBounded DEF Shifted
<1>. QED
  BY <1>1, <1>2 DEF Init, TInv

\* Both times move together until one of them stops at the horizon, and there
\* the throttle is open for every thread that is not older than its bound.
LEMMA GapKept ==
  ASSUME NEW since \in Int, NEW now \in Int, NEW by \in Int,
         since - now >= ShortestInterval,
         now + by <= MaxStall + Drift(MaxSyncs)
  PROVE  Min2(since + by, Horizon) - (now + by) >= ShortestInterval
<1>1. /\ LongestInterval \in Nat /\ ShortestInterval \in Nat /\ MaxStall \in Nat
      /\ ShortestInterval <= LongestInterval /\ Drift(MaxSyncs) \in Nat
      /\ Horizon = LongestInterval + MaxStall + 2 * Drift(MaxSyncs)
  BY ThresholdsAreIntegers, RelayAssumption
<1>. QED
  BY <1>1 DEF Min2

LEMMA NextTInv ==
  ASSUME TypeOK, TInv, [Next]_vars
  PROVE  TInv'
<1>. USE DEF TypeOK, params, threads, Goto
<1>. syncs \in 0 .. MaxSyncs /\ MaxStall \in Nat /\ MaxShift \in Nat
  BY RelayAssumption
<1>1. CASE UNCHANGED <<pc, age, since_sent, syncs, overtaken>>
  BY <1>1 DEF TInv, Shifted
<1>2. CASE Tick
  <2>1. \A t \in Threads : age'[t] <= MaxStall
    BY <1>2 DEF Tick
  <2>2. \A t \in Threads : age'[t] <= MaxStall + Shifted'
    <3>1. Shifted' = Shifted /\ Shifted \in Nat
      BY <1>2, ShiftedBounded DEF Tick, Shifted
    <3>2. \A t \in Threads : age'[t] \in Int
      BY <1>2 DEF Tick
    <3>. QED
      BY <2>1, <3>1, <3>2
  <2>3. ASSUME NEW t \in Threads \ overtaken', pc'[t] = "mark"
        PROVE  since_sent' - age'[t] >= ShortestInterval
    <3>1. /\ pc[t] = "mark" /\ age'[t] = age[t] + 1 /\ t \notin overtaken
          /\ since_sent' = Min2(since_sent + 1, Horizon)
      BY <1>2, <2>3 DEF Tick, history
    <3>2. age[t] + 1 <= MaxStall + Drift(MaxSyncs) /\ Drift(MaxSyncs) \in Nat
      BY <2>1, <3>1, ThresholdsAreIntegers
    <3>3. since_sent - age[t] >= ShortestInterval
      BY <3>1 DEF TInv
    <3>. QED
      BY <3>1, <3>2, <3>3, GapKept
  <2>4. \A t \in Threads : pc'[t] = "idle" => age'[t] = 0
    BY <1>2 DEF Tick
  <2>. QED
    BY <2>2, <2>3, <2>4 DEF TInv
<1>3. ASSUME NEW shift \in -MaxShift .. MaxShift, SyncClock(shift) PROVE TInv'
  <2>1. shift \in Int /\ shift <= MaxShift /\ syncs' = syncs - 1
        /\ syncs' \in 0 .. MaxSyncs
    BY <1>3, RelayAssumption DEF SyncClock
  <2>2. \A t \in Threads : age'[t] <= MaxStall + Shifted'
    <3>1. Shifted' = Shifted + MaxShift /\ Shifted \in Nat
      BY <1>3, <2>1, ShiftedBounded DEF SyncClock, Shifted
    <3>2. \A t \in Threads : age'[t] = age[t] + shift \/ age'[t] = 0
      BY <1>3 DEF SyncClock
    <3>3. \A t \in Threads : age[t] \in Int /\ age[t] <= MaxStall + Shifted
      BY DEF TInv
    <3>. HIDE DEF Shifted
    <3>. QED
      BY <2>1, <3>1, <3>2, <3>3
  <2>3. \A t \in Threads : age'[t] <= MaxStall + Drift(MaxSyncs)
    <3>1. Shifted' <= Drift(MaxSyncs) /\ Shifted' \in Nat
          /\ Drift(MaxSyncs) \in Nat
      BY <2>1, ShiftedBounded, ThresholdsAreIntegers DEF Shifted
    <3>2. \A t \in Threads : age'[t] \in Int
      BY <1>3, <2>1 DEF SyncClock
    <3>. QED
      BY <2>2, <3>1, <3>2
  <2>4. ASSUME NEW t \in Threads \ overtaken', pc'[t] = "mark"
        PROVE  since_sent' - age'[t] >= ShortestInterval
    <3>1. /\ pc[t] = "mark" /\ age'[t] = age[t] + shift /\ t \notin overtaken
          /\ since_sent' = Min2(since_sent + shift, Horizon)
      BY <1>3, <2>4 DEF SyncClock, history
    <3>2. since_sent - age[t] >= ShortestInterval
      BY <3>1 DEF TInv
    <3>. QED
      BY <2>1, <2>3, <3>1, <3>2, GapKept
  <2>5. \A t \in Threads : pc'[t] = "idle" => age'[t] = 0
    BY <1>3 DEF SyncClock
  <2>. QED
    BY <2>2, <2>4, <2>5 DEF TInv
<1>4. ASSUME NEW t \in Threads, HandleMap(t) PROVE TInv'
  <2>1. 0 <= MaxStall + Shifted /\ Shifted \in Nat
    BY ShiftedBounded DEF Shifted
  <2>2. \A u \in Threads : age'[u] = age[u] \/ (u = t /\ age'[u] = 0)
    BY <1>4 DEF HandleMap, Take, Throttle, Mark, Compare, RecordHash, Send, Return
  <2>3. syncs' = syncs
    BY <1>4 DEF HandleMap, Take, Throttle, Mark, Compare, RecordHash, Send
  <2>4. \A u \in Threads : age'[u] <= MaxStall + Shifted'
    <3>1. Shifted' = Shifted
      BY <2>3 DEF Shifted
    <3>. QED
      BY <2>1, <2>2, <3>1 DEF TInv
  <2>5. \A u \in Threads : pc'[u] = "idle" => age'[u] = 0
    BY <1>4 DEF HandleMap, Take, Throttle, Mark, Compare, RecordHash, Send, Return, TInv
  <2>6. ASSUME NEW u \in Threads \ overtaken', pc'[u] = "mark"
        PROVE  since_sent' - age'[u] >= ShortestInterval
    <3>1. CASE pc[u] = "mark"
      <4>1. u # t /\ ~Mark(t)
        BY <1>4, <2>6, <3>1 DEF HandleMap, Take, Throttle, Mark, Compare, RecordHash,
           Send, Return, Overtakes
      <4>2. since_sent' = since_sent /\ age'[u] = age[u]
        BY <1>4, <4>1 DEF HandleMap, Take, Throttle, Compare, RecordHash, Send, Return
      <4>3. u \notin overtaken
        BY <1>4, <2>6, <4>1 DEF HandleMap, Take, Throttle, Compare, RecordHash, Send,
           Overtakes, history
      <4>. QED
        BY <3>1, <4>2, <4>3 DEF TInv
    <3>2. CASE pc[u] # "mark"
      <4>1. u = t /\ Throttle(t) /\ Open(t)
        BY <1>4, <2>6, <3>2 DEF HandleMap, Take, Throttle, Mark, Compare, RecordHash,
           Send, Return
      <4>2. map_interval >= ShortestInterval /\ map_interval \in Int
        BY ThresholdsAreIntegers
      <4>. QED
        BY <4>1, <4>2, ThresholdsAreIntegers DEF Throttle, Open
    <3>. QED
      BY <3>1, <3>2
  <2>. QED
    BY <2>4, <2>5, <2>6 DEF TInv
<1>. QED
  BY <1>1, <1>2, <1>3, <1>4 DEF Next, SlamPublish, AdaptInterval, vars, history

\* However many callbacks overlap, two evaluations are an interval of the wall
\* clock apart, wherever the clock is set in between, unless another callback's
\* came between the test and the update of the second.
THEOREM ThrottleCorrect == Spec => OnePerInterval
<1>1. TypeOK /\ TInv /\ [Next]_vars => TInv'
  BY NextTInv
<1>2. TInv /\ [Next]_vars
        => [\A t \in Threads \ overtaken :
              Mark(t) => since_sent - since_sent' >= ShortestInterval]_vars
  BY DEF TInv, Mark
<1>. QED
  BY <1>1, <1>2, InitTInv, TypeCorrect, PTL DEF Spec, OnePerInterval
=============================================================================
