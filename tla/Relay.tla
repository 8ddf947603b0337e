------------------------------- MODULE Relay -------------------------------
(***************************************************************************)
(* relay_node.py on a robot: SLAM maps come in on two topics, and at most  *)
(* one of them per map_interval is compared with the last one sent and, if *)
(* it changed, put on the WiFi.  The callbacks are re-entrant under a      *)
(* MultiThreadedExecutor, so as many as it has threads may be in it at     *)
(* once; each action is one step of a callback that reads or writes a      *)
(* field of the node, between two points where Python may switch threads.  *)
(*                                                                         *)
(* time.time() is a wall clock that sync_time.sh may set.  Times are kept  *)
(* as ages: since_sent is the clock minus last_map_sent, and age[t] the    *)
(* clock minus thread t's local now, so now - last_map_sent is             *)
(* since_sent - age[t].                                                    *)
(***************************************************************************)
EXTENDS Integers, Sequences

CONSTANTS
  Threads,
  Loads,           \* how the node is launched and what it meets, see Load
  Contents,        \* what the data array of a map may hold; None is none of them
  None,
  Origins,         \* where a map's origin may be
  DefaultInterval, \* map_interval_sec
  BusyInterval, SlowInterval, WorstInterval,  \* the 10, 15 and 30 s of the monitor
  QueueDepth,      \* depth of map_qos
  MaxStall,        \* longest time a thread spends in _handle_map
  MaxShift,        \* largest change of the clock by one time sync
  MaxSyncs         \* the most time syncs of any load

Max2(a, b) == IF a >= b THEN a ELSE b
Min2(a, b) == IF a <= b THEN a ELSE b

Topics == {"ns", "global"}
Map == [data : Contents, origin : Origins]
NoMap == [data |-> None, origin |-> None]

\* enable_compression, enable_delta_detection, the threads of the executor, and
\* how often the clock will be set.
Load ==
  [mode : {"compressed", "raw"}, enable_delta : BOOLEAN,
   workers : SUBSET Threads, syncs : 0 .. MaxSyncs]

\* The map_interval that _latency_monitor_loop sets for each latency it meets.
Latencies == {"lost", "over300", "over150", "over50", "good"}
IntervalFor(latency) ==
  CASE latency = "lost"    -> Max2(WorstInterval, DefaultInterval)
    [] latency = "over300" -> WorstInterval
    [] latency = "over150" -> SlowInterval
    [] latency = "over50"  -> Max2(DefaultInterval, BusyInterval)
    [] latency = "good"    -> DefaultInterval

LongestInterval == Max2(WorstInterval, Max2(SlowInterval, Max2(BusyInterval, DefaultInterval)))
ShortestInterval == Min2(WorstInterval, Min2(SlowInterval, DefaultInterval))

\* An age above Horizon opens the throttle whatever happens next: ages are
\* counted no further.
Horizon == LongestInterval + MaxStall + 2 * MaxShift * MaxSyncs

ASSUME RelayAssumption ==
  /\ None \notin Contents
  /\ \A n \in {DefaultInterval, BusyInterval, SlowInterval, WorstInterval,
               QueueDepth, MaxStall} : n \in Nat \ {0}
  /\ MaxShift \in Nat /\ MaxSyncs \in Nat
  /\ Loads \subseteq Load

VARIABLES
  mode, enable_delta, workers, slam_topic,   \* fixed at start
  current,        \* the map SLAM published last
  inbox,          \* the queue of each subscription, QueueDepth deep, keep-last
  pc, msg, age,   \* of each thread: where it is, its map, the age of its now
  since_sent,
  map_interval,
  last_map_hash,  \* as the contents hashed: md5 is taken to be injective
  relayed,        \* the last map put on the WiFi
  syncs,          \* the time syncs to come
  \* History, which no action reads:
  sent,           \* the contents put on the WiFi so far
  overtaken,      \* the threads whose test, or whose hash, is no longer the last
  reverted        \* whether the last map put on the WiFi was one of an overtaken thread

params == <<mode, enable_delta, workers, slam_topic>>
threads == <<pc, msg, age>>
history == <<sent, overtaken, reverted>>
vars == <<params, current, inbox, threads, since_sent, map_interval,
          last_map_hash, relayed, syncs, history>>

\* last_map_sent starts at 0.0, which is decades ago.
Init ==
  /\ \E load \in Loads :
       /\ mode = load.mode /\ enable_delta = load.enable_delta
       /\ workers = load.workers /\ syncs = load.syncs
  /\ slam_topic \in Topics
  /\ current = NoMap
  /\ inbox = [topic \in Topics |-> <<>>]
  /\ pc = [t \in Threads |-> "idle"]
  /\ msg = [t \in Threads |-> NoMap]
  /\ age = [t \in Threads |-> 0]
  /\ since_sent = Horizon
  /\ map_interval = DefaultInterval
  /\ last_map_hash = None
  /\ relayed = NoMap
  /\ sent = {}
  /\ overtaken = {}
  /\ reverted = FALSE

-----------------------------------------------------------------------------
(* The environment: SLAM, the clock, the latency monitor thread            *)

\* Mutant: the queue keeps all.
EnqueueUnbounded(topic, m) == [inbox EXCEPT ![topic] = Append(@, m)]

Enqueue(topic, m) ==
  LET queue == Append(inbox[topic], m)
  IN  [inbox EXCEPT ![topic] = IF Len(queue) > QueueDepth THEN Tail(queue) ELSE queue]

SlamPublish(m) ==
  /\ current' = m
  /\ inbox' = Enqueue(slam_topic, m)
  /\ UNCHANGED <<params, threads, since_sent, map_interval, last_map_hash,
                 relayed, syncs, history>>

Tick ==
  /\ \A t \in Threads : pc[t] # "idle" => age[t] < MaxStall
  /\ since_sent' = Min2(since_sent + 1, Horizon)
  /\ age' = [t \in Threads |-> IF pc[t] = "idle" THEN 0 ELSE age[t] + 1]
  /\ UNCHANGED <<params, current, inbox, pc, msg, map_interval, last_map_hash,
                 relayed, syncs, history>>

\* sync_time.sh sets the clock forward or back while the node runs.
SyncClock(shift) ==
  /\ syncs > 0
  /\ syncs' = syncs - 1
  /\ since_sent' = Min2(since_sent + shift, Horizon)
  /\ age' = [t \in Threads |-> IF pc[t] = "idle" THEN 0 ELSE age[t] + shift]
  /\ UNCHANGED <<params, current, inbox, pc, msg, map_interval, last_map_hash,
                 relayed, history>>

AdaptInterval(latency) ==
  /\ map_interval' = IntervalFor(latency)
  /\ UNCHANGED <<params, current, inbox, threads, since_sent, last_map_hash,
                 relayed, syncs, history>>

-----------------------------------------------------------------------------
(* _handle_map in thread t                                                 *)

Goto(t, label) == pc' = [pc EXCEPT ![t] = label]

\* The callback returns: its locals are gone.
Return(t) ==
  /\ Goto(t, "idle")
  /\ msg' = [msg EXCEPT ![t] = NoMap]
  /\ age' = [age EXCEPT ![t] = 0]

\* The executor takes a map from either subscription; now = time.time().
Take(t, topic) ==
  /\ pc[t] = "idle"
  /\ inbox[topic] # <<>>
  /\ Goto(t, "throttle")
  /\ msg' = [msg EXCEPT ![t] = Head(inbox[topic])]
  /\ inbox' = [inbox EXCEPT ![topic] = Tail(@)]
  /\ UNCHANGED <<params, current, age, since_sent, map_interval, last_map_hash,
                 relayed, syncs, history>>

Open(t) == since_sent - age[t] >= map_interval

\* Mutants: no throttle; the hash is taken before the throttle; a map that is
\* dropped restarts the interval.
ThrottleDropped(t) ==
  /\ pc[t] = "throttle"
  /\ Goto(t, "mark")
  /\ UNCHANGED <<params, current, inbox, msg, age, since_sent, map_interval,
                 last_map_hash, relayed, syncs, history>>

ThrottleHashing(t) ==
  /\ pc[t] = "throttle"
  /\ IF Open(t) THEN Goto(t, "mark") /\ UNCHANGED <<msg, age, last_map_hash>>
                ELSE Return(t) /\ last_map_hash' = msg[t].data
  /\ UNCHANGED <<params, current, inbox, since_sent, map_interval, relayed,
                 syncs, history>>

ThrottleRestarting(t) ==
  /\ pc[t] = "throttle"
  /\ IF Open(t) THEN Goto(t, "mark") /\ UNCHANGED <<msg, age, since_sent>>
                ELSE Return(t) /\ since_sent' = age[t]
  /\ UNCHANGED <<params, current, inbox, map_interval, last_map_hash, relayed,
                 syncs, history>>

Throttle(t) ==
  /\ pc[t] = "throttle"
  /\ IF Open(t) THEN Goto(t, "mark") /\ UNCHANGED <<msg, age>> ELSE Return(t)
  /\ UNCHANGED <<params, current, inbox, since_sent, map_interval,
                 last_map_hash, relayed, syncs, history>>

\* Thread t writes the field that threads at label tested, or wrote, before.
Overtakes(t, label) ==
  /\ overtaken' = {u \in Threads \ {t} : u \in overtaken \/ pc[u] = label}
  /\ UNCHANGED <<sent, reverted>>

\* last_map_sent = now
Mark(t) ==
  /\ pc[t] = "mark"
  /\ since_sent' = age[t]
  /\ Goto(t, IF enable_delta THEN "compare" ELSE "send")
  /\ Overtakes(t, "mark")
  /\ UNCHANGED <<params, current, inbox, msg, age, map_interval, last_map_hash,
                 relayed, syncs>>

\* _is_map_unchanged, as far as the comparison.
Compare(t) ==
  /\ pc[t] = "compare"
  /\ IF msg[t].data = last_map_hash THEN Return(t)
                                    ELSE Goto(t, "record") /\ UNCHANGED <<msg, age>>
  /\ UNCHANGED <<params, current, inbox, since_sent, map_interval,
                 last_map_hash, relayed, syncs, history>>

\* Mutant: the hash is not recorded.
RecordNothing(t) ==
  /\ pc[t] = "record"
  /\ Goto(t, "send")
  /\ UNCHANGED <<params, current, inbox, msg, age, since_sent, map_interval,
                 last_map_hash, relayed, syncs, history>>

\* last_map_hash = current_hash
RecordHash(t) ==
  /\ pc[t] = "record"
  /\ last_map_hash' = msg[t].data
  /\ Goto(t, "send")
  /\ Overtakes(t, "send")
  /\ UNCHANGED <<params, current, inbox, msg, age, since_sent, map_interval,
                 relayed, syncs>>

\* In raw mode the topic sent to is one the node itself subscribes to.
Send(t) ==
  /\ pc[t] = "send"
  /\ relayed' = msg[t]
  /\ sent' = sent \cup {msg[t].data}
  /\ overtaken' = overtaken \ {t}
  /\ reverted' = (t \in overtaken)
  /\ inbox' = IF mode = "raw" THEN Enqueue("ns", msg[t]) ELSE inbox
  /\ Return(t)
  /\ UNCHANGED <<params, current, since_sent, map_interval, last_map_hash, syncs>>

-----------------------------------------------------------------------------
HandleMap(t) ==
  \/ \E topic \in Topics : Take(t, topic)
  \/ Throttle(t) \/ Mark(t) \/ Compare(t) \/ RecordHash(t) \/ Send(t)

Next ==
  \/ \E m \in Map : SlamPublish(m)
  \/ Tick
  \/ \E shift \in -MaxShift .. MaxShift : SyncClock(shift)
  \/ \E latency \in Latencies : AdaptInterval(latency)
  \/ \E t \in workers : HandleMap(t)

\* slam_toolbox republishes its map every map_update_interval, time passes, and
\* the executor serves both subscriptions.
Fairness ==
  /\ WF_vars(\E m \in Map : SlamPublish(m))
  /\ WF_vars(Tick)
  /\ \A t \in Threads :
       WF_vars(Throttle(t) \/ Mark(t) \/ Compare(t) \/ RecordHash(t) \/ Send(t))
  /\ \A topic \in Topics : SF_vars(\E t \in workers : Take(t, topic))

Spec == Init /\ [][Next]_vars

FairSpec == Spec /\ Fairness

-----------------------------------------------------------------------------
(* Properties                                                              *)

Labels == {"idle", "throttle", "mark", "compare", "record", "send"}

TypeOK ==
  /\ mode \in {"compressed", "raw"} /\ enable_delta \in BOOLEAN
  /\ workers \subseteq Threads /\ slam_topic \in Topics
  /\ current \in Map \cup {NoMap}
  /\ inbox \in [Topics -> Seq(Map)]
  /\ \A topic \in Topics : Len(inbox[topic]) <= QueueDepth
  /\ pc \in [Threads -> Labels]
  /\ msg \in [Threads -> Map \cup {NoMap}]
  /\ \A t \in Threads : pc[t] # "idle" => msg[t] \in Map
  /\ age \in [Threads -> Int]
  /\ since_sent \in Int
  /\ map_interval \in {IntervalFor(latency) : latency \in Latencies}
  /\ last_map_hash \in Contents \cup {None}
  /\ relayed \in Map \cup {NoMap}
  /\ sent \subseteq Contents /\ overtaken \subseteq Threads /\ reverted \in BOOLEAN
  /\ syncs \in 0 .. MaxSyncs

\* Whatever the interleaving, the delta check never suppresses contents that
\* were not sent: the hash it compares with is of a map that went out, or that
\* a thread which recorded it is about to send (lines 121-151).
SuppressedWasSent ==
  last_map_hash # None =>
    \/ last_map_hash \in sent
    \/ \E t \in Threads : pc[t] = "send" /\ msg[t].data = last_map_hash

\* Delta detection compares with the map the base station has: when nobody is
\* sending, the recorded hash is that of the last map sent (lines 139-152). Only
\* one thing parts them, that the last map sent was recorded before another
\* thread recorded its own.
HashIsOfLastSent ==
  (enable_delta /\ ~reverted /\ \A t \in Threads : pc[t] # "send")
    => last_map_hash = relayed.data

\* One map is evaluated per map_interval: the clock readings of two evaluations
\* in a row are at least the shortest interval apart (lines 109-119), unless
\* another thread was let through between the test and the update.
OnePerInterval ==
  [][\A t \in Threads \ overtaken :
       Mark(t) => since_sent - since_sent' >= ShortestInterval]_vars

\* No map waits for a thread while time passes.
KeepsUp == \A topic \in Topics : inbox[topic] = <<>>

\* Once SLAM's map stops changing, the base station gets its contents and keeps
\* them, whatever the clock was set to and however slow the link was rated; in
\* raw mode too, where the node hears its own older maps again, if from some
\* time on its threads keep up: an older one that waits for an interval is sent
\* again. Unless maps go out in another order than their hashes were recorded.
LatestArrives ==
  \A d \in Contents :
    /\ <>[](current.data = d /\ ~reverted)
    /\ mode = "compressed" \/ <>[][Tick => KeepsUp]_vars
    => <>[](relayed.data = d)

\* The same of all that the threads may do, as the code says of itself: a changed
\* map waits for map_interval at most (relay_node.py:117).
ChangedMapIsSent ==
  \A d \in Contents : <>[](current.data = d) => <>[](relayed.data = d)
=============================================================================
