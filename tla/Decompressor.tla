---------------------------- MODULE Decompressor ----------------------------
(***************************************************************************)
(* map_decompressor_node.py: restores the maps that the relays pack.  One  *)
(* re-entrant subscription per robot under a MultiThreadedExecutor, so     *)
(* several callbacks, also of one robot, may be under way at once.  What a *)
(* callback computes between taking its message and publishing its grid is *)
(* in local variables: the threads meet only at the two queues.            *)
(*                                                                         *)
(* A map is its metadata and its cells.  The metadata are width, height    *)
(* and the rest (frame, stamp, resolution, origin), rounded to 6 digits by *)
(* the relay already; zlib and JSON undo themselves.                       *)
(***************************************************************************)
EXTENDS Integers, Sequences

CONSTANTS
  Robots,
  Ignorable,     \* values of ignore_robot; a value that is no robot ignores none
  Threads, Pools,\* the executor runs the callbacks on one of these sets of threads
  Maps,          \* what SLAM may publish: [w, h, rest, data]
  NotJson, Incomplete, NotZlib,  \* labels that do not parse or lack keys, data that do not inflate
  Broken,        \* messages that no relay packs: [data, dim, label]
  Messages,      \* of each robot: the bound on its messages
  MaxRestarts,
  QueueDepth     \* depth of input_qos and of the relay's map_qos

Values == -1 .. 100
Bytes == 0 .. 255
Metadata == [w : Nat, h : Nat, rest : {m.rest : m \in Maps}]
Message == [data : Seq(Bytes) \cup {NotZlib}, dim : BOOLEAN,
            label : Metadata \cup {NotJson, Incomplete}]

ASSUME DecompressorAssumption ==
  /\ \A m \in Maps : /\ m.w \in Nat /\ m.h \in Nat
                     /\ m.data \in [1 .. m.w * m.h -> Values]
                     /\ m = [w |-> m.w, h |-> m.h, rest |-> m.rest, data |-> m.data]
  /\ NotJson \notin Metadata /\ Incomplete \notin Metadata /\ NotZlib \notin Seq(Bytes)
  /\ Broken \subseteq Message
  /\ Pools \subseteq SUBSET Threads
  /\ Messages \in [Robots -> Nat] /\ MaxRestarts \in Nat
  /\ QueueDepth \in Nat \ {0}

VARIABLES
  ignore_robot, pool,  \* fixed at start
  up, restarts,        \* whether the node runs, and how often it was restarted
  packed,     \* history: of each robot's messages, the map packed in it: {map}, {} if it is broken
  latest,     \* of each robot: the messages its topic keeps for late joiners
  inbox,      \* the queue of each subscription
  job,        \* of each thread: <<>>, or the robot and the message its callback is at
  restored    \* of each robot: the grids this process has published

network == <<packed, latest, inbox>>
vars == <<ignore_robot, pool, up, restarts, network, job, restored>>

\* The robots that get a publisher and a subscription.
ActiveRobots == Robots \ {ignore_robot}

Init ==
  /\ ignore_robot \in Ignorable
  /\ pool \in Pools
  /\ up = FALSE
  /\ restarts = 0
  /\ packed = [r \in Robots |-> <<>>]
  /\ latest = [r \in Robots |-> <<>>]
  /\ inbox = [r \in Robots |-> <<>>]
  /\ job = [t \in Threads |-> <<>>]
  /\ restored = [r \in Robots |-> <<>>]

-----------------------------------------------------------------------------
(* The relay's packing, and the way back                                   *)

\* Mutant: the bytes are taken as they are.
SignedForgotten(b) == b

\* b & 0xFF, and b - 256 if b > 127 else b
Packed(v) == v % 256
Signed(b) == IF b > 127 THEN b - 256 ELSE b

\* _publish_compressed
Compressed(m) ==
  [data |-> [i \in DOMAIN m.data |-> Packed(m.data[i])], dim |-> TRUE,
   label |-> [w |-> m.w, h |-> m.h, rest |-> m.rest]]

\* The guards and the conversions of _decompress_cb, in their order.
Readable(c) == c.dim /\ c.label # NotJson /\ c.data # NotZlib

\* Mutant: the size is not compared.
FitsUnchecked(c) == Readable(c) /\ c.label # Incomplete

Fits(c) == Readable(c) /\ c.label # Incomplete /\ Len(c.data) = c.label.w * c.label.h

Decompressed(c) ==
  [w |-> c.label.w, h |-> c.label.h, rest |-> c.label.rest,
   data |-> [i \in DOMAIN c.data |-> Signed(c.data[i])]]

-----------------------------------------------------------------------------
(* The topics: transient_local and reliable, keep-last                     *)

\* Mutant: the queue keeps all.
KeepAll(queue, m) == Append(queue, m)

KeepLast(queue, m) ==
  LET longer == Append(queue, m)
  IN  IF Len(longer) > QueueDepth THEN Tail(longer) ELSE longer

Publish(r, c, maps) ==
  LET m == [number |-> Len(packed[r]) + 1, content |-> c]
  IN  /\ Len(packed[r]) < Messages[r]
      /\ packed' = [packed EXCEPT ![r] = Append(@, maps)]
      /\ latest' = [latest EXCEPT ![r] = KeepLast(@, m)]
      /\ inbox' = [inbox EXCEPT ![r] = IF up /\ r \in ActiveRobots
                                         THEN KeepLast(@, m) ELSE @]
      /\ UNCHANGED <<ignore_robot, pool, up, restarts, job, restored>>

RelayPublish(r, map) == Publish(r, Compressed(map), {map})

\* Something else on the topic: an older version of the relay, a truncation.
StrayPublish(r, broken) == Publish(r, broken, {})

-----------------------------------------------------------------------------
(* The node starts, late or again, and stops                               *)

Start ==
  /\ ~up
  /\ up' = TRUE
  /\ inbox' = [r \in Robots |-> IF r \in ActiveRobots THEN latest[r] ELSE <<>>]
  /\ UNCHANGED <<ignore_robot, pool, restarts, packed, latest, job, restored>>

Stop ==
  /\ up /\ restarts < MaxRestarts
  /\ up' = FALSE
  /\ restarts' = restarts + 1
  /\ inbox' = [r \in Robots |-> <<>>]
  /\ job' = [t \in Threads |-> <<>>]
  /\ restored' = [r \in Robots |-> <<>>]
  /\ UNCHANGED <<ignore_robot, pool, packed, latest>>

-----------------------------------------------------------------------------
(* _decompress_cb in thread t                                              *)

\* Mutant: the newest message is taken first.
TakeNewest(t, r) ==
  /\ up /\ t \in pool /\ job[t] = <<>> /\ inbox[r] # <<>>
  /\ job' = [job EXCEPT ![t] = <<[robot |-> r, msg |-> inbox[r][Len(inbox[r])]]>>]
  /\ inbox' = [inbox EXCEPT ![r] = SubSeq(@, 1, Len(@) - 1)]
  /\ UNCHANGED <<ignore_robot, pool, up, restarts, packed, latest, restored>>

\* Mutant: the message stays in the queue.
TakeKeeping(t, r) ==
  /\ up /\ t \in pool /\ job[t] = <<>> /\ inbox[r] # <<>>
  /\ job' = [job EXCEPT ![t] = <<[robot |-> r, msg |-> Head(inbox[r])]>>]
  /\ UNCHANGED <<ignore_robot, pool, up, restarts, network, restored>>

Take(t, r) ==
  /\ up /\ t \in pool /\ job[t] = <<>> /\ inbox[r] # <<>>
  /\ job' = [job EXCEPT ![t] = <<[robot |-> r, msg |-> Head(inbox[r])]>>]
  /\ inbox' = [inbox EXCEPT ![r] = Tail(@)]
  /\ UNCHANGED <<ignore_robot, pool, up, restarts, packed, latest, restored>>

Return(t) == job' = [job EXCEPT ![t] = <<>>]

\* Mutant: the exceptions are not caught, and the thread is lost.
RejectUncaught(t) ==
  /\ job[t] # <<>> /\ ~Fits(job[t][1].msg.content)
  /\ UNCHANGED vars

\* The early returns and the exceptions: logged, nothing else.
Reject(t) ==
  /\ job[t] # <<>> /\ ~Fits(job[t][1].msg.content)
  /\ Return(t)
  /\ UNCHANGED <<ignore_robot, pool, up, restarts, network, restored>>

PublishGrid(t) ==
  /\ job[t] # <<>> /\ Fits(job[t][1].msg.content)
  /\ LET j == job[t][1]
         grid == [number |-> j.msg.number, map |-> Decompressed(j.msg.content)]
     IN  restored' = [restored EXCEPT ![j.robot] = Append(@, grid)]
  /\ Return(t)
  /\ UNCHANGED <<ignore_robot, pool, up, restarts, network>>

-----------------------------------------------------------------------------
Next ==
  \/ \E r \in Robots : \/ \E m \in Maps : RelayPublish(r, m)
                       \/ \E b \in Broken : StrayPublish(r, b)
  \/ Start \/ Stop
  \/ \E t \in Threads : \/ \E r \in Robots : Take(t, r)
                        \/ Reject(t) \/ PublishGrid(t)

\* The launch starts the node again, its executor serves every subscription
\* and lets every thread run on.
Fairness ==
  /\ WF_vars(Start)
  /\ \A r \in Robots : SF_vars(\E t \in Threads : Take(t, r))
  /\ \A t \in Threads : WF_vars(Reject(t) \/ PublishGrid(t))

Spec == Init /\ [][Next]_vars

FairSpec == Spec /\ Fairness

-----------------------------------------------------------------------------
(* Properties                                                              *)

Serial == \A t, u \in pool : t = u

Queued == [number : Nat \ {0}, content : Message]

\* Queues stay within their depth; only robots that are not ignored are
\* served, and only while the node is up.
TypeOK ==
  /\ ignore_robot \in Ignorable /\ pool \in Pools
  /\ up \in BOOLEAN /\ restarts \in 0 .. MaxRestarts
  /\ packed \in [Robots -> Seq(SUBSET Maps)]
  /\ latest \in [Robots -> Seq(Queued)] /\ inbox \in [Robots -> Seq(Queued)]
  /\ job \in [Threads -> Seq([robot : Robots, msg : Queued])]
  /\ \A t \in Threads : Len(job[t]) <= 1
  /\ \A r \in Robots :
       /\ Len(latest[r]) <= QueueDepth /\ Len(inbox[r]) <= QueueDepth
       /\ inbox[r] # <<>> => up /\ r \in ActiveRobots
       /\ restored[r] # <<>> => up /\ r \in ActiveRobots

\* Grids come out whole or not at all: each one published is, metadata and
\* cells, the map that the relay packed in the very message it was restored
\* from, whatever the other threads do and whatever else is on the topic
\* (lines 73-116, and lines 162-192 of relay_node.py).
RestoredIsPacked ==
  \A r \in Robots : \A i \in DOMAIN restored[r] :
    restored[r][i].map \in packed[r][restored[r][i].number]

\* A grid is published after a newer one of its robot only if the two callbacks
\* were under way together: a message that waits is newer than all that were
\* taken, also when the node starts late.  One thread publishes in order
\* (lines 29-65).
OvertakenOnlyByOverlap ==
  \A r \in Robots :
    /\ \A i \in DOMAIN inbox[r] :
         /\ \A j \in 1 .. i - 1 : inbox[r][j].number < inbox[r][i].number
         /\ \A j \in DOMAIN restored[r] : restored[r][j].number < inbox[r][i].number
         /\ \A t \in Threads : job[t] # <<>> /\ job[t][1].robot = r
                                 => job[t][1].msg.number < inbox[r][i].number
    /\ Serial => \A i \in DOMAIN restored[r] : \A j \in 1 .. i - 1 :
                   restored[r][j].number < restored[r][i].number

\* The node keeps the promise of Channel: no message is restored twice by one
\* process, whatever threads take it from the queue, and one thread restores in
\* order (lines 27-117).
Promise == INSTANCE Channel WITH in_order <- Serial, sent <- packed, shown <- restored

KeepsPromise == Promise!Spec

\* The last map that a robot sent is restored in the end, although the node
\* started late or again, messages before it were overrun, broken or another
\* robot's; with one thread it is also the last grid published, the one that
\* the topic keeps (lines 31-62).
LastIsRestored ==
  \A r \in Robots : <>[](
    LET last == Len(packed[r])
        done == {i \in DOMAIN restored[r] : restored[r][i].number = last}
    IN  (r # ignore_robot /\ last > 0 /\ packed[r][last] # {})
          => done # {} /\ (Serial => Len(restored[r]) \in done))
=============================================================================
