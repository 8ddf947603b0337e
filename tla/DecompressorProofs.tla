------------------------- MODULE DecompressorProofs -------------------------
(***************************************************************************)
(* What holds of map_decompressor_node.py for every set of robots, every   *)
(* number of threads, messages and restarts, every map and every depth of  *)
(* the queues.                                                             *)
(***************************************************************************)
EXTENDS Decompressor, TLAPS

-----------------------------------------------------------------------------
(* The invariant                                                           *)

Grid == [number : Nat \ {0}, map : {Decompressed(c) : c \in Message}]

Below(q, n) == \A i \in DOMAIN q : q[i].number < n
Increasing(q) == \A i \in DOMAIN q : \A j \in 1 .. i - 1 : q[j].number < q[i].number

\* A message of the robot that sent p, as the relay packed it or broken.
Faithful(p, m) ==
  /\ m.number \in 1 .. Len(p)
  /\ \/ \E map \in Maps : p[m.number] = {map} /\ m.content = Compressed(map)
     \/ m.content \in Broken

Holds(t, r) == job[t] # <<>> /\ job[t][1].robot = r

\* What is of robot r: all of it was sent, and in order but for the threads.
Known(r) ==
  /\ \A i \in DOMAIN latest[r] : Faithful(packed[r], latest[r][i])
  /\ \A i \in DOMAIN inbox[r] : Faithful(packed[r], inbox[r][i])
  /\ \A t \in Threads : Holds(t, r) => Faithful(packed[r], job[t][1].msg)
  /\ \A i \in DOMAIN restored[r] : restored[r][i].number \in 1 .. Len(packed[r])

Ordered(r) ==
  /\ Increasing(latest[r]) /\ Increasing(inbox[r])
  /\ \A i \in DOMAIN inbox[r] : Below(restored[r], inbox[r][i].number)
  /\ \A i \in DOMAIN inbox[r] : \A t \in Threads :
       Holds(t, r) => job[t][1].msg.number < inbox[r][i].number
  /\ Serial => /\ Increasing(restored[r])
               /\ \A t \in Threads : Holds(t, r) => Below(restored[r], job[t][1].msg.number)

IInv ==
  /\ TypeOK
  /\ restored \in [Robots -> Seq(Grid)]
  /\ \A t \in Threads : job[t] # <<>> =>
       up /\ t \in pool /\ job[t][1].robot \in ActiveRobots
  /\ \A r \in Robots : Known(r) /\ Ordered(r)

-----------------------------------------------------------------------------
(* Packing, and the queues                                                 *)

LEMMA SignedUndoesPacked ==
  \A v \in Values : Packed(v) \in Bytes /\ Signed(Packed(v)) = v
BY DEF Values, Bytes, Packed, Signed

\* The metadata and the cells of a map survive the way through the relay and
\* the decompressor.
LEMMA RoundTrip ==
  ASSUME NEW m \in Maps
  PROVE  Compressed(m) \in Message /\ Decompressed(Compressed(m)) = m
<1>1. /\ m.w \in Nat /\ m.h \in Nat /\ m.data \in [1 .. m.w * m.h -> Values]
      /\ m = [w |-> m.w, h |-> m.h, rest |-> m.rest, data |-> m.data]
  BY DecompressorAssumption
<1>. DEFINE n == m.w * m.h
            bytes == [i \in DOMAIN m.data |-> Packed(m.data[i])]
<1>2. n \in Nat
  BY <1>1
<1>3. DOMAIN m.data = 1 .. n /\ \A i \in 1 .. n : m.data[i] \in Values
  BY <1>1
<1>4. bytes \in [1 .. n -> Bytes]
  BY <1>3, SignedUndoesPacked
<1>5. bytes \in Seq(Bytes)
  BY <1>2, <1>4
<1>6. [w |-> m.w, h |-> m.h, rest |-> m.rest] \in Metadata
  BY <1>1 DEF Metadata
<1>7. Compressed(m) = [data |-> bytes, dim |-> TRUE,
                       label |-> [w |-> m.w, h |-> m.h, rest |-> m.rest]]
  BY DEF Compressed
<1>8. [i \in DOMAIN bytes |-> Signed(bytes[i])] = m.data
  BY <1>3, <1>1, SignedUndoesPacked
<1>. HIDE DEF bytes, n
<1>9. Compressed(m) \in Message
  BY <1>5, <1>6, <1>7 DEF Message
<1>10. Decompressed(Compressed(m)) = m
  BY <1>1, <1>7, <1>8 DEF Decompressed
<1>. QED
  BY <1>9, <1>10

LEMMA AppendFacts ==
  ASSUME NEW S, NEW q \in Seq(S), NEW m \in S
  PROVE  /\ Append(q, m) \in Seq(S) /\ Append(q, m) # <<>>
         /\ Len(Append(q, m)) = Len(q) + 1 /\ Len(q) \in Nat
         /\ Append(q, m)[Len(q) + 1] = m
         /\ \A i \in DOMAIN q : i \in DOMAIN Append(q, m) /\ Append(q, m)[i] = q[i]
         /\ \A i \in DOMAIN Append(q, m) : i \in DOMAIN q \/ i = Len(q) + 1
         /\ DOMAIN q = 1 .. Len(q)
OBVIOUS

LEMMA TailFacts ==
  ASSUME NEW S, NEW q \in Seq(S), q # <<>>
  PROVE  /\ Head(q) \in S /\ Head(q) = q[1] /\ 1 \in DOMAIN q
         /\ Tail(q) \in Seq(S) /\ Len(Tail(q)) = Len(q) - 1 /\ Len(q) \in Nat
         /\ \A i \in DOMAIN Tail(q) : i + 1 \in DOMAIN q /\ Tail(q)[i] = q[i + 1]
         /\ DOMAIN Tail(q) = 1 .. Len(q) - 1
<1>1. /\ Head(q) \in S /\ Head(q) = q[1] /\ 1 \in DOMAIN q /\ Tail(q) \in Seq(S)
      /\ Len(q) \in Nat \ {0} /\ Len(Tail(q)) = Len(q) - 1
  OBVIOUS
<1>2. \A i \in 1 .. Len(q) - 1 : Tail(q)[i] = q[i + 1]
  OBVIOUS
<1>. QED
  BY <1>1, <1>2

\* A queue that takes in a message keeps its depth, and shifts by one if it is full.
Shift(q) == IF Len(q) + 1 > QueueDepth THEN 1 ELSE 0

LEMMA KeepLastFacts ==
  ASSUME NEW S, NEW q \in Seq(S), NEW m \in S, Len(q) <= QueueDepth
  PROVE  /\ KeepLast(q, m) \in Seq(S) /\ Len(KeepLast(q, m)) <= QueueDepth
         /\ Shift(q) \in {0, 1}
         /\ \A i \in DOMAIN KeepLast(q, m) :
              /\ i \in Nat /\ i + Shift(q) \in DOMAIN Append(q, m)
              /\ KeepLast(q, m)[i] = Append(q, m)[i + Shift(q)]
<1>. DEFINE longer == Append(q, m)
<1>1. /\ longer \in Seq(S) /\ longer # <<>> /\ Len(longer) = Len(q) + 1 /\ Len(q) \in Nat
  BY AppendFacts
<1>2. /\ Tail(longer) \in Seq(S) /\ Len(Tail(longer)) = Len(q)
      /\ \A i \in DOMAIN Tail(longer) : i + 1 \in DOMAIN longer /\ Tail(longer)[i] = longer[i + 1]
  <2>. HIDE DEF longer
  <2>. QED
    BY <1>1, TailFacts
<1>3. QueueDepth \in Nat
  BY DecompressorAssumption
<1>4. KeepLast(q, m) = IF Len(longer) > QueueDepth THEN Tail(longer) ELSE longer
  BY DEF KeepLast
<1>. HIDE DEF longer
<1>5. CASE Len(longer) > QueueDepth
  <2>1. KeepLast(q, m) = Tail(longer) /\ Shift(q) = 1
    BY <1>1, <1>4, <1>5 DEF Shift
  <2>2. \A i \in DOMAIN Tail(longer) : i \in Nat
    BY <1>2
  <2>. QED
    BY <1>2, <2>1, <2>2 DEF longer
<1>6. CASE ~(Len(longer) > QueueDepth)
  <2>1. KeepLast(q, m) = longer /\ Shift(q) = 0
    BY <1>1, <1>4, <1>6 DEF Shift
  <2>2. \A i \in DOMAIN longer : i \in Nat /\ i + 0 = i
    BY <1>1
  <2>. QED
    BY <1>1, <1>3, <1>6, <2>1, <2>2 DEF longer
<1>. QED
  BY <1>5, <1>6

\* So that nothing else comes in, and the order stays.
LEMMA KeepLastOrder ==
  ASSUME NEW q \in Seq(Queued), NEW m \in Queued, Len(q) <= QueueDepth,
         Increasing(q), Below(q, m.number)
  PROVE  /\ Increasing(KeepLast(q, m))
         /\ \A i \in DOMAIN KeepLast(q, m) :
              KeepLast(q, m)[i] = m \/ \E j \in DOMAIN q : KeepLast(q, m)[i] = q[j]
<1>. DEFINE longer == Append(q, m)
            k == KeepLast(q, m)
            d == Shift(q)
<1>1. /\ Len(q) \in Nat /\ longer[Len(q) + 1] = m /\ DOMAIN q = 1 .. Len(q)
      /\ \A i \in DOMAIN q : longer[i] = q[i]
      /\ \A i \in DOMAIN longer : i \in DOMAIN q \/ i = Len(q) + 1
  BY AppendFacts
<1>2. /\ k \in Seq(Queued) /\ d \in {0, 1}
      /\ \A i \in DOMAIN k : /\ i \in Nat /\ i + d \in DOMAIN longer
                              /\ k[i] = longer[i + d]
  BY KeepLastFacts
<1>. HIDE DEF longer, k, d
<1>3. Increasing(longer)
  BY <1>1 DEF Increasing, Below
<1>4. \A i \in DOMAIN k : k[i] = m \/ \E j \in DOMAIN q : k[i] = q[j]
  <2>2. SUFFICES ASSUME NEW i \in DOMAIN k PROVE k[i] = m \/ \E j \in DOMAIN q : k[i] = q[j]
    OBVIOUS
  <2>3. CASE i + d \in DOMAIN q
    BY <1>1, <1>2, <2>3
  <2>4. CASE i + d = Len(q) + 1
    BY <1>1, <1>2, <2>4
  <2>. QED
    BY <1>1, <1>2, <2>3, <2>4
<1>5. Increasing(k)
  <2>2. SUFFICES ASSUME NEW i \in DOMAIN k, NEW j \in 1 .. i - 1
                 PROVE  k[j].number < k[i].number
    BY DEF Increasing
  <2>3. j \in DOMAIN k /\ i \in Nat
    BY <1>2
  <2>4. j + d \in 1 .. (i + d) - 1 /\ i + d \in DOMAIN longer
    BY <1>2, <2>3
  <2>. QED
    BY <1>3, <1>2, <2>3, <2>4 DEF Increasing
<1>. QED
  BY <1>4, <1>5 DEF k

-----------------------------------------------------------------------------
(* The steps                                                               *)

LEMMA InitIInv == Init => IInv
<1>. SUFFICES ASSUME Init PROVE IInv
  OBVIOUS
<1>1. QueueDepth \in Nat /\ MaxRestarts \in Nat
  BY DecompressorAssumption
<1>2. Len(<<>>) = 0 /\ \A i \in DOMAIN <<>> : FALSE
  OBVIOUS
<1>5. TypeOK /\ restored \in [Robots -> Seq(Grid)]
  <2>1. /\ packed \in [Robots -> Seq(SUBSET Maps)] /\ restored \in [Robots -> Seq(Grid)]
        /\ latest \in [Robots -> Seq(Queued)] /\ inbox \in [Robots -> Seq(Queued)]
        /\ job \in [Threads -> Seq([robot : Robots, msg : Queued])]
    <3>1. packed \in [Robots -> Seq(SUBSET Maps)]
      BY DEF Init
    <3>2. restored \in [Robots -> Seq(Grid)]
      BY DEF Init
    <3>3. latest \in [Robots -> Seq(Queued)] /\ inbox \in [Robots -> Seq(Queued)]
      BY DEF Init
    <3>4. job \in [Threads -> Seq([robot : Robots, msg : Queued])]
      BY DEF Init
    <3>. QED
      BY <3>1, <3>2, <3>3, <3>4
  <2>2. \A r \in Robots : latest[r] = <<>> /\ inbox[r] = <<>> /\ restored[r] = <<>>
    BY DEF Init
  <2>3. \A t \in Threads : job[t] = <<>>
    BY DEF Init
  <2>4. /\ ignore_robot \in Ignorable /\ pool \in Pools /\ up = FALSE
        /\ restarts \in 0 .. MaxRestarts
    BY <1>1 DEF Init
  <2>5. up \in BOOLEAN
    BY <2>4
  <2>6. \A t \in Threads : Len(job[t]) <= 1
    BY <1>2, <2>3
  <2>7. \A r \in Robots : Len(latest[r]) <= QueueDepth /\ Len(inbox[r]) <= QueueDepth
    <3>1. SUFFICES ASSUME NEW r \in Robots
                   PROVE  Len(latest[r]) <= QueueDepth /\ Len(inbox[r]) <= QueueDepth
      OBVIOUS
    <3>2. latest[r] = <<>> /\ inbox[r] = <<>>
      BY <2>2
    <3>3. Len(latest[r]) = 0 /\ Len(inbox[r]) = 0
      BY <3>2, <1>2
    <3>. QED
      BY <3>3, <1>1
  <2>. QED
    BY <2>1, <2>2, <2>4, <2>5, <2>6, <2>7 DEF TypeOK
<1>3. \A r \in Robots : /\ latest[r] = <<>> /\ inbox[r] = <<>> /\ restored[r] = <<>>
                        /\ \A t \in Threads : ~Holds(t, r)
  BY DEF Init, Holds
<1>4. \A r \in Robots : Known(r) /\ Ordered(r)
  BY <1>2, <1>3 DEF Known, Ordered, Increasing, Below
<1>. QED
  BY <1>4, <1>5 DEF Init, IInv

\* The types of what belongs to one robot and to one thread.
LEMMA RobotTypes ==
  ASSUME IInv, NEW r \in Robots
  PROVE  /\ packed[r] \in Seq(SUBSET Maps)
         /\ latest[r] \in Seq(Queued) /\ Len(latest[r]) <= QueueDepth
         /\ inbox[r] \in Seq(Queued) /\ Len(inbox[r]) <= QueueDepth
         /\ restored[r] \in Seq(Grid)
         /\ Len(packed[r]) \in Nat
BY DEF IInv, TypeOK

LEMMA OneJob == IInv => \A t \in Threads : Len(job[t]) <= 1
BY DEF IInv, TypeOK

LEMMA ThreadTypes ==
  ASSUME IInv, NEW t \in Threads, job[t] # <<>>
  PROVE  /\ job[t][1] \in [robot : Robots, msg : Queued]
         /\ job[t][1].robot \in Robots /\ job[t][1].msg \in Queued
         /\ job[t][1].msg.number \in Nat \ {0} /\ job[t][1].msg.content \in Message
         /\ up /\ t \in pool /\ Holds(t, job[t][1].robot) /\ job[t][1].robot \in ActiveRobots
<1>1. job[t] \in Seq([robot : Robots, msg : Queued])
  BY DEF IInv, TypeOK
<1>2. job[t][1] \in [robot : Robots, msg : Queued]
  BY <1>1, TailFacts
<1>. QED
  BY <1>2 DEF IInv, Holds, Queued

\* A robot that a step leaves alone, but for threads that end.
LEMMA Unaffected ==
  ASSUME NEW s \in Robots, Known(s), Ordered(s),
         packed'[s] = packed[s], latest'[s] = latest[s], inbox'[s] = inbox[s],
         restored'[s] = restored[s], pool' = pool,
         \A u \in Threads : Holds(u, s)' => Holds(u, s) /\ job'[u] = job[u]
  PROVE  Known(s)' /\ Ordered(s)'
<1>1. Known(s)'
  BY DEF Known
<1>2. Serial' <=> Serial
  BY DEF Serial
<1>3. Ordered(s)'
  BY <1>2 DEF Ordered
<1>. QED
  BY <1>1, <1>3

\* One more message sent: what was sent before is still known.
LEMMA FaithfulStays ==
  ASSUME NEW p \in Seq(SUBSET Maps), NEW maps \in SUBSET Maps, NEW m, Faithful(p, m)
  PROVE  Faithful(Append(p, maps), m)
BY AppendFacts DEF Faithful

LEMMA PublishIInv ==
  ASSUME IInv, NEW r \in Robots, NEW c \in Message, NEW maps \in SUBSET Maps,
         (\E map \in Maps : maps = {map} /\ c = Compressed(map)) \/ c \in Broken,
         Publish(r, c, maps)
  PROVE  IInv'
<1>. DEFINE m == [number |-> Len(packed[r]) + 1, content |-> c]
            q == KeepLast(latest[r], m)
            b == IF up /\ r \in ActiveRobots THEN KeepLast(inbox[r], m) ELSE inbox[r]
<1>1. /\ packed[r] \in Seq(SUBSET Maps) /\ Len(packed[r]) \in Nat
      /\ latest[r] \in Seq(Queued) /\ Len(latest[r]) <= QueueDepth
      /\ inbox[r] \in Seq(Queued) /\ Len(inbox[r]) <= QueueDepth
      /\ DOMAIN packed = Robots /\ DOMAIN latest = Robots /\ DOMAIN inbox = Robots
  BY RobotTypes DEF IInv, TypeOK
<1>2. m \in Queued /\ m.number = Len(packed[r]) + 1 /\ m.content = c
  BY <1>1 DEF Queued
<1>3. /\ packed' = [packed EXCEPT ![r] = Append(@, maps)]
      /\ latest' = [latest EXCEPT ![r] = q]
      /\ inbox' = [inbox EXCEPT ![r] = b]
      /\ UNCHANGED <<ignore_robot, pool, up, restarts, job, restored>>
  BY DEF Publish
<1>4. /\ Below(latest[r], m.number) /\ Below(inbox[r], m.number)
      /\ Increasing(latest[r]) /\ Increasing(inbox[r])
  BY <1>1, <1>2 DEF IInv, Known, Faithful, Ordered, Below
<1>. HIDE DEF m
<1>5. /\ q \in Seq(Queued) /\ Len(q) <= QueueDepth /\ Increasing(q)
      /\ \A i \in DOMAIN q : q[i] = m \/ \E j \in DOMAIN latest[r] : q[i] = latest[r][j]
  BY <1>1, <1>2, <1>4, KeepLastFacts, KeepLastOrder
<1>6. /\ b \in Seq(Queued) /\ Len(b) <= QueueDepth /\ Increasing(b)
      /\ \A i \in DOMAIN b : b[i] = m \/ \E j \in DOMAIN inbox[r] : b[i] = inbox[r][j]
      /\ b # inbox[r] => up /\ r \in ActiveRobots
  BY <1>1, <1>2, <1>4, KeepLastFacts, KeepLastOrder
<1>. HIDE DEF q, b
<1>7. /\ packed'[r] = Append(packed[r], maps) /\ latest'[r] = q /\ inbox'[r] = b
      /\ \A s \in Robots \ {r} : /\ packed'[s] = packed[s] /\ latest'[s] = latest[s]
                                 /\ inbox'[s] = inbox[s]
  BY <1>1, <1>3
<1>8. TypeOK'
  <2>1. Append(packed[r], maps) \in Seq(SUBSET Maps)
    BY <1>1
  <2>2. /\ packed' \in [Robots -> Seq(SUBSET Maps)]
        /\ latest' \in [Robots -> Seq(Queued)] /\ inbox' \in [Robots -> Seq(Queued)]
    BY <1>3, <1>5, <1>6, <2>1 DEF IInv, TypeOK
  <2>3. \A s \in Robots :
          /\ Len(latest'[s]) <= QueueDepth /\ Len(inbox'[s]) <= QueueDepth
          /\ inbox'[s] # <<>> => up /\ s \in ActiveRobots
    BY <1>5, <1>6, <1>7 DEF IInv, TypeOK
  <2>. QED
    BY <1>3, <2>2, <2>3 DEF IInv, TypeOK, ActiveRobots
<1>9. Len(packed'[r]) = Len(packed[r]) + 1 /\ packed'[r][Len(packed[r]) + 1] = maps
  BY <1>1, <1>7, AppendFacts
<1>10. Faithful(packed'[r], m)
  BY <1>1, <1>2, <1>9 DEF Faithful
<1>11. \A x : Faithful(packed[r], x) => Faithful(packed'[r], x)
  BY <1>1, <1>7, FaithfulStays
<1>12. Known(r)'
  <2>1. \A i \in DOMAIN q : Faithful(packed'[r], q[i])
    BY <1>5, <1>10, <1>11 DEF IInv, Known
  <2>2. \A i \in DOMAIN b : Faithful(packed'[r], b[i])
    BY <1>6, <1>10, <1>11 DEF IInv, Known
  <2>3. \A t \in Threads : Holds(t, r) => Faithful(packed'[r], job[t][1].msg)
    BY <1>11 DEF IInv, Known
  <2>4. \A i \in DOMAIN restored[r] : restored[r][i].number \in 1 .. Len(packed'[r])
    BY <1>1, <1>9 DEF IInv, Known
  <2>. QED
    BY <1>3, <1>7, <2>1, <2>2, <2>3, <2>4 DEF Known, Holds
<1>13. Ordered(r)'
  <2>1. Below(restored[r], m.number)
        /\ \A t \in Threads : Holds(t, r) => job[t][1].msg.number < m.number
    BY <1>1, <1>2 DEF IInv, Known, Faithful, Below
  <2>2. \A i \in DOMAIN b : Below(restored[r], b[i].number)
    BY <1>6, <2>1 DEF IInv, Ordered
  <2>3. \A i \in DOMAIN b : \A t \in Threads : Holds(t, r) => job[t][1].msg.number < b[i].number
    BY <1>6, <2>1 DEF IInv, Ordered
  <2>. QED
    BY <1>3, <1>5, <1>6, <1>7, <2>2, <2>3 DEF IInv, Ordered, Holds, Serial
<1>14. ASSUME NEW s \in Robots \ {r} PROVE Known(s)' /\ Ordered(s)'
  BY <1>3, <1>7, <1>14, Unaffected DEF IInv, Holds
<1>15. \A u \in Threads : job'[u] # <<>> =>
         up' /\ u \in pool' /\ job'[u][1].robot \in ActiveRobots'
  BY <1>3 DEF IInv, ActiveRobots
<1>16. \A s \in Robots : Known(s)' /\ Ordered(s)'
  BY <1>12, <1>13, <1>14
<1>17. restored' \in [Robots -> Seq(Grid)]
  BY <1>3 DEF IInv
<1>. QED
  BY <1>8, <1>15, <1>16, <1>17 DEF IInv

LEMMA StartIInv == ASSUME IInv, Start PROVE IInv'
<1>1. /\ inbox' = [r \in Robots |-> IF r \in ActiveRobots THEN latest[r] ELSE <<>>]
      /\ up' = TRUE /\ ~up
      /\ UNCHANGED <<ignore_robot, pool, restarts, packed, latest, job, restored>>
  BY DEF Start
<1>2. /\ \A r \in Robots : restored[r] = <<>>
      /\ \A t \in Threads : job[t] = <<>>
  BY <1>1 DEF IInv, TypeOK
<1>3. \A r \in Robots : (inbox'[r] = latest[r] /\ r \in ActiveRobots) \/ inbox'[r] = <<>>
  BY <1>1
<1>4. /\ <<>> \in Seq(Queued) /\ Len(<<>>) = 0
      /\ \A i \in DOMAIN <<>> : FALSE
  OBVIOUS
<1>5. TypeOK'
  <2>1. inbox' \in [Robots -> Seq(Queued)]
    BY <1>1, <1>4 DEF IInv, TypeOK
  <2>2. \A r \in Robots : /\ Len(inbox'[r]) <= QueueDepth
                          /\ inbox'[r] # <<>> => r \in ActiveRobots
    BY <1>3, <1>4, DecompressorAssumption DEF IInv, TypeOK
  <2>. QED
    BY <1>1, <2>1, <2>2 DEF IInv, TypeOK, ActiveRobots
<1>6. ASSUME NEW r \in Robots PROVE Known(r)' /\ Ordered(r)'
  <2>1. CASE inbox'[r] = latest[r]
    BY <1>1, <1>2, <1>4, <2>1 DEF IInv, Known, Ordered, Holds, Serial, Below, Increasing
  <2>2. CASE inbox'[r] = <<>>
    BY <1>1, <1>2, <1>4, <2>2 DEF IInv, Known, Ordered, Holds, Serial, Below, Increasing
  <2>. QED
    BY <1>3, <2>1, <2>2
<1>. QED
  BY <1>1, <1>2, <1>5, <1>6 DEF IInv

LEMMA StopIInv == ASSUME IInv, Stop PROVE IInv'
<1>1. /\ inbox' = [r \in Robots |-> <<>>] /\ restored' = [r \in Robots |-> <<>>]
      /\ job' = [t \in Threads |-> <<>>]
      /\ up' = FALSE /\ restarts' = restarts + 1 /\ restarts < MaxRestarts
      /\ UNCHANGED <<ignore_robot, pool, packed, latest>>
  BY DEF Stop
<1>2. Len(<<>>) = 0 /\ \A i \in DOMAIN <<>> : FALSE
  OBVIOUS
<1>3. /\ \A r \in Robots : inbox'[r] = <<>> /\ restored'[r] = <<>>
      /\ \A t \in Threads : job'[t] = <<>>
  BY <1>1
<1>4. inbox' \in [Robots -> Seq(Queued)]
  BY <1>1
<1>5. restored' \in [Robots -> Seq(Grid)]
  BY <1>1
<1>6. job' \in [Threads -> Seq([robot : Robots, msg : Queued])]
  BY <1>1
<1>7. TypeOK'
  <2>1. restarts' \in 0 .. MaxRestarts
    BY <1>1, DecompressorAssumption DEF IInv, TypeOK
  <2>2. \A r \in Robots : Len(latest'[r]) <= QueueDepth /\ Len(inbox'[r]) <= QueueDepth
    BY <1>1, <1>2, <1>3, DecompressorAssumption DEF IInv, TypeOK
  <2>3. \A t \in Threads : Len(job'[t]) <= 1
    BY <1>2, <1>3
  <2>4. /\ ignore_robot' \in Ignorable /\ pool' \in Pools /\ up' \in BOOLEAN
        /\ packed' \in [Robots -> Seq(SUBSET Maps)] /\ latest' \in [Robots -> Seq(Queued)]
    BY <1>1 DEF IInv, TypeOK
  <2>. QED
    BY <1>3, <1>4, <1>6, <2>1, <2>2, <2>3, <2>4 DEF TypeOK
<1>8. ASSUME NEW r \in Robots PROVE Known(r)' /\ Ordered(r)'
  BY <1>1, <1>2, <1>3 DEF IInv, Known, Ordered, Holds, Serial, Below, Increasing
<1>. QED
  BY <1>1, <1>3, <1>5, <1>7, <1>8 DEF IInv

LEMMA TakeIInv ==
  ASSUME IInv, NEW t \in Threads, NEW r \in Robots, Take(t, r)
  PROVE  IInv'
<1>. DEFINE m == Head(inbox[r])
            j == [robot |-> r, msg |-> m]
            taken == <<j>>
<1>1. /\ up /\ t \in pool /\ job[t] = <<>> /\ inbox[r] # <<>>
      /\ job' = [job EXCEPT ![t] = taken]
      /\ inbox' = [inbox EXCEPT ![r] = Tail(@)]
      /\ UNCHANGED <<ignore_robot, pool, up, restarts, packed, latest, restored>>
  BY DEF Take
<1>2. /\ inbox[r] \in Seq(Queued) /\ Len(inbox[r]) <= QueueDepth /\ QueueDepth \in Nat
      /\ DOMAIN inbox = Robots /\ DOMAIN job = Threads
  BY RobotTypes, DecompressorAssumption DEF IInv, TypeOK
<1>3. /\ m \in Queued /\ m = inbox[r][1] /\ 1 \in DOMAIN inbox[r]
      /\ Tail(inbox[r]) \in Seq(Queued) /\ Len(Tail(inbox[r])) = Len(inbox[r]) - 1
      /\ Len(inbox[r]) \in Nat /\ DOMAIN Tail(inbox[r]) = 1 .. Len(inbox[r]) - 1
      /\ \A i \in DOMAIN Tail(inbox[r]) :
           i + 1 \in DOMAIN inbox[r] /\ Tail(inbox[r])[i] = inbox[r][i + 1]
  BY <1>1, <1>2, TailFacts
<1>. HIDE DEF m
<1>4. /\ taken \in Seq([robot : Robots, msg : Queued]) /\ Len(taken) = 1
      /\ taken # <<>> /\ taken[1] = j /\ j.robot = r /\ j.msg = m
  BY <1>3
<1>. HIDE DEF j, taken
<1>14. r \in ActiveRobots
  BY <1>1 DEF IInv, TypeOK
<1>5. /\ job'[t] = taken /\ inbox'[r] = Tail(inbox[r])
      /\ \A u \in Threads \ {t} : job'[u] = job[u]
      /\ \A s \in Robots \ {r} : inbox'[s] = inbox[s]
  BY <1>1, <1>2
<1>6. TypeOK'
  <2>1. /\ job' \in [Threads -> Seq([robot : Robots, msg : Queued])]
        /\ inbox' \in [Robots -> Seq(Queued)]
    BY <1>1, <1>3, <1>4 DEF IInv, TypeOK
  <2>2. \A u \in Threads : Len(job'[u]) <= 1
    <3>1. SUFFICES ASSUME NEW u \in Threads PROVE Len(job'[u]) <= 1
      OBVIOUS
    <3>2. CASE u = t
      <4>1. job'[u] = taken
        BY <1>5, <3>2
      <4>. QED
        BY <4>1, <1>4
    <3>3. CASE u # t
      <4>1. job'[u] = job[u] /\ Len(job[u]) <= 1
        BY <1>5, <3>3, OneJob
      <4>. QED
        BY <4>1
    <3>. QED
      BY <3>2, <3>3
  <2>3. \A s \in Robots : /\ Len(inbox'[s]) <= QueueDepth
                          /\ inbox'[s] # <<>> => up /\ s \in ActiveRobots
    BY <1>1, <1>2, <1>3, <1>5 DEF IInv, TypeOK
  <2>. QED
    BY <1>1, <2>1, <2>2, <2>3 DEF IInv, TypeOK, ActiveRobots
<1>7. ASSUME NEW s \in Robots \ {r} PROVE Known(s)' /\ Ordered(s)'
  <2>1. \A u \in Threads : Holds(u, s)' => Holds(u, s) /\ job'[u] = job[u]
    BY <1>4, <1>5, <1>7 DEF Holds
  <2>. QED
    BY <1>1, <1>5, <2>1, <1>7, Unaffected DEF IInv
<1>8. \A u \in Threads :
        Holds(u, r)' => (u = t /\ job'[u][1].msg = m) \/ (Holds(u, r) /\ job'[u] = job[u])
  <2>1. SUFFICES ASSUME NEW u \in Threads, Holds(u, r)'
                 PROVE  (u = t /\ job'[u][1].msg = m) \/ (Holds(u, r) /\ job'[u] = job[u])
    OBVIOUS
  <2>2. CASE u = t
    <3>1. job'[u] = taken /\ taken[1] = j /\ j.msg = m
      BY <1>4, <1>5, <2>2
    <3>. QED
      BY <3>1, <2>2
  <2>3. CASE u # t
    BY <1>5, <2>1, <2>3 DEF Holds
  <2>. QED
    BY <2>2, <2>3
<1>9. Known(r)'
  BY <1>1, <1>3, <1>5, <1>8 DEF IInv, Known
<1>10. \A i \in DOMAIN inbox'[r] : m.number < inbox'[r][i].number
  BY <1>3, <1>5 DEF IInv, Ordered, Increasing
<1>11. Below(restored[r], m.number)
  BY <1>3 DEF IInv, Ordered
<1>12. Ordered(r)'
  <2>1. Increasing(inbox'[r])
    BY <1>3, <1>5 DEF IInv, Ordered, Increasing
  <2>2. \A i \in DOMAIN inbox'[r] : Below(restored[r], inbox'[r][i].number)
    BY <1>3, <1>5 DEF IInv, Ordered
  <2>3. \A i \in DOMAIN inbox'[r] : \A u \in Threads :
          Holds(u, r)' => job'[u][1].msg.number < inbox'[r][i].number
    BY <1>3, <1>5, <1>8, <1>10 DEF IInv, Ordered
  <2>4. Serial => \A u \in Threads : Holds(u, r)' => Below(restored[r], job'[u][1].msg.number)
    BY <1>8, <1>11 DEF IInv, Ordered
  <2>. QED
    BY <1>1, <2>1, <2>2, <2>3, <2>4 DEF IInv, Ordered, Serial
<1>13. \A u \in Threads : job'[u] # <<>> =>
         up' /\ u \in pool' /\ job'[u][1].robot \in ActiveRobots'
  BY <1>1, <1>4, <1>5, <1>14 DEF IInv, ActiveRobots
<1>. QED
  BY <1>1, <1>6, <1>7, <1>9, <1>12, <1>13 DEF IInv

\* What ending a callback leaves of the others.
LEMMA ReturnFacts ==
  ASSUME IInv, NEW t \in Threads, job[t] # <<>>, Return(t)
  PROVE  /\ job' \in [Threads -> Seq([robot : Robots, msg : Queued])]
         /\ \A u \in Threads : Len(job'[u]) <= 1
         /\ \A u \in Threads : job'[u] # <<>> => u # t /\ job'[u] = job[u]
         /\ \A u \in Threads : \A r \in Robots : Holds(u, r)' => Holds(u, r) /\ job'[u] = job[u] /\ u # t
<1>1. <<>> \in Seq([robot : Robots, msg : Queued]) /\ Len(<<>>) = 0
  OBVIOUS
<1>2. job' = [job EXCEPT ![t] = <<>>] /\ job \in [Threads -> Seq([robot : Robots, msg : Queued])]
  BY DEF Return, IInv, TypeOK
<1>3. job'[t] = <<>> /\ \A u \in Threads \ {t} : job'[u] = job[u]
  BY <1>2
<1>4. job' \in [Threads -> Seq([robot : Robots, msg : Queued])]
  BY <1>1, <1>2
<1>5. \A u \in Threads : Len(job'[u]) <= 1
  BY <1>1, <1>3, OneJob
<1>. QED
  BY <1>3, <1>4, <1>5 DEF Holds

LEMMA RejectIInv == ASSUME IInv, NEW t \in Threads, Reject(t) PROVE IInv'
<1>1. /\ job[t] # <<>> /\ Return(t)
      /\ UNCHANGED <<ignore_robot, pool, up, restarts, packed, latest, inbox, restored>>
  BY DEF Reject, network
<1>2. TypeOK'
  BY <1>1, ReturnFacts DEF IInv, TypeOK, ActiveRobots
<1>3. ASSUME NEW r \in Robots PROVE Known(r)' /\ Ordered(r)'
  BY <1>1, <1>3, ReturnFacts, Unaffected DEF IInv
<1>4. \A u \in Threads : job'[u] # <<>> =>
        up' /\ u \in pool' /\ job'[u][1].robot \in ActiveRobots'
  BY <1>1, ReturnFacts DEF IInv, ActiveRobots
<1>. QED
  BY <1>1, <1>2, <1>3, <1>4 DEF IInv

LEMMA PublishGridIInv == ASSUME IInv, NEW t \in Threads, PublishGrid(t) PROVE IInv'
<1>. DEFINE j == job[t][1]
            r == j.robot
            grid == [number |-> j.msg.number, map |-> Decompressed(j.msg.content)]
            longer == Append(restored[r], grid)
<1>1. /\ job[t] # <<>> /\ Return(t)
      /\ restored' = [restored EXCEPT ![r] = longer]
      /\ UNCHANGED <<ignore_robot, pool, up, restarts, packed, latest, inbox>>
  BY DEF PublishGrid, network
<1>2. /\ r \in Robots /\ j.msg \in Queued /\ j.msg.number \in Nat \ {0} /\ j.msg.content \in Message
      /\ up /\ t \in pool /\ Holds(t, r) /\ r \in ActiveRobots
  BY <1>1, ThreadTypes
<1>3. /\ grid \in Grid /\ grid.number = j.msg.number
      /\ restored \in [Robots -> Seq(Grid)] /\ restored[r] \in Seq(Grid)
  BY <1>2 DEF Grid, IInv
<1>. HIDE DEF grid
<1>4. /\ longer \in Seq(Grid) /\ longer # <<>> /\ Len(restored[r]) \in Nat
      /\ DOMAIN restored[r] = 1 .. Len(restored[r])
      /\ longer[Len(restored[r]) + 1] = grid
      /\ \A i \in DOMAIN restored[r] : i \in DOMAIN longer /\ longer[i] = restored[r][i]
      /\ \A i \in DOMAIN longer : i \in DOMAIN restored[r] \/ i = Len(restored[r]) + 1
  BY <1>3, AppendFacts
<1>. HIDE DEF longer, r
<1>5. restored' \in [Robots -> Seq(Grid)] /\ restored'[r] = longer
      /\ \A s \in Robots \ {r} : restored'[s] = restored[s]
  BY <1>1, <1>2, <1>3, <1>4
<1>6. TypeOK'
  <2>1. \A s \in Robots : restored'[s] # <<>> => up /\ s \in ActiveRobots
    <3>1. SUFFICES ASSUME NEW s \in Robots, restored'[s] # <<>> PROVE up /\ s \in ActiveRobots
      OBVIOUS
    <3>2. CASE s = r
      BY <1>2, <3>2
    <3>3. CASE s # r
      <4>1. restored[s] # <<>>
        BY <1>5, <3>1, <3>3
      <4>. QED
        BY <4>1 DEF IInv, TypeOK
    <3>. QED
      BY <3>2, <3>3
  <2>. QED
    BY <1>1, <2>1, ReturnFacts DEF IInv, TypeOK, ActiveRobots
<1>7. \A u \in Threads : \A s \in Robots :
        Holds(u, s)' => Holds(u, s) /\ job'[u] = job[u] /\ u # t
  BY <1>1, ReturnFacts
<1>8. ASSUME NEW s \in Robots, s # r PROVE Known(s)' /\ Ordered(s)'
  BY <1>1, <1>5, <1>7, <1>8, Unaffected DEF IInv
<1>9. Faithful(packed[r], j.msg)
  BY <1>2 DEF IInv, Known
<1>10. \A i \in DOMAIN longer : longer[i].number \in 1 .. Len(packed[r])
  BY <1>3, <1>4, <1>2, <1>9 DEF IInv, Known, Faithful
<1>11. \A i \in DOMAIN inbox[r] : j.msg.number < inbox[r][i].number
  BY <1>2 DEF IInv, Ordered
<1>12. Serial => Below(restored[r], j.msg.number)
  BY <1>2 DEF IInv, Ordered
<1>13. ASSUME NEW s \in Robots, s = r PROVE Known(s)' /\ Ordered(s)'
  <2>1. Known(s)'
    BY <1>1, <1>2, <1>5, <1>7, <1>10, <1>13 DEF IInv, Known
  <2>2. \A i \in DOMAIN inbox[r] : Below(longer, inbox[r][i].number)
    <3>1. \A i \in DOMAIN inbox[r] : Below(restored[r], inbox[r][i].number)
      BY <1>2 DEF IInv, Ordered
    <3>. QED
      BY <3>1, <1>3, <1>4, <1>11 DEF Below
  <2>3. Serial => Increasing(longer)
    <3>1. Serial => Increasing(restored[r])
      BY <1>2 DEF IInv, Ordered
    <3>2. SUFFICES ASSUME Serial, NEW i \in DOMAIN longer, NEW k \in 1 .. i - 1
                   PROVE  longer[k].number < longer[i].number
      BY DEF Increasing
    <3>3. CASE i \in DOMAIN restored[r]
      BY <3>1, <3>2, <3>3, <1>4 DEF Increasing
    <3>4. CASE i = Len(restored[r]) + 1
      BY <3>2, <3>4, <1>3, <1>4, <1>12 DEF Below
    <3>. QED
      BY <3>3, <3>4, <1>4
  <2>4. ASSUME Serial, NEW u \in Threads PROVE ~Holds(u, s)'
    BY <1>2, <1>7, <2>4 DEF IInv, Holds, Serial
  <2>. QED
    BY <1>1, <1>2, <1>5, <1>7, <1>13, <2>1, <2>2, <2>3, <2>4 DEF IInv, Ordered, Serial
<1>14. \A u \in Threads : job'[u] # <<>> =>
         up' /\ u \in pool' /\ job'[u][1].robot \in ActiveRobots'
  BY <1>1, ReturnFacts DEF IInv, ActiveRobots
<1>. QED
  BY <1>5, <1>6, <1>8, <1>13, <1>14 DEF IInv

LEMMA NextIInv == IInv /\ [Next]_vars => IInv'
<1>. SUFFICES ASSUME IInv, [Next]_vars PROVE IInv'
  OBVIOUS
<1>1. ASSUME NEW r \in Robots, NEW m \in Maps, RelayPublish(r, m) PROVE IInv'
  <2>1. Compressed(m) \in Message
    BY RoundTrip
  <2>. QED
    BY <1>1, <2>1, PublishIInv DEF RelayPublish
<1>2. ASSUME NEW r \in Robots, NEW b \in Broken, StrayPublish(r, b) PROVE IInv'
  <2>1. b \in Message
    BY DecompressorAssumption
  <2>. QED
    BY <1>2, <2>1, PublishIInv DEF StrayPublish
<1>3. CASE Start
  BY <1>3, StartIInv
<1>4. CASE Stop
  BY <1>4, StopIInv
<1>5. ASSUME NEW t \in Threads, NEW r \in Robots, Take(t, r) PROVE IInv'
  BY <1>5, TakeIInv
<1>6. ASSUME NEW t \in Threads, Reject(t) PROVE IInv'
  BY <1>6, RejectIInv
<1>7. ASSUME NEW t \in Threads, PublishGrid(t) PROVE IInv'
  BY <1>7, PublishGridIInv
<1>8. CASE UNCHANGED vars
  <2>1. TypeOK'
    BY <1>8 DEF IInv, TypeOK, vars, network, ActiveRobots
  <2>2. \A r \in Robots : Known(r)' /\ Ordered(r)'
    BY <1>8, Unaffected DEF IInv, vars, network, Holds
  <2>3. \A u \in Threads : job'[u] # <<>> =>
          up' /\ u \in pool' /\ job'[u][1].robot \in ActiveRobots'
    BY <1>8 DEF IInv, vars, network, ActiveRobots
  <2>. QED
    BY <1>8, <2>1, <2>2, <2>3 DEF IInv, vars
<1>. QED
  BY <1>1, <1>2, <1>3, <1>4, <1>5, <1>6, <1>7, <1>8 DEF Next

-----------------------------------------------------------------------------
(* What is restored, when what no relay packs does not look like a map     *)

\* Whatever fits and was sent is a map that a relay packed.
LEMMA FitsIsPacked ==
  ASSUME \A b \in Broken : ~Fits(b),
         NEW p, NEW m, Faithful(p, m), Fits(m.content)
  PROVE  Decompressed(m.content) \in p[m.number]
<1>1. PICK map \in Maps : p[m.number] = {map} /\ m.content = Compressed(map)
  BY DEF Faithful
<1>. QED
  BY <1>1, RoundTrip

LEMMA RestoredStep ==
  ASSUME \A b \in Broken : ~Fits(b), IInv, RestoredIsPacked, [Next]_vars
  PROVE  RestoredIsPacked'
<1>1. ASSUME NEW r \in Robots, NEW c, NEW maps \in SUBSET Maps, Publish(r, c, maps)
      PROVE  RestoredIsPacked'
  <2>1. packed' = [packed EXCEPT ![r] = Append(@, maps)] /\ restored' = restored
    BY <1>1 DEF Publish
  <2>2. packed[r] \in Seq(SUBSET Maps) /\ DOMAIN packed = Robots
    BY RobotTypes DEF IInv, TypeOK
  <2>3. \A i \in 1 .. Len(packed[r]) : packed'[r][i] = packed[r][i]
    BY <2>1, <2>2, AppendFacts
  <2>4. \A s \in Robots \ {r} : packed'[s] = packed[s]
    BY <2>1, <2>2
  <2>5. \A i \in DOMAIN restored[r] : restored[r][i].number \in 1 .. Len(packed[r])
    BY DEF IInv, Known
  <2>. QED
    BY <2>1, <2>3, <2>4, <2>5 DEF RestoredIsPacked
<1>2. ASSUME NEW t \in Threads, PublishGrid(t) PROVE RestoredIsPacked'
  <2>. DEFINE j == job[t][1]
              r == j.robot
              grid == [number |-> j.msg.number, map |-> Decompressed(j.msg.content)]
  <2>1. /\ job[t] # <<>> /\ Fits(j.msg.content)
        /\ restored' = [restored EXCEPT ![r] = Append(@, grid)] /\ packed' = packed
    BY <1>2 DEF PublishGrid, network
  <2>2. r \in Robots /\ Faithful(packed[r], j.msg) /\ j.msg \in Queued
        /\ j.msg.number \in Nat \ {0} /\ j.msg.content \in Message
    BY <2>1, ThreadTypes DEF IInv, Known
  <2>3. grid.map \in packed[r][grid.number] /\ grid \in Grid
    BY <2>1, <2>2, FitsIsPacked DEF Grid
  <2>4. restored \in [Robots -> Seq(Grid)]
    BY DEF IInv
  <2>. HIDE DEF grid, r
  <2>5. \A i \in DOMAIN Append(restored[r], grid) :
          \/ i \in DOMAIN restored[r] /\ Append(restored[r], grid)[i] = restored[r][i]
          \/ Append(restored[r], grid)[i] = grid
    BY <2>2, <2>3, <2>4, AppendFacts
  <2>6. restored'[r] = Append(restored[r], grid)
        /\ \A s \in Robots \ {r} : restored'[s] = restored[s]
    BY <2>1, <2>2, <2>4
  <2>7. ASSUME NEW s \in Robots, NEW i \in DOMAIN restored'[s]
        PROVE  restored'[s][i].map \in packed[s][restored'[s][i].number]
    <3>1. CASE s = r
      BY <2>3, <2>5, <2>6, <2>7, <3>1 DEF RestoredIsPacked
    <3>2. CASE s # r
      BY <2>6, <2>7, <3>2 DEF RestoredIsPacked
    <3>. QED
      BY <3>1, <3>2
  <2>. QED
    BY <2>1, <2>7 DEF RestoredIsPacked
<1>3. ASSUME Stop PROVE RestoredIsPacked'
  <2>1. \A r \in Robots : restored'[r] = <<>>
    BY <1>3 DEF Stop
  <2>2. \A i \in DOMAIN <<>> : FALSE
    OBVIOUS
  <2>. QED
    BY <2>1, <2>2 DEF RestoredIsPacked
<1>4. CASE UNCHANGED <<packed, restored>>
  BY <1>4 DEF RestoredIsPacked
<1>. QED
  <2>1. \A m \in Maps : {m} \in SUBSET Maps
    OBVIOUS
  <2>2. {} \in SUBSET Maps
    OBVIOUS
  <2>3. ASSUME NEW r \in Robots, NEW m \in Maps, RelayPublish(r, m) PROVE RestoredIsPacked'
    BY <2>1, <2>3, <1>1 DEF RelayPublish
  <2>4. ASSUME NEW r \in Robots, NEW b \in Broken, StrayPublish(r, b) PROVE RestoredIsPacked'
    BY <2>2, <2>4, <1>1 DEF StrayPublish
  <2>5. CASE Start
    BY <2>5, <1>4 DEF Start
  <2>6. ASSUME NEW t \in Threads, NEW r \in Robots, Take(t, r) PROVE RestoredIsPacked'
    BY <2>6, <1>4 DEF Take
  <2>7. ASSUME NEW t \in Threads, Reject(t) PROVE RestoredIsPacked'
    BY <2>7, <1>4 DEF Reject, network
  <2>8. CASE UNCHANGED vars
    BY <2>8, <1>4 DEF vars, network
  <2>. QED
    BY <2>3, <2>4, <2>5, <2>6, <2>7, <2>8, <1>2, <1>3 DEF Next

-----------------------------------------------------------------------------
(* The theorems                                                            *)

\* The inductive invariant: every message that waits or is being decompressed
\* was sent and is in the order of the others, grids only up to those under way.
THEOREM Invariance == Spec => []IInv
BY InitIInv, NextIInv, PTL DEF Spec

\* Queues stay within their depth and ignored robots are not served, for every
\* number of threads and restarts (lines 22-68).
THEOREM TypeCorrect == Spec => []TypeOK
<1>1. IInv => TypeOK
  BY DEF IInv
<1>. QED
  BY <1>1, Invariance, PTL

\* For every number of threads a grid is overtaken only by one whose callback
\* ran beside its own, and with one thread none is (lines 29-65).
THEOREM OrderCorrect == Spec => []OvertakenOnlyByOverlap
<1>1. IInv => OvertakenOnlyByOverlap
  BY DEF IInv, Ordered, Increasing, Below, Holds, OvertakenOnlyByOverlap
<1>. QED
  BY <1>1, Invariance, PTL

\* For every number of threads a grid is the map packed in its message, provided
\* that what no relay packs does not have the form of a packed map
\* (lines 73-116, and lines 162-192 of relay_node.py).
THEOREM RestorationCorrect ==
  ASSUME \A b \in Broken : ~Fits(b)
  PROVE  Spec => []RestoredIsPacked
<1>1. Init => RestoredIsPacked
  <2>1. \A i \in DOMAIN <<>> : FALSE
    OBVIOUS
  <2>. QED
    BY <2>1 DEF Init, RestoredIsPacked
<1>2. IInv /\ RestoredIsPacked /\ [Next]_vars => RestoredIsPacked'
  BY RestoredStep
<1>. QED
  BY <1>1, <1>2, Invariance, PTL DEF Spec

-----------------------------------------------------------------------------
(* The promise of Channel                                                  *)

\* A message is in the hands of one thread at most, and was not restored before.
Once(r) ==
  \A t \in Threads : Holds(t, r) =>
    /\ \A i \in DOMAIN restored[r] : restored[r][i].number # job[t][1].msg.number
    /\ \A u \in Threads \ {t} : Holds(u, r) => job[u][1].msg.number # job[t][1].msg.number

OnceInv == \A r \in Robots : Once(r)

LEMMA OnceUnaffected ==
  ASSUME NEW s \in Robots, Once(s), restored'[s] = restored[s],
         \A u \in Threads : Holds(u, s)' => Holds(u, s) /\ job'[u] = job[u]
  PROVE  Once(s)'
BY DEF Once

LEMMA TakeOnce ==
  ASSUME IInv, OnceInv, NEW t \in Threads, NEW r \in Robots, Take(t, r)
  PROVE  OnceInv'
<1>. DEFINE m == Head(inbox[r])
<1>1. /\ inbox[r] # <<>> /\ restored' = restored
      /\ job' = [job EXCEPT ![t] = <<[robot |-> r, msg |-> m]>>] /\ DOMAIN job = Threads
  BY DEF Take, IInv, TypeOK
<1>2. m = inbox[r][1] /\ 1 \in DOMAIN inbox[r] /\ m \in Queued
  BY <1>1, RobotTypes, TailFacts
<1>. HIDE DEF m
<1>3. /\ job'[t][1].robot = r /\ job'[t][1].msg = m
      /\ \A u \in Threads \ {t} : job'[u] = job[u]
  BY <1>1
<1>4. /\ m.number \in Nat
      /\ \A i \in DOMAIN restored[r] : restored[r][i].number < m.number
      /\ \A i \in DOMAIN restored[r] : restored[r][i].number \in Nat
      /\ \A u \in Threads : Holds(u, r) =>
           job[u][1].msg.number < m.number /\ job[u][1].msg.number \in Nat
  <2>1. \A u \in Threads : Holds(u, r) => job[u][1].msg.number \in Nat
    BY ThreadTypes DEF Holds
  <2>2. \A i \in DOMAIN restored[r] : restored[r][i].number \in Nat
    BY RobotTypes DEF IInv, Known
  <2>. QED
    BY <1>2, <2>1, <2>2 DEF IInv, Ordered, Below, Queued
<1>5. ASSUME NEW s \in Robots \ {r} PROVE Once(s)'
  <2>1. \A u \in Threads : Holds(u, s)' => Holds(u, s) /\ job'[u] = job[u]
    BY <1>3, <1>5 DEF Holds
  <2>. QED
    BY <1>1, <2>1, <1>5, OnceUnaffected DEF OnceInv
<1>6. Once(r)'
  <2>1. \A u \in Threads \ {t} : Holds(u, r)' => Holds(u, r) /\ job'[u] = job[u]
    BY <1>3 DEF Holds
  <2>2. \A i \in DOMAIN restored[r] : restored[r][i].number # m.number
    BY <1>4
  <2>3. \A u \in Threads \ {t} : Holds(u, r)' => job'[u][1].msg.number # m.number
    BY <1>4, <2>1
  <2>4. SUFFICES ASSUME NEW u \in Threads, Holds(u, r)'
                 PROVE  /\ \A i \in DOMAIN restored[r] : restored[r][i].number # job'[u][1].msg.number
                        /\ \A v \in Threads \ {u} : Holds(v, r)' =>
                             job'[v][1].msg.number # job'[u][1].msg.number
    BY <1>1 DEF Once
  <2>5. CASE u = t
    BY <1>3, <2>2, <2>3, <2>5
  <2>6. CASE u # t
    <3>1. Holds(u, r) /\ job'[u] = job[u]
      BY <2>1, <2>4, <2>6
    <3>2. \A i \in DOMAIN restored[r] : restored[r][i].number # job'[u][1].msg.number
      BY <3>1 DEF OnceInv, Once
    <3>3. ASSUME NEW v \in Threads \ {u}, Holds(v, r)', v # t
          PROVE  job'[v][1].msg.number # job'[u][1].msg.number
      BY <2>1, <3>1, <3>3 DEF OnceInv, Once
    <3>4. job'[t][1].msg.number # job'[u][1].msg.number
      BY <1>3, <2>3, <2>4, <2>6
    <3>. QED
      BY <3>2, <3>3, <3>4
  <2>. QED
    BY <2>5, <2>6
<1>. QED
  BY <1>5, <1>6 DEF OnceInv

LEMMA PublishGridOnce ==
  ASSUME IInv, OnceInv, NEW t \in Threads, PublishGrid(t)
  PROVE  OnceInv'
<1>. DEFINE r == job[t][1].robot
            grid == [number |-> job[t][1].msg.number, map |-> Decompressed(job[t][1].msg.content)]
<1>1. /\ job[t] # <<>> /\ Return(t)
      /\ restored' = [restored EXCEPT ![r] = Append(@, grid)]
  BY DEF PublishGrid
<1>2. /\ r \in Robots /\ Holds(t, r) /\ grid \in Grid /\ grid.number = job[t][1].msg.number
      /\ restored \in [Robots -> Seq(Grid)]
  BY <1>1, ThreadTypes DEF Grid, IInv
<1>. HIDE DEF r, grid
<1>3. /\ restored'[r] = Append(restored[r], grid)
      /\ \A s \in Robots \ {r} : restored'[s] = restored[s]
  BY <1>1, <1>2
<1>4. \A i \in DOMAIN restored'[r] :
        (i \in DOMAIN restored[r] /\ restored'[r][i] = restored[r][i]) \/ restored'[r][i] = grid
  BY <1>2, <1>3, AppendFacts
<1>5. \A u \in Threads : \A s \in Robots :
        Holds(u, s)' => Holds(u, s) /\ job'[u] = job[u] /\ u # t
  BY <1>1, ReturnFacts
<1>6. ASSUME NEW s \in Robots \ {r} PROVE Once(s)'
  BY <1>3, <1>5, OnceUnaffected DEF OnceInv
<1>7. ASSUME NEW s \in Robots, s = r PROVE Once(s)'
  <2>1. Once(s) /\ Holds(t, s) /\ grid.number = job[t][1].msg.number
    BY <1>2, <1>7 DEF OnceInv
  <2>2. SUFFICES ASSUME NEW u \in Threads, Holds(u, s)'
                 PROVE  /\ \A i \in DOMAIN restored'[s] : restored'[s][i].number # job'[u][1].msg.number
                        /\ \A v \in Threads \ {u} : Holds(v, s)' =>
                             job'[v][1].msg.number # job'[u][1].msg.number
    BY DEF Once
  <2>3. Holds(u, s) /\ job'[u] = job[u] /\ u # t
    BY <1>5, <2>2
  <2>4. /\ \A i \in DOMAIN restored[s] : restored[s][i].number # job[u][1].msg.number
        /\ grid.number # job[u][1].msg.number
    BY <2>1, <2>3 DEF Once
  <2>5. \A i \in DOMAIN restored'[s] : restored'[s][i].number # job'[u][1].msg.number
    BY <1>4, <1>7, <2>3, <2>4
  <2>6. \A v \in Threads \ {u} : Holds(v, s)' => job'[v][1].msg.number # job'[u][1].msg.number
    BY <1>5, <2>1, <2>3 DEF Once
  <2>. QED
    BY <2>5, <2>6
<1>. QED
  BY <1>6, <1>7 DEF OnceInv

LEMMA NextOnce ==
  ASSUME IInv, OnceInv, [Next]_vars
  PROVE  OnceInv'
<1>1. ASSUME UNCHANGED <<job, restored>> PROVE OnceInv'
  BY <1>1 DEF OnceInv, Once, Holds
<1>2. ASSUME NEW t \in Threads, Reject(t) PROVE OnceInv'
  <2>1. restored' = restored /\ job[t] # <<>> /\ Return(t)
    BY <1>2 DEF Reject
  <2>. QED
    BY <2>1, ReturnFacts, OnceUnaffected DEF OnceInv
<1>3. CASE Stop
  <2>1. \A t \in Threads : job'[t] = <<>>
    BY <1>3 DEF Stop
  <2>. QED
    BY <2>1 DEF OnceInv, Once, Holds
<1>4. CASE UNCHANGED vars
  BY <1>1, <1>4 DEF vars
<1>5. ASSUME NEW r \in Robots, NEW c, NEW maps, Publish(r, c, maps) PROVE OnceInv'
  BY <1>1, <1>5 DEF Publish
<1>6. CASE Start
  BY <1>1, <1>6 DEF Start
<1>. QED
  BY <1>2, <1>3, <1>4, <1>5, <1>6, TakeOnce, PublishGridOnce DEF Next, RelayPublish, StrayPublish

LEMMA InitPromise == Init => OnceInv /\ Promise!Init
<1>. SUFFICES ASSUME Init PROVE OnceInv /\ Promise!Init
  OBVIOUS
<1>1. OnceInv
  BY DEF Init, OnceInv, Once, Holds
<1>2. Serial \in BOOLEAN
  BY DEF Serial
<1>. QED
  BY <1>1, <1>2 DEF Init, Promise!Init, Promise!Nothing

LEMMA StepPromise ==
  ASSUME \A b \in Broken : ~Fits(b), IInv, OnceInv, [Next]_vars
  PROVE  [Promise!Next]_<<Serial, packed, restored>>
<1>1. pool' = pool
  BY DEF Next, RelayPublish, StrayPublish, Publish, Start, Stop, Take, Reject, PublishGrid, vars
<1>2. Serial' = Serial
  BY <1>1 DEF Serial
<1>3. CASE UNCHANGED <<packed, restored>>
  BY <1>2, <1>3
<1>4. ASSUME NEW r \in Robots, NEW c, NEW maps, Publish(r, c, maps),
             maps = {} \/ \E m \in Maps : maps = {m}
      PROVE  Promise!Next
  BY <1>2, <1>4 DEF Publish, Promise!Send, Promise!Next
<1>5. CASE Stop
  BY <1>2, <1>5 DEF Stop, Promise!Restart, Promise!Nothing, Promise!Next
<1>6. ASSUME NEW t \in Threads, PublishGrid(t) PROVE Promise!Next
  <2>. DEFINE r == job[t][1].robot
              n == job[t][1].msg.number
              m == Decompressed(job[t][1].msg.content)
  <2>1. /\ job[t] # <<>> /\ Fits(job[t][1].msg.content)
        /\ restored' = [restored EXCEPT ![r] = Append(@, [number |-> n, map |-> m])]
        /\ packed' = packed
    BY <1>6 DEF PublishGrid, network
  <2>2. /\ r \in Robots /\ Holds(t, r) /\ Faithful(packed[r], job[t][1].msg)
        /\ packed[r] \in Seq(SUBSET Maps)
    BY <2>1, ThreadTypes, RobotTypes DEF IInv, Known
  <2>3. n \in DOMAIN packed[r]
    BY <2>2 DEF Faithful
  <2>4. m \in packed[r][n]
    BY <2>1, <2>2, FitsIsPacked
  <2>5. Promise!Fresh(r, n)
    <3>1. \A i \in DOMAIN restored[r] : restored[r][i].number # n
      BY <2>2 DEF OnceInv, Once
    <3>2. Serial => \A i \in DOMAIN restored[r] : restored[r][i].number < n
      BY <2>2 DEF IInv, Ordered, Below
    <3>. QED
      BY <3>1, <3>2 DEF Promise!Fresh
  <2>. HIDE DEF r, n, m
  <2>6. Promise!Show(r)
    BY <1>2, <2>1, <2>3, <2>4, <2>5 DEF Promise!Show
  <2>. QED
    BY <2>2, <2>6 DEF Promise!Next
<1>. QED
  <2>1. ASSUME NEW r \in Robots, NEW m \in Maps, RelayPublish(r, m) PROVE Promise!Next
    BY <1>4, <2>1 DEF RelayPublish
  <2>2. ASSUME NEW r \in Robots, NEW b \in Broken, StrayPublish(r, b) PROVE Promise!Next
    BY <1>4, <2>2 DEF StrayPublish
  <2>3. ASSUME Start \/ (\E t \in Threads : (\E r \in Robots : Take(t, r)) \/ Reject(t)) \/ UNCHANGED vars
        PROVE  UNCHANGED <<packed, restored>>
    BY <2>3 DEF Start, Take, Reject, network, vars
  <2>. QED
    BY <1>3, <1>5, <1>6, <2>1, <2>2, <2>3 DEF Next

\* For every number of threads and restarts the node implements Channel: no
\* process restores a message twice, and one with one thread restores in order;
\* the hypothesis is that of RestorationCorrect (lines 27-117).
THEOREM Refinement ==
  ASSUME \A b \in Broken : ~Fits(b)
  PROVE  Spec => KeepsPromise
<1>1. IInv /\ OnceInv /\ [Next]_vars => OnceInv'
  BY NextOnce
<1>2. IInv /\ OnceInv /\ [Next]_vars => [Promise!Next]_<<Serial, packed, restored>>
  BY StepPromise
<1>. QED
  BY <1>1, <1>2, InitPromise, Invariance, PTL DEF Spec, KeepsPromise, Promise!Spec
=============================================================================
