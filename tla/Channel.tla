------------------------------ MODULE Channel ------------------------------
(***************************************************************************)
(* What the decompressor promises to the canvases behind it, with no       *)
(* queue, no thread and no packing: of each robot it shows maps that the   *)
(* robot sent, each at most once, and in the order they were sent if       *)
(* in_order.  It may skip any of them, and begins anew when it restarts.   *)
(***************************************************************************)
EXTENDS Integers, Sequences

CONSTANTS Robots, Maps

VARIABLES
  in_order,  \* never changes
  sent,      \* of each robot: its messages, each {map}, or {} if it is no map
  shown      \* of each robot: the maps shown, each with the number of its message

Nothing == [r \in Robots |-> <<>>]

Init ==
  /\ in_order \in BOOLEAN
  /\ sent = Nothing
  /\ shown = Nothing

Send(r) ==
  /\ \E message \in {{}} \cup {{m} : m \in Maps} : sent' = [sent EXCEPT ![r] = Append(@, message)]
  /\ UNCHANGED <<in_order, shown>>

\* Neither shown before nor, in order, overtaken by another.
Fresh(r, n) ==
  \A i \in DOMAIN shown[r] : shown[r][i].number # n /\ (in_order => shown[r][i].number < n)

Show(r) ==
  /\ \E n \in DOMAIN sent[r] :
       /\ Fresh(r, n)
       /\ \E m \in sent[r][n] : shown' = [shown EXCEPT ![r] = Append(@, [number |-> n, map |-> m])]
  /\ UNCHANGED <<in_order, sent>>

Restart ==
  /\ shown' = Nothing
  /\ UNCHANGED <<in_order, sent>>

Next == Restart \/ \E r \in Robots : Send(r) \/ Show(r)

Spec == Init /\ [][Next]_<<in_order, sent, shown>>
=============================================================================
