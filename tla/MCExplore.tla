----------------------------- MODULE MCExplore ------------------------------
(* Explore in a corridor of 12 by 2 cells of 5 cm, unknown at both ends, with *)
(* its right end at the origin of the map.                                    *)
EXTENDS Explore

\* The centroid of a frontier in quarters of a centimetre, and its distance.
End(at, far) == [at |-> at, far |-> far]

\* The left end, which creeps as the robot sees more of the walls beside it.
Left == {<<-110, 0>>, <<-108, 0>>, <<-106, 0>>}
MCOrigin == <<0, 0>>
MCPlaces == Left \cup {MCOrigin}

\* What a search returns near the left end; nearer, where it crept; as far
\* again, where it crept on; and near the right end.
MCViews ==
  {<<End(<<-110, 0>>, 28)>>,
   <<End(<<-108, 0>>, 20), End(MCOrigin, 190)>>,
   <<End(<<-106, 0>>, 28)>>,
   <<End(MCOrigin, 82)>>}

\* Less than a centimetre: the left end seen first and last is not the same point.
MCSame ==
  {<<p, q>> \in MCPlaces \X MCPlaces :
     LET dx == p[1] - q[1]
         dy == p[2] - q[2]
     IN  dx * dx + dy * dy < 16}

\* Less than five cells in both directions.
MCNear ==
  {<<p, q>> \in MCPlaces \X MCPlaces :
     \A axis \in 1 .. 2 : p[axis] - q[axis] \in -99 .. 99}
=============================================================================
