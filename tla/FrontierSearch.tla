--------------------------- MODULE FrontierSearch ---------------------------
(***************************************************************************)
(* frontier_search.cpp and costmap_tools.h: the frontiers of a costmap, as *)
(* three breadth-first searches find them from the robot's cell.  One step *)
(* takes a cell from a queue or looks at one of its neighbours.            *)
(*                                                                         *)
(* A costmap has w by h cells, cost[i] of cell i.  Distances are in units  *)
(* of 1/Fine half cell, rounded down; they and the sizes order the         *)
(* frontiers.  The centroid, which orders nothing, is left out.            *)
(***************************************************************************)
EXTENDS Integers, Sequences, FiniteSets, SequencesExt

CONSTANTS
  Calls,            \* of searchFrom: [map, pos], pos the robot's cell or OffMap
  MinSize,          \* min_frontier_size, in cells
  Potential, Gain,  \* potential_scale and gain_scale
  Fine

FREE_SPACE == 0
NO_INFORMATION == 255

Cells(c) == 0 .. c.w * c.h - 1
OffMap == -1

ASSUME FrontierSearchAssumption ==
  /\ \A k \in Calls :
       LET c == k.map
       IN  /\ c.w \in Nat \ {0} /\ c.h \in Nat \ {0}
           /\ c.cost \in [Cells(c) -> 0 .. 255]
           /\ k.pos \in Cells(c) \cup {OffMap}
  /\ MinSize \in Nat /\ Potential \in Nat /\ Gain \in Nat /\ Fine \in Nat \ {0}

VARIABLES
  map, pos,               \* what searchFrom is called on
  phase,                  \* which loop runs, or "returned"
  bfs, visited,           \* of nearestCell, then of searchFrom: queue and visited_flag
  nbr_of, nbrs,           \* the cell last taken from bfs, and its neighbours still to look at
  flagged,                \* frontier_flag
  frontier,               \* the one that buildNewFrontier builds
  edge_bfs, edge_nbrs,    \* its queue, and the neighbours still to look at
  frontier_list

call == <<map, pos>>
search == <<bfs, visited, nbr_of, nbrs>>
build == <<flagged, frontier, edge_bfs, edge_nbrs>>
vars == <<call, phase, search, build, frontier_list>>

-----------------------------------------------------------------------------
(* costmap_tools.h                                                         *)

If(test, i) == IF test THEN <<i>> ELSE <<>>

\* Mutants: rows are not told apart; the map has a row too many.
nhood4Wraps(c, i) ==
  If(i > 0, i - 1) \o If(i < c.w * c.h - 1, i + 1)
  \o If(i >= c.w, i - c.w) \o If(i < c.w * (c.h - 1), i + c.w)

nhood4Below(c, i) ==
  If(i % c.w > 0, i - 1) \o If(i % c.w < c.w - 1, i + 1)
  \o If(i >= c.w, i - c.w) \o If(i < c.w * c.h, i + c.w)

nhood4(c, i) ==
  If(i % c.w > 0, i - 1) \o If(i % c.w < c.w - 1, i + 1)
  \o If(i >= c.w, i - c.w) \o If(i < c.w * (c.h - 1), i + c.w)

nhood8(c, i) ==
  LET left == i % c.w > 0
      right == i % c.w < c.w - 1
      above == i >= c.w
      below == i < c.w * (c.h - 1)
  IN  nhood4(c, i)
      \o If(left /\ above, i - 1 - c.w) \o If(left /\ below, i - 1 + c.w)
      \o If(right /\ above, i + 1 - c.w) \o If(right /\ below, i + 1 + c.w)

-----------------------------------------------------------------------------
(* What a frontier is                                                      *)

IsFrontierCell(c, i) ==
  c.cost[i] = NO_INFORMATION /\ \E n \in ToSet(nhood4(c, i)) : c.cost[n] = FREE_SPACE

\* The initial cell and the points: every cell of a frontier.
CellsOf(f) == {f.initial} \cup ToSet(f.points)

Frontiers(c) == [initial : Cells(c), points : Seq(Cells(c))]

Size(f) == Len(f.points) + 1

\* In half cells, from the corner of the map.
Centre(c, i) == <<2 * (i % c.w) + 1, 2 * (i \div c.w) + 1>>

\* The square of a distance, and its root in units of 1/Fine.
Square(p, q) == (p[1] - q[1]) * (p[1] - q[1]) + (p[2] - q[2]) * (p[2] - q[2])
Root(n) ==
  CHOOSE r \in 0 .. n * Fine : r * r <= n * Fine * Fine /\ (r + 1) * (r + 1) > n * Fine * Fine

Infinity == 10 ^ 8

MinDistance(c, f, reference) ==
  LET far == {Root(Square(Centre(c, i), Centre(c, reference))) : i \in ToSet(f.points)}
  IN  IF far = {} THEN Infinity ELSE CHOOSE d \in far : \A e \in far : d <= e

frontierCost(c, f, reference) == Potential * MinDistance(c, f, reference) - Gain * Size(f)

-----------------------------------------------------------------------------
(* nearestCell                                                             *)

\* A robot out of bounds: the empty list.
Init ==
  /\ \E k \in Calls : map = k.map /\ pos = k.pos
  /\ phase = IF pos = OffMap THEN "returned" ELSE "nearest"
  /\ bfs = <<pos>> /\ visited = {pos}
  /\ nbr_of = pos /\ nbrs = <<>>
  /\ flagged = {}
  /\ frontier = [initial |-> pos, points |-> <<>>]
  /\ edge_bfs = <<>> /\ edge_nbrs = <<>>
  /\ frontier_list = <<>>

\* bfs.push(start), visited_flag[start] = true
SearchStarts(start) ==
  /\ phase' = "search"
  /\ bfs' = <<start>> /\ visited' = {start}
  /\ UNCHANGED <<call, nbr_of, nbrs, build, frontier_list>>

\* No cell is clear: the search starts where the robot is.
NoneIsClear ==
  /\ phase = "nearest" /\ nbrs = <<>> /\ bfs = <<>>
  /\ SearchStarts(pos)

FindsClear ==
  /\ phase = "nearest" /\ nbrs = <<>> /\ bfs # <<>>
  /\ map.cost[Head(bfs)] = FREE_SPACE
  /\ SearchStarts(Head(bfs))

\* The cell at the head of the queue is taken, and its neighbours are next.
TakesCell(nhood) ==
  /\ nbrs = <<>> /\ bfs # <<>>
  /\ nbr_of' = Head(bfs) /\ nbrs' = nhood /\ bfs' = Tail(bfs)
  /\ UNCHANGED <<call, phase, visited, build, frontier_list>>

LooksAround ==
  /\ phase = "nearest"
  /\ bfs # <<>> /\ map.cost[Head(bfs)] # FREE_SPACE
  /\ TakesCell(nhood8(map, Head(bfs)))

Visits(nbr) == visited' = visited \cup {nbr} /\ bfs' = Append(bfs, nbr)

Reaches ==
  /\ phase = "nearest" /\ nbrs # <<>>
  /\ IF Head(nbrs) \notin visited THEN Visits(Head(nbrs)) ELSE UNCHANGED <<bfs, visited>>
  /\ nbrs' = Tail(nbrs)
  /\ UNCHANGED <<call, phase, nbr_of, build, frontier_list>>

-----------------------------------------------------------------------------
(* searchFrom                                                              *)

Expands ==
  /\ phase = "search" /\ bfs # <<>>
  /\ TakesCell(nhood4(map, Head(bfs)))

\* Mutants: a cell that was visited is visited again; a cell that is a frontier's
\* is taken for one more frontier.
DescendsAgain(nbr) == map.cost[nbr] <= map.cost[nbr_of]
IsFrontierCellAgain(nbr) == IsFrontierCell(map, nbr)

Descends(nbr) == map.cost[nbr] <= map.cost[nbr_of] /\ nbr \notin visited

IsNewFrontierCell(nbr) == IsFrontierCell(map, nbr) /\ nbr \notin flagged

\* A free cell that was not visited.
Advances ==
  /\ phase = "search" /\ nbrs # <<>>
  /\ Descends(Head(nbrs))
  /\ Visits(Head(nbrs))
  /\ nbrs' = Tail(nbrs)
  /\ UNCHANGED <<call, phase, nbr_of, build, frontier_list>>

\* A new frontier: the start of buildNewFrontier.
MeetsFrontier ==
  /\ phase = "search" /\ nbrs # <<>>
  /\ ~Descends(Head(nbrs)) /\ IsNewFrontierCell(Head(nbrs))
  /\ phase' = "build"
  /\ flagged' = flagged \cup {Head(nbrs)}
  /\ frontier' = [initial |-> Head(nbrs), points |-> <<>>]
  /\ edge_bfs' = <<Head(nbrs)>>
  /\ nbrs' = Tail(nbrs)
  /\ UNCHANGED <<call, bfs, visited, nbr_of, edge_nbrs, frontier_list>>

PassesBy ==
  /\ phase = "search" /\ nbrs # <<>>
  /\ ~Descends(Head(nbrs)) /\ ~IsNewFrontierCell(Head(nbrs))
  /\ nbrs' = Tail(nbrs)
  /\ UNCHANGED <<call, phase, bfs, visited, nbr_of, build, frontier_list>>

\* std::sort, which is not stable: any order of rising cost.
Returns ==
  /\ phase = "search" /\ nbrs = <<>> /\ bfs = <<>>
  /\ phase' = "returned"
  /\ \E p \in Bijection(DOMAIN frontier_list, DOMAIN frontier_list) :
       frontier_list' = [i \in DOMAIN frontier_list |-> frontier_list[p[i]]]
  /\ \A i \in 2 .. Len(frontier_list) :
       frontierCost(map, frontier_list'[i - 1], pos) <= frontierCost(map, frontier_list'[i], pos)
  /\ UNCHANGED <<call, search, build>>

-----------------------------------------------------------------------------
(* buildNewFrontier                                                        *)

Follows ==
  /\ phase = "build" /\ edge_nbrs = <<>> /\ edge_bfs # <<>>
  /\ edge_nbrs' = nhood8(map, Head(edge_bfs)) /\ edge_bfs' = Tail(edge_bfs)
  /\ UNCHANGED <<call, phase, search, flagged, frontier, frontier_list>>

Grows ==
  /\ phase = "build" /\ edge_nbrs # <<>>
  /\ LET nbr == Head(edge_nbrs)
     IN  IF IsNewFrontierCell(nbr)
         THEN /\ flagged' = flagged \cup {nbr}
              /\ frontier' = [frontier EXCEPT !.points = Append(@, nbr)]
              /\ edge_bfs' = Append(edge_bfs, nbr)
         ELSE UNCHANGED <<flagged, frontier, edge_bfs>>
  /\ edge_nbrs' = Tail(edge_nbrs)
  /\ UNCHANGED <<call, phase, search, frontier_list>>

\* buildNewFrontier returns, and searchFrom keeps what is large enough.
Finishes ==
  /\ phase = "build" /\ edge_nbrs = <<>> /\ edge_bfs = <<>>
  /\ phase' = "search"
  /\ frontier_list' = IF Size(frontier) >= MinSize THEN Append(frontier_list, frontier)
                                                    ELSE frontier_list
  /\ UNCHANGED <<call, search, build>>

-----------------------------------------------------------------------------
NearestCell == NoneIsClear \/ FindsClear \/ LooksAround \/ Reaches
SearchFrom == Expands \/ Advances \/ MeetsFrontier \/ PassesBy \/ Returns
BuildNewFrontier == Follows \/ Grows \/ Finishes

Next == NearestCell \/ SearchFrom \/ BuildNewFrontier

Spec == Init /\ [][Next]_vars

\* Nothing holds the search up.
FairSpec == Spec /\ WF_vars(Next)

-----------------------------------------------------------------------------
(* Properties                                                              *)

Column(c, i) == i % c.w
Row(c, i) == i \div c.w
Gap(m, n) == IF m < n THEN n - m ELSE m - n

\* Cells that share a side, and cells that share a side or a corner.
Adjacent4(c) ==
  {p \in Cells(c) \X Cells(c) :
     Gap(Column(c, p[1]), Column(c, p[2])) + Gap(Row(c, p[1]), Row(c, p[2])) = 1}

\* The moves of a king from cell i to cell j.
Moves(c, i, j) ==
  LET dx == Gap(Column(c, i), Column(c, j))
      dy == Gap(Row(c, i), Row(c, j))
  IN  IF dx < dy THEN dy ELSE dx

Adjacent8(c) == {p \in Cells(c) \X Cells(c) : Moves(c, p[1], p[2]) = 1}

\* A connected component of the graph: nothing of it can be cut off, and it
\* cannot be extended.
IsComponent(S, nodes, adjacent) ==
  /\ S # {} /\ S \subseteq nodes
  /\ \A i \in S, j \in nodes \ S : <<i, j>> \notin adjacent
  /\ \A T \in SUBSET S : T # {} /\ T # S => \E i \in T, j \in S \ T : <<i, j>> \in adjacent

Free(c) == {i \in Cells(c) : c.cost[i] = FREE_SPACE}
Edge(c) ==
  {i \in Cells(c) : c.cost[i] = NO_INFORMATION /\ \E j \in Free(c) : <<i, j>> \in Adjacent4(c)}

\* One of the free rooms that hold a free cell nearest to cell i.
IsNearestRoom(c, i, room) ==
  /\ IsComponent(room, Free(c), Adjacent4(c))
  /\ \E j \in room : \A k \in Free(c) : Moves(c, j, i) <= Moves(c, k, i)

Bordering(c, room) ==
  {e \in SUBSET Edge(c) : /\ IsComponent(e, Edge(c), Adjacent8(c))
                          /\ Cardinality(e) >= MinSize
                          /\ \E i \in e, j \in room : <<i, j>> \in Adjacent4(c)}

\* Every queue holds cells of the map only, so that no flag and no cost is read
\* or written outside its array.
TypeOK ==
  /\ map.w \in Nat \ {0} /\ map.h \in Nat \ {0} /\ map.cost \in [Cells(map) -> 0 .. 255]
  /\ pos \in Cells(map) \cup {OffMap}
  /\ phase \in {"nearest", "search", "build", "returned"}
  /\ pos = OffMap => phase = "returned" /\ frontier_list = <<>>
  /\ pos # OffMap =>
       /\ visited \subseteq Cells(map) /\ flagged \subseteq Cells(map) /\ nbr_of \in Cells(map)
       /\ bfs \in Seq(Cells(map)) /\ nbrs \in Seq(Cells(map))
       /\ edge_bfs \in Seq(Cells(map)) /\ edge_nbrs \in Seq(Cells(map))
       /\ frontier \in Frontiers(map) /\ frontier_list \in Seq(Frontiers(map))

\* From every cell of every map the search returns the edges of a free room
\* nearest to the robot, exactly those of at least the minimal size, each whole
\* and once, whatever the order in which its queues meet the cells and however
\* rooms and edges are folded around the borders of the map (lines 26-96).
SearchFindsEdges ==
  phase = "returned" =>
    LET found == {CellsOf(frontier_list[i]) : i \in DOMAIN frontier_list}
    IN  /\ \A i, j \in DOMAIN frontier_list :
             CellsOf(frontier_list[i]) = CellsOf(frontier_list[j]) => i = j
        /\ IF pos = OffMap \/ Free(map) = {} THEN found = {}
           ELSE \E room \in SUBSET Free(map) :
                  IsNearestRoom(map, pos, room) /\ found = Bordering(map, room)

\* What is left to do, in steps: a cell that has not been in a queue yet, then a
\* cell in the queue, then a neighbour to look at.
Remaining ==
  LET all == Cardinality(Cells(map))
      unvisited == Cardinality(Cells(map) \ visited)
      unflagged == Cardinality(Cells(map) \ flagged)
  IN  CASE phase = "nearest"  -> 16 * all + 2 + 10 * unvisited + 9 * Len(bfs) + Len(nbrs)
        [] phase = "search"   -> 1 + 6 * unvisited + 5 * Len(bfs) + Len(nbrs)
                                   + 10 * unflagged
        [] phase = "build"    -> 2 + 6 * unvisited + 5 * Len(bfs) + Len(nbrs)
                                   + 10 * unflagged + 9 * Len(edge_bfs) + Len(edge_nbrs)
        [] phase = "returned" -> 0

\* No loop runs away while the costmap is locked: every step leaves less to do
\* than there was, and at the start that is 26 steps for each cell, and one.
WorkShrinks == [][Remaining' < Remaining]_vars

\* The three loops, two of them nested, come to an end.
SearchEnds == <>(phase = "returned")
=============================================================================
