------------------------------ MODULE TrackRoutes ------------------------------
(***************************************************************************)
(* Routes over the track graph (track_route.c): the search, the extension  *)
(* beyond the target, the turnouts a route needs and the legs between its  *)
(* reversals.  A route is the sequence of its nodes, counted from one.     *)
(*                                                                         *)
(* The track's data is whole: every node has a reverse, the reverse of a   *)
(* sensor is a sensor, every edge but an exit's leads somewhere            *)
(* (graph_is_valid, Tc2TrackCatalogValidate).  Sums of distances stay far  *)
(* from INT_MAX and routes far from TRACK_MAX nodes.                       *)
(***************************************************************************)
EXTENDS Integers, Sequences
LOCAL INSTANCE SequencesExt
LOCAL INSTANCE FiniteSetsExt

CONSTANT Track   \* a sequence: the nodes are numbers; [kind, num, reverse, next: straight, curved]

Nodes == DOMAIN Track

Kind(n)    == Track[n].kind
Opposite(n) == Track[n].reverse

IsReversal(a, b) == Opposite(a) = b

\* A node is unavailable when it or its reverse is.
Unavailable(n, blocked) == {n, Opposite(n)} \cap blocked # {}

\* The edge a train takes from a to b; 1 is straight, 2 is curved.
DirectionTo(a, b) == CHOOSE d \in DOMAIN Track[a].next : Track[a].next[d].to = b

Gap(a, b) == IF IsReversal(a, b) THEN 0 ELSE Track[a].next[DirectionTo(a, b)].dist

\* From the i-th to the j-th node.
Distance(route, i, j) ==
  FoldLeft(LAMBDA sum, k : sum + Gap(route[k], route[k + 1]), 0, [k \in 1 .. j - i |-> i + k - 1])

-----------------------------------------------------------------------------
(* The search.                                                             *)

Far == 100000
NoRoute == [nodes |-> <<>>, cost |-> Far]

Moves(n, turning, penalty) ==
  Track[n].next \o
  (IF turning /\ Kind(n) = "sensor" THEN <<[to |-> Opposite(n), dist |-> penalty]>> ELSE <<>>)

Relax(s, n, move, blocked) ==
  IF Unavailable(move.to, blocked) \/ s.cost[n] + move.dist >= s.cost[move.to] THEN s
  ELSE [s EXCEPT !.cost[move.to] = s.cost[n] + move.dist, !.previous[move.to] = n]

\* The nearest node that is open, the first of several.
Nearest(s, open) ==
  CHOOSE n \in open : \A m \in open :
    s.cost[n] < s.cost[m] \/ (s.cost[n] = s.cost[m] /\ n <= m)

SettleOne(s, goal, turning, penalty, blocked) ==
  LET open == {n \in Nodes \ s.done : s.cost[n] # Far}
      n    == Nearest(s, open)
  IN  IF open = {} \/ n = goal THEN s
      ELSE FoldLeft(LAMBDA t, move : Relax(t, n, move, blocked),
                    [s EXCEPT !.done = @ \cup {n}], Moves(n, turning, penalty))

\* find_route
FindRoute(from, goal, turning, penalty, blocked) ==
  LET fresh == [cost |-> [n \in Nodes |-> IF n = from THEN 0 ELSE Far],
                previous |-> [n \in Nodes |-> n], done |-> {}]
      s == FoldLeft(LAMBDA t, n : SettleOne(t, goal, turning, penalty, blocked),
                    fresh, [k \in Nodes |-> k])
      walk[n \in Nodes] == IF n = from THEN <<n>> ELSE Append(walk[s.previous[n]], n)
  IN  IF Unavailable(from, blocked) \/ Unavailable(goal, blocked) \/ s.cost[goal] = Far THEN NoRoute
      ELSE [nodes |-> walk[goal], cost |-> s.cost[goal]]

-----------------------------------------------------------------------------
(* Beyond the target, and the turnouts on the way.                         *)

\* The way the route last took over a branch, straight when it never did.
DirectionAhead(route) ==
  LET n    == route[Len(route)]
      seen == {i \in 1 .. Len(route) - 1 : route[i] = n}
  IN  IF Kind(n) = "branch" /\ seen # {} THEN DirectionTo(n, route[Max(seen) + 1]) ELSE 1

\* TrackExtendRouteAhead: the route, and how much longer it has become.
Extended(route, extra) ==
  FoldLeft(LAMBDA r, k :
             IF r.added >= extra \/ Kind(r.nodes[Len(r.nodes)]) = "exit" THEN r
             ELSE LET edge == Track[r.nodes[Len(r.nodes)]].next[DirectionAhead(r.nodes)]
                  IN  [nodes |-> Append(r.nodes, edge.to), added |-> r.added + edge.dist],
           [nodes |-> route, added |-> 0], [k \in 1 .. extra |-> k])

\* build_turnout_plan_range
Turnouts(route, i, j) ==
  {[at |-> k, switch |-> Track[route[k]].num, direction |-> DirectionTo(route[k], route[k + 1])] :
     k \in {k \in i .. j - 1 : Kind(route[k]) = "branch" /\ ~IsReversal(route[k], route[k + 1])}}

\* TrackRouteMotionLegEnd
LegEnd(route, i) ==
  LET turns == {k \in i .. Len(route) - 1 : IsReversal(route[k], route[k + 1])}
  IN  IF turns = {} THEN Len(route) ELSE Min(turns)
=============================================================================
