------------------------------ MODULE RoutePlanner ------------------------------
(***************************************************************************)
(* How a trip is planned: the simulator's planner (tc2_offline_planner.c), *)
(* the dispatcher's choice of a route for a train at a start or for one    *)
(* that stands somewhere on its last route (tc2_dispatch.c), and what is   *)
(* made of a route: the conflict zones it goes through, in stages, and the *)
(* way-points that are drawn.                                              *)
(*                                                                         *)
(* The witness that head-on recovery asks of a candidate is not modelled,  *)
(* nor is the prediction of the point where the motor is cut; its check    *)
(* that the route is long enough repeats the one of Guarded.               *)
(***************************************************************************)
EXTENDS TrackRoutes, FiniteSets
LOCAL INSTANCE SequencesExt
LOCAL INSTANCE FiniteSetsExt

CONSTANTS
  Starts,        \* the entries of the track
  Destinations,  \* two sides each: [target, offset, guide]
  Braking,       \* speed -> the distance a train needs to stop
  Clearance,     \* speed -> half a train and the uncertainty of its place
  Penalty,       \* what a reversal costs
  Mates,         \* pairs of switches that share a spot
  Close,         \* groups of switches that are granted together
  MaxMembers,    \* TC2_CONFLICT_STAGE_MAX_MEMBERS
  Blockages,     \* what may be unavailable: sets of nodes
  NoGuide

Speeds == DOMAIN Braking

VARIABLES request, plan

vars == <<request, plan>>

NoPlan == [nodes |-> <<>>]

-----------------------------------------------------------------------------
(* A found route becomes a plan when it leaves the train room to stop and  *)
(* its turnouts can all be thrown.                                         *)

IsMate(a, b) == a # b /\ {a, b} \in Mates

\* turnout_plan_is_consistent
Consistent(actions) ==
  \A a, b \in actions :
    /\ a.switch = b.switch => a.direction = b.direction
    /\ ~(IsMate(a.switch, b.switch) /\ a.direction = 2 /\ b.direction = 2)

ConsecutiveReversals(route) ==
  \E k \in 1 .. Len(route) - 2 :
    IsReversal(route[k], route[k + 1]) /\ IsReversal(route[k + 1], route[k + 2])

\* The first node at or beyond the destination.
Ceiling(route, target, offset) ==
  IF offset = 0 THEN target
  ELSE Min({k \in target + 1 .. Len(route) : Distance(route, target, k) >= offset})

\* A turnout behind a reversal must be clear of the train that turns.
ReversalsClear(route, ceiling, speed) ==
  \A k \in 1 .. ceiling - 1 : IsReversal(route[k], route[k + 1]) =>
    LET facing == {c \in k + 1 .. ceiling : Kind(route[c]) = "branch"}
    IN  facing # {} => Distance(route, k + 1, Min(facing)) >= Clearance[speed]

\* From reversal to reversal; the last leg runs to the end of the route.
Legs(route, ceiling) ==
  {[first |-> k, last |-> IF LegEnd(route, k) >= ceiling THEN Len(route) ELSE LegEnd(route, k)] :
     k \in {1} \cup {k \in 2 .. ceiling : IsReversal(route[k - 1], route[k])}}

\* append_paired_turnout_resources
WithMates(nodes) ==
  nodes \cup {n \in Nodes : /\ Kind(n) \in {"branch", "merge"}
                            /\ \E m \in nodes : /\ Kind(m) \in {"branch", "merge"}
                                                /\ {Track[n].num, Track[m].num} \in Mates}

Footprint(route, ceiling) == WithMates({route[k] : k \in 1 .. ceiling})

\* A route never ends at a branch.
Completed(ahead) ==
  IF Kind(Last(ahead.nodes)) = "branch" THEN Extended(ahead.nodes, 1).nodes ELSE ahead.nodes

\* The route beyond the found one is safe to drive and free.
MayDrive(found, side, speed, blocked, route, ceiling) ==
  /\ side.guide \in {NoGuide} \cup {route[k] : k \in Len(found.nodes) + 1 .. ceiling}
  /\ ReversalsClear(route, ceiling, speed)
  /\ \A leg \in Legs(route, ceiling) : Consistent(Turnouts(route, leg.first, leg.last))
  /\ \A n \in Footprint(route, ceiling) : ~Unavailable(n, blocked)

PlanOf(found, side, speed, blocked, route, ceiling) ==
  IF MayDrive(found, side, speed, blocked, route, ceiling)
  THEN [nodes |-> route, target |-> Len(found.nodes), ceiling |-> ceiling, offset |-> side.offset,
        distance |-> Distance(route, 1, Len(found.nodes)) + side.offset,
        cost |-> found.cost + side.offset]
  ELSE NoPlan

\* validate_and_guard_candidate
Driven(found, side, speed, blocked, route) ==
  PlanOf(found, side, speed, blocked, route, Ceiling(route, Len(found.nodes), side.offset))
GuardedBy(found, side, speed, blocked, ahead) ==
  IF ahead.added >= side.offset + Braking[speed]
  THEN Driven(found, side, speed, blocked, Completed(ahead)) ELSE NoPlan
Guarded(found, side, speed, blocked) ==
  IF found = NoRoute \/ ConsecutiveReversals(found.nodes) THEN NoPlan
  ELSE GuardedBy(found, side, speed, blocked, Extended(found.nodes, side.offset + Braking[speed]))

Forward(r, side, blocked) ==
  Guarded(FindRoute(r.start, side.target, FALSE, Penalty, blocked), side, r.speed, blocked)
Turning(r, side, blocked) ==
  Guarded(FindRoute(r.start, side.target, TRUE, Penalty, blocked), side, r.speed, blocked)

\* The first plan there is; the one with the least of two measures, the first
\* of equals.
FirstPlan(plans) == FoldLeft(LAMBDA best, p : IF best = NoPlan THEN p ELSE best, NoPlan, plans)
Less(p, q, measure, second) ==
  p[measure] < q[measure] \/ (p[measure] = q[measure] /\ p[second] < q[second])
BestPlan(plans, measure, second) ==
  FoldLeft(LAMBDA best, p :
             IF p # NoPlan /\ (best = NoPlan \/ Less(p, best, measure, second)) THEN p ELSE best,
           NoPlan, plans)

Shortest(plans) == BestPlan(plans, "distance", "cost")
Cheapest(plans) == BestPlan(plans, "cost", "distance")

\* select_candidate_route
SimulatedPlan(r, side) == FirstPlan(<<Forward(r, side, {}), Turning(r, side, {})>>)

\* candidate_route
FirstOrBest(r, ways) == IF r.preferForward THEN FirstPlan(ways) ELSE BestPlan(ways, "cost", "cost")
FreshPlan(r, side) == FirstOrBest(r, <<Forward(r, side, r.blocked), Turning(r, side, r.blocked)>>)

-----------------------------------------------------------------------------
(* A train that stands somewhere within its footprint.                     *)

StartsTurning(route) == Len(route) >= 2 /\ IsReversal(route[1], route[2])

\* The switch, or its mate, is under the footprint.
Under(action, footprint) ==
  \E n \in footprint :
    /\ Kind(n) \in {"branch", "merge"}
    /\ (Track[n].num = action.switch \/ IsMate(Track[n].num, action.switch))

\* The setting is as it was confirmed, for a curved one with its mate straight.
ConfirmedDirections(switch, confirmed) ==
  {a.direction : a \in {a \in confirmed : a.switch = switch}} \cup
  {1 : a \in {a \in confirmed : a.direction = 2 /\ IsMate(a.switch, switch)}}
IsConfirmed(action, confirmed) ==
  /\ ConfirmedDirections(action.switch, confirmed) = {action.direction}
  /\ action.direction = 2 =>
       \A m \in UNION Mates : IsMate(action.switch, m) => ConfirmedDirections(m, confirmed) = {1}

\* The first leg that is driven throws no turnout under the train.
\* Mutant: the leg before a leading reversal is taken for it.
ClearFromFirstLeg(p, r) ==
  LET first == 1
      last  == IF LegEnd(p.nodes, first) >= p.ceiling THEN Len(p.nodes) ELSE LegEnd(p.nodes, first)
  IN  \A a \in Turnouts(p.nodes, first, last) :
        Under(a, r.footprint) => IsConfirmed(a, r.confirmed)
InitialTurnoutsClear(p, r) ==
  LET first == IF p.ceiling > 1 /\ StartsTurning(p.nodes) THEN 2 ELSE 1
      last  == IF LegEnd(p.nodes, first) >= p.ceiling THEN Len(p.nodes) ELSE LegEnd(p.nodes, first)
  IN  \A a \in Turnouts(p.nodes, first, last) :
        Under(a, r.footprint) => IsConfirmed(a, r.confirmed)

\* Once it has left the footprint the route stays out of it.
StaysOut(p, r) ==
  \A i, j \in DOMAIN p.nodes : i < j /\ p.nodes[i] \notin r.footprint => p.nodes[j] \notin r.footprint

\* The train turns where it stands and goes the other way.
Reversed(r, side, back) ==
  IF back = NoRoute THEN NoPlan
  ELSE Guarded([nodes |-> <<r.start>> \o back.nodes, cost |-> back.cost + Penalty],
               side, r.speed, r.blocked)
Leading(r, side) ==
  IF r.mode = "locked" \/ Kind(r.start) # "sensor" THEN NoPlan
  ELSE Reversed(r, side, FindRoute(Opposite(r.start), side.target, FALSE, Penalty, r.blocked))

\* candidate_route_for_current_hold
CurrentWays(r, side) == <<Forward(r, side, r.blocked), Turning(r, side, r.blocked), Leading(r, side)>>

HeldBack(r, ways) == \E p \in Range(ways) \ {NoPlan} : ~InitialTurnoutsClear(p, r)

ClearWay(r, k, p) ==
  IF /\ p # NoPlan /\ InitialTurnoutsClear(p, r)
     /\ ~(k = 2 /\ r.mode = "locked" /\ StartsTurning(p.nodes))
  THEN p ELSE NoPlan
ClearWays(r, ways) == [k \in 1 .. 3 |-> ClearWay(r, k, ways[k])]
ByMode(r, clear) ==
  CASE r.mode = "reverse" -> clear[3]
    [] r.mode = "select"  -> Cheapest(clear)
    [] OTHER              -> FirstPlan(clear)
CurrentPlan(r, side) == ByMode(r, ClearWays(r, CurrentWays(r, side)))

\* An estimated train may turn only where that is safe, and must not come
\* back to where it may have been before a sensor has told where it is.
EstimateAllows(p, r) ==
  r.estimated =>
    /\ \/ \A k \in 1 .. Len(p.nodes) - 1 : ~IsReversal(p.nodes[k], p.nodes[k + 1])
       \/ r.mode \in {"reverse", "select"} /\ StartsTurning(p.nodes)
       \/ r.mode = "locked" /\ ~StartsTurning(p.nodes)
    /\ StaysOut(p, r)
    /\ InitialTurnoutsClear(p, r)

Allowed(p, r) == IF p # NoPlan /\ EstimateAllows(p, r) THEN p ELSE NoPlan
PlanFor(r, side) ==
  CASE r.kind = "simulated" -> SimulatedPlan(r, side)
    [] r.kind = "fresh"     -> FreshPlan(r, side)
    [] r.kind = "current"   -> Allowed(CurrentPlan(r, side), r)

\* estimated_ambiguity_blocked: nothing but the train's own place is in the way.
InTheWay(r, side, p) ==
  IF p # NoPlan THEN ~EstimateAllows(p, r)
  ELSE \/ HeldBack(r, CurrentWays(r, side))
       \/ /\ r.estimated /\ side.target \notin r.blocked
          /\ Forward(r, side, {}) = NoPlan
OnlyPlaceUnknown(r) == \E k \in 1 .. 2 : InTheWay(r, r.sides[k], CurrentPlan(r, r.sides[k]))

\* choose_safe_localization_route: on along the old route to the second sensor.
SafeFrom(r, p) == IF p # NoPlan /\ StaysOut(p, r) /\ InitialTurnoutsClear(p, r) THEN p ELSE NoPlan
Along(r, way) ==
  SafeFrom(r, Guarded([nodes |-> way, cost |-> Distance(way, 1, Len(way))],
                      [target |-> Last(way), offset |-> 0, guide |-> NoGuide], r.speed, r.blocked))
ToSecond(r, long, sensors) ==
  IF Cardinality(sensors) < 2 THEN NoPlan
  ELSE Along(r, SubSeq(long, 1, Min(sensors \ {Min(sensors)})))
OnAlong(r, long) == ToSecond(r, long, {k \in 2 .. Len(long) : Kind(long[k]) = "sensor"})
Localizing(r) ==
  IF /\ r.mode \in {"plain", "reverse"}
     /\ \A k \in 1 .. Len(r.motion) - 1 : ~IsReversal(r.motion[k], r.motion[k + 1])
  THEN OnAlong(r, Extended(r.motion, 3 * Cardinality(Nodes)).nodes) ELSE NoPlan

\* choose_shortest_available_route, and prepare_waiting_job's way out.
BestSide(r, both) ==
  IF r.kind = "current" /\ r.mode = "select" THEN Cheapest(both) ELSE Shortest(both)
OrLocalizing(r, best) ==
  IF best = NoPlan /\ r.kind = "current" /\ OnlyPlaceUnknown(r) THEN Localizing(r) ELSE best
Choose(r) ==
  IF r.kind # "simulated" /\ r.start \in r.blocked THEN NoPlan
  ELSE OrLocalizing(r, BestSide(r, [k \in 1 .. 2 |-> PlanFor(r, r.sides[k])]))

-----------------------------------------------------------------------------
(* The conflict zones of a route (Tc2ConflictZoneBuildRoutePlan).          *)

\* A zone is its switches: one, or two mates.
ZoneOf(switch) == IF \E z \in Mates : switch \in z THEN CHOOSE z \in Mates : switch \in z ELSE {switch}

\* What a move from the k-th node passes: the branch it leaves, the merge it enters.
Passings(route, k) ==
  LET a == route[k]
      b == route[k + 1]
  IN  IF IsReversal(a, b) THEN <<>>
      ELSE (IF Kind(a) = "branch"
            THEN <<[first |-> k, last |-> k + 1, switch |-> Track[a].num, direction |-> DirectionTo(a, b)]>>
            ELSE <<>>) \o
           (IF Kind(b) = "merge"
            THEN <<[first |-> k + 1, last |-> k + 1, switch |-> Track[b].num,
                    direction |-> DirectionTo(Opposite(b), Opposite(a))]>>
            ELSE <<>>)

\* append_route_zone_event: what follows within the same zone is one step.
Joins(step, e) ==
  /\ step.zone = ZoneOf(e.switch)
  /\ e.first <= step.last + (IF Cardinality(step.zone) = 2 THEN 1 ELSE 0)

AddPassing(steps, e) ==
  LET n    == Len(steps)
      turn == <<e.switch, e.direction>>
  IN  IF n > 0 /\ Joins(steps[n], e)
      THEN [steps EXCEPT ![n] = [zone |-> @.zone, first |-> Min({@.first, e.first}),
                                 last |-> Max({@.last, e.last}), setting |-> @.setting \cup {turn}]]
      ELSE Append(steps, [zone |-> ZoneOf(e.switch), first |-> e.first, last |-> e.last,
                          setting |-> {turn}])

Steps(p) ==
  FoldLeft(LAMBDA steps, k : FoldLeft(AddPassing, steps, Passings(p.nodes, k)), <<>>,
           [k \in 1 .. p.ceiling - 1 |-> k])

\* setting_add refuses a second direction: then there is no plan.
StepsFit(steps) ==
  \A i \in DOMAIN steps : \A s, t \in steps[i].setting : s[1] = t[1] => s = t

\* Tc2ConflictZoneBuildRouteStages: neighbours of one group are one stage.
GroupsOf(step) == {g \in Close : \E s \in step.setting : s[1] \in g}

Stages(steps) ==
  LET Add(st, i) ==
        LET n == Len(st.stages)
        IN  IF /\ n > 0 /\ st.groups \cap GroupsOf(steps[i]) # {}
               /\ Len(st.stages[n]) < MaxMembers
               /\ \A j \in Range(st.stages[n]) : steps[j].zone # steps[i].zone
            THEN [stages |-> [st.stages EXCEPT ![n] = Append(@, i)],
                  groups |-> st.groups \cup GroupsOf(steps[i])]
            ELSE [stages |-> Append(st.stages, <<i>>), groups |-> GroupsOf(steps[i])]
  IN  FoldLeft(Add, [stages |-> <<>>, groups |-> {}], [i \in DOMAIN steps |-> i]).stages

-----------------------------------------------------------------------------
(* The way-points of a route (tc2_route_projection.c).                     *)

\* The last node that is not beyond the destination.
LastVisible(p) ==
  IF Distance(p.nodes, 1, p.ceiling) = p.distance THEN p.ceiling ELSE p.ceiling - 1

WayPointAt(p, k) ==
  LET n == p.nodes[k]
  IN  [kind |-> IF Kind(n) = "branch" THEN "turnout"
                ELSE IF IsReversal(p.nodes[k - 1], n) THEN "reversal" ELSE "sensor",
       at   |-> k, dist |-> Distance(p.nodes, 1, k),
       thing |-> Track[n].num,
       direction |-> IF Kind(n) = "branch" THEN DirectionTo(n, p.nodes[k + 1]) ELSE 0]

Projection(p) ==
  LET shown == SelectSeq([k \in 1 .. LastVisible(p) |-> k],
                         LAMBDA k : k > 1 /\ Kind(p.nodes[k]) \in {"sensor", "branch"})
  IN  <<[kind |-> "start", at |-> 1, dist |-> 0]>> \o
      [i \in DOMAIN shown |-> WayPointAt(p, shown[i])] \o
      <<[kind |-> "destination", at |-> LastVisible(p), dist |-> p.distance]>>

-----------------------------------------------------------------------------
Init == request = [kind |-> "none"] /\ plan = NoPlan

Answer(r) == request' = r /\ plan' = Choose(r)

Simulate ==
  /\ request.kind = "none"
  /\ \E start \in Starts, sides \in Destinations, speed \in Speeds :
       Answer([kind |-> "simulated", start |-> start, sides |-> sides, speed |-> speed,
               blocked |-> {}])

Dispatch ==
  /\ request.kind = "none"
  /\ \E start \in Starts, sides \in Destinations, speed \in Speeds, blocked \in Blockages,
        provisional \in BOOLEAN :
       Answer([kind |-> "fresh", start |-> start, sides |-> sides, speed |-> speed,
               blocked |-> blocked, preferForward |-> ~provisional])

\* The train came to rest on the last leg of its plan, at a sensor, or where
\* that is only an estimate somewhere from there to its destination; all its
\* footprint is its own.  The turnouts of the leg are confirmed unless the
\* operator sends it elsewhere on the way.
Redispatch ==
  /\ request.kind = "fresh" /\ plan # NoPlan
  /\ \E i \in 1 .. plan.ceiling, sides \in Destinations, blocked \in Blockages,
        mode \in {"plain", "reverse", "select", "locked"}, estimated \in BOOLEAN :
       LET leg  == CHOOSE leg \in Legs(plan.nodes, plan.ceiling) : leg.last = Len(plan.nodes)
           kept == {plan.nodes[k] : k \in i .. plan.ceiling}
       IN  /\ leg.first <= i /\ Kind(plan.nodes[i]) = "sensor"
           /\ mode \in {"select", "locked"} => estimated
           /\ Answer([kind |-> "current", start |-> plan.nodes[i], sides |-> sides,
                      speed |-> request.speed, blocked |-> blocked, mode |-> mode,
                      estimated |-> estimated,
                      footprint |-> IF estimated /\ mode \in {"plain", "reverse"} THEN kept
                                    ELSE kept \cup {Opposite(n) : n \in kept},
                      motion |-> SubSeq(plan.nodes, i, Len(plan.nodes)),
                      confirmed |-> IF mode \in {"select", "locked"} THEN {}
                                    ELSE Turnouts(plan.nodes, leg.first, leg.last)])

Next == Simulate \/ Dispatch \/ Redispatch
Spec == Init /\ [][Next]_vars

-----------------------------------------------------------------------------
(* What should hold.                                                       *)

\* The least cost from start to target, over walks of any length: each round
\* allows one move more.
LeastCost(from, goal, turning, blocked) ==
  LET open(n) == blocked \cap {n, Opposite(n)} = {}
      moves == {mv \in UNION {{<<n, e.to, e.dist>> : e \in Range(Track[n].next)} : n \in Nodes} \cup
                       {<<n, Opposite(n), Penalty>> : n \in {n \in Nodes : turning /\ Kind(n) = "sensor"}} :
                  open(mv[1]) /\ open(mv[2])}
      round(c) == <<>> \o [n \in Nodes |->
                     Min({c[n]} \cup {c[mv[1]] + mv[3] : mv \in {mv \in moves : mv[2] = n}})]
      start == [n \in Nodes |-> IF n = from /\ open(n) THEN 0 ELSE Far]
      costs == FoldLeft(LAMBDA c, n : round(c), start, [k \in Nodes |-> k])
  IN  Min({Far, costs[goal]})

\* What is found is a way, and there is no cheaper one (find_route).
SearchIsExact ==
  request.kind \in {"simulated", "fresh"} =>
    \A k \in 1 .. 2, turning \in BOOLEAN :
      LET goal  == request.sides[k].target
          found == FindRoute(request.start, goal, turning, Penalty, request.blocked)
          steps == [i \in 1 .. Len(found.nodes) - 1 |->
                      IF IsReversal(found.nodes[i], found.nodes[i + 1]) THEN Penalty
                      ELSE Gap(found.nodes[i], found.nodes[i + 1])]
      IN  /\ found.cost = LeastCost(request.start, goal, turning, request.blocked)
          /\ found # NoRoute =>
               /\ found.nodes[1] = request.start /\ found.nodes[Len(found.nodes)] = goal
               /\ FoldLeft(LAMBDA a, b : a + b, 0, steps) = found.cost

\* Where a train goes from n when the switches are thrown as the set says.
Follows(n, thrown) ==
  IF Kind(n) = "branch" THEN Track[n].next[CHOOSE d \in 1 .. 2 : <<Track[n].num, d>> \in thrown].to
  ELSE Track[n].next[1].to

\* A train that is turned where the plan says so and whose turnouts are thrown
\* leg by leg drives the plan to its end, and so it does up to its destination
\* when they are thrown zone by zone; it never meets a merge set against it.
PlansAreDriven ==
  plan # NoPlan =>
    LET steps  == Steps(plan)
        thrown(k) == UNION {steps[i].setting : i \in {i \in DOMAIN steps : k \in steps[i].first .. steps[i].last}}
    IN  /\ \A leg \in Legs(plan.nodes, plan.ceiling) : \A k \in leg.first .. leg.last - 1 :
             plan.nodes[k + 1] =
               Follows(plan.nodes[k], {<<a.switch, a.direction>> : a \in Turnouts(plan.nodes, leg.first, leg.last)})
        /\ StepsFit(steps)
        /\ \A k \in 1 .. plan.ceiling - 1 : ~IsReversal(plan.nodes[k], plan.nodes[k + 1]) =>
             /\ plan.nodes[k + 1] = Follows(plan.nodes[k], thrown(k))
             /\ Kind(plan.nodes[k + 1]) = "merge" =>
                  Follows(Opposite(plan.nodes[k + 1]), thrown(k + 1)) = Opposite(plan.nodes[k])
        /\ FlattenSeq(Stages(steps)) = [i \in DOMAIN steps |-> i]

\* There is always room to stop behind the destination, without a reversal.
RoomToStop ==
  plan # NoPlan =>
    /\ Distance(plan.nodes, plan.target, Len(plan.nodes)) >= plan.offset + Braking[request.speed]
    /\ LegEnd(plan.nodes, plan.target) = Len(plan.nodes)

\* What is drawn ends where the train is meant to end.
ProjectionIsExact ==
  plan # NoPlan =>
    LET points == Projection(plan)
        inner  == {points[i].at : i \in 2 .. Len(points) - 1}
    IN  /\ \A i \in 1 .. Len(points) - 1 : points[i].dist <= points[i + 1].dist
        /\ inner = {k \in 2 .. Len(plan.nodes) : /\ k <= plan.ceiling
                                                 /\ Kind(plan.nodes[k]) \in {"sensor", "branch"}
                                                 /\ Distance(plan.nodes, 1, k) <= plan.distance}
        /\ plan.target \in inner \cup {1}

\* No turnout is thrown under a train that may stand on it, unless it is as
\* it is already (candidate_route_for_current_hold).
NothingThrownUnderneath ==
  plan # NoPlan /\ request.kind = "current" =>
    LET first == IF StartsTurning(plan.nodes) THEN 2 ELSE 1
        last  == IF LegEnd(plan.nodes, first) >= plan.ceiling THEN Len(plan.nodes)
                 ELSE LegEnd(plan.nodes, first)
    IN  \A k \in first .. last - 1 : \A n \in request.footprint :
          /\ Kind(plan.nodes[k]) = "branch" /\ n \in {plan.nodes[k], Opposite(plan.nodes[k])}
          => \E a \in request.confirmed :
               /\ a.switch = Track[n].num
               /\ a.direction = DirectionTo(plan.nodes[k], plan.nodes[k + 1])

PlansAreSound ==
  SearchIsExact /\ PlansAreDriven /\ RoomToStop /\ ProjectionIsExact /\ NothingThrownUnderneath
=============================================================================
