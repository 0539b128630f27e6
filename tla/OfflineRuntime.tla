---------------------------- MODULE OfflineRuntime ----------------------------
(***************************************************************************)
(* The simulator's trains (tc2_offline_runtime.c): a table of trips that   *)
(* advance together, tick by tick, each along the way-points of its route. *)
(* A train claims the resources of the window it moves in, and waits when  *)
(* one of them is claimed by another.                                      *)
(*                                                                         *)
(* The C functions work on a struct that the controller owns, so this      *)
(* module has operators on a record and no variables; OfflineController    *)
(* is the state machine.  A distance is a number of steps, and a train's   *)
(* speed the steps it makes in a tick.  Trips arrive whole: nothing under  *)
(* src/ but a test feeds them page by page.                                *)
(***************************************************************************)
EXTENDS Integers, Sequences
LOCAL INSTANCE SequencesExt
LOCAL INSTANCE FiniteSetsExt

CONSTANTS
  Trains,    \* the numbers of the trains
  Capacity,  \* TC2_OFFLINE_RUNTIME_MAX_TRAINS
  MaxStep    \* TC2_OFFLINE_RUNTIME_MAX_STEP_TICKS

-----------------------------------------------------------------------------
(* Routes: sequences of way-points [kind, at, node, thing, cell].  The     *)
(* thing is the directed sensor, the turnout or the destination.           *)

Endpoint(route) == route[Len(route)].at

WellFormed(route) ==
  /\ Len(route) >= 2
  /\ \A i \in DOMAIN route :
       /\ (route[i].kind = "start") <=> (i = 1)
       /\ (route[i].kind = "destination") <=> (i = Len(route))
       /\ route[i].kind \in {"start", "sensor", "turnout", "reversal", "destination"}
  /\ route[1].at = 0
  /\ \A i \in 2 .. Len(route) : route[i].at >= route[i - 1].at

\* Both directions of a sensor are one detector.
Vertex(w) ==
  CASE w.kind \in {"sensor", "reversal"} -> <<"pair", w.thing \div 2>>
    [] w.kind = "turnout" -> <<"turnout", w.thing>>
    [] OTHER -> <<"node", w.node>>

Keys(w) ==
  {<<"node", w.node>>} \cup
  CASE w.kind = "start" -> {}
    [] w.kind = "destination" -> {<<"destination", w.thing>>}
    [] OTHER -> {Vertex(w)}

Edge(route, i) == <<"edge", {Vertex(route[i - 1]), Vertex(route[i])}>>

\* The last way-point that the train is not before.
PreviousAt(route, at) == Max({1} \cup {i \in DOMAIN route : route[i].at <= at})

ClaimRange(route, first, last) ==
  UNION {Keys(route[i]) : i \in first .. last} \cup {Edge(route, i) : i \in first + 1 .. last}

Ahead(route, i) == Min({i + 2, Len(route)})

-----------------------------------------------------------------------------
(* Trips.                                                                  *)

NoTrip ==
  [state |-> "EMPTY", armed |-> FALSE, entered |-> FALSE, route |-> <<>>, speed |-> 0,
   epoch |-> 0, at |-> 0, next |-> 0, waits |-> 0, claims |-> {}]

NewRuntime(now) == [tick |-> now, serial |-> 0, trains |-> [t \in Trains |-> NoTrip]]

Present(rt) == {t \in Trains : rt.trains[t].state # "EMPTY"}

MayAdd(rt, t, route) ==
  /\ WellFormed(route)
  /\ t \notin Present(rt)
  /\ Cardinality(Present(rt)) < Capacity

AddTrip(rt, t, route, speed, epoch) ==
  [rt EXCEPT !.trains[t] =
     [NoTrip EXCEPT !.state = "READY", !.route = route, !.speed = speed, !.epoch = epoch, !.next = 2]]

StartAll(rt) ==
  [rt EXCEPT !.trains = [t \in Trains |->
     IF @[t].state = "READY" THEN [@[t] EXCEPT !.armed = TRUE] ELSE @[t]]]

RemoveTrip(rt, t) == [rt EXCEPT !.trains[t] = NoTrip]

-----------------------------------------------------------------------------
(* A tick.  The trains that want to move are served one by one; what the   *)
(* earlier ones have claimed binds the later ones.                         *)

Wants(trip) == trip.armed /\ trip.state \in {"READY", "RUNNING", "WAIT_CONFLICT"}

Before(trains, a, b) ==
  IF trains[a].waits # trains[b].waits THEN trains[a].waits > trains[b].waits
  ELSE IF trains[a].epoch # trains[b].epoch THEN trains[a].epoch < trains[b].epoch
  ELSE a < b

Order(rt) ==
  SetToSortSeq({t \in Trains : Wants(rt.trains[t])}, LAMBDA a, b : Before(rt.trains, a, b))

Goal(trip) == Min({trip.at + trip.speed, Endpoint(trip.route)})

TransitClaims(trip) ==
  ClaimRange(trip.route, PreviousAt(trip.route, trip.at), Ahead(trip.route, PreviousAt(trip.route, Goal(trip))))

StationaryClaims(trip) ==
  IF trip.state = "ARRIVED" THEN Keys(trip.route[Len(trip.route)])
  ELSE ClaimRange(trip.route, PreviousAt(trip.route, trip.at),
                  Ahead(trip.route, PreviousAt(trip.route, trip.at)))

\* Mutant: a train that has arrived is out of the way.
OnlyMoving(rt, t, window) ==
  \E o \in Trains \ {t} :
    /\ rt.trains[o].state \in {"RUNNING", "WAIT_CONFLICT"}
    /\ rt.trains[o].claims \cap window # {}
InTheWay(rt, t, window) ==
  \E o \in Trains \ {t} :
    /\ rt.trains[o].state \in {"RUNNING", "WAIT_CONFLICT", "ARRIVED"}
    /\ rt.trains[o].claims \cap window # {}

\* An event and its number.  They are handed to the sink as they are emitted.
Emit(run, t, type, at) ==
  [run EXCEPT !.serial = @ + 1,
              !.log = Append(@, [type |-> type, train |-> t, tick |-> run.tick,
                                 serial |-> run.serial + 1, at |-> at])]

EventsAt(w) ==
  CASE w.kind = "sensor" -> <<"PULSE">>
    [] w.kind = "reversal" -> <<"PULSE", "REVERSAL">>
    [] w.kind = "turnout" -> <<"TURNOUT">>
    [] w.kind = "destination" -> <<"ARRIVED">>

NoteWait(run, t) ==
  LET entering == run.trains[t].state # "WAIT_CONFLICT"
      waiting  == [run EXCEPT !.trains[t].state = "WAIT_CONFLICT", !.trains[t].waits = @ + 1]
  IN  IF entering THEN Emit(waiting, t, "WAIT", run.trains[t].next) ELSE waiting

\* One way-point is passed.
PassWaypoint(run, t, i) ==
  LET w      == run.trains[t].route[i]
      passed == IF w.kind = "destination"
                THEN [run EXCEPT !.trains[t].next = i + 1, !.trains[t].state = "ARRIVED",
                                 !.trains[t].armed = FALSE, !.trains[t].waits = 0]
                ELSE [run EXCEPT !.trains[t].next = i + 1]
  IN  FoldLeft(LAMBDA r, type : Emit(r, t, type, i), passed, EventsAt(w))

Crossed(trip) ==
  [k \in 1 .. Cardinality({i \in trip.next .. Len(trip.route) : trip.route[i].at <= trip.at}) |->
     trip.next + k - 1]

Accept(run, t, window) ==
  LET old     == run.trains[t]
      claimed == [run EXCEPT !.trains[t].claims = window, !.trains[t].waits = 0,
                             !.trains[t].state = "RUNNING", !.moved = @ \cup {t}]
      resumed == IF old.state = "WAIT_CONFLICT" THEN Emit(claimed, t, "RESUMED", old.next) ELSE claimed
      entered == IF old.entered THEN resumed
                 ELSE Emit([resumed EXCEPT !.trains[t].entered = TRUE], t, "STARTED", 1)
      there   == [entered EXCEPT !.trains[t].at = Goal(old)]
  IN  FoldLeft(LAMBDA r, i : PassWaypoint(r, t, i), there, Crossed(there.trains[t]))

Turn(run, t) ==
  LET window == TransitClaims(run.trains[t])
  IN  IF InTheWay(run, t, window) THEN NoteWait(run, t) ELSE Accept(run, t, window)

\* The windows shrink when everyone has had a turn.
Shrunk(run) ==
  [run EXCEPT !.trains = [t \in Trains |->
     IF t \in run.moved
     THEN [run.trains[t] EXCEPT !.claims = StationaryClaims(run.trains[t])] ELSE run.trains[t]]]

AdvanceOneTick(run) ==
  LET next == [run EXCEPT !.tick = @ + 1, !.moved = {}]
  IN  Shrunk(FoldLeft(Turn, next, Order(next)))

\* Too long a gap is refused: nothing changes.
MayStep(rt, now) == now - rt.tick \in 0 .. MaxStep

\* The runtime after the step, with the log of its events.
Step(rt, now) ==
  FoldLeft(LAMBDA r, i : AdvanceOneTick(r),
           [tick |-> rt.tick, serial |-> rt.serial, trains |-> rt.trains, moved |-> {}, log |-> <<>>],
           [i \in 1 .. now - rt.tick |-> i])
=============================================================================
