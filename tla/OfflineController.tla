--------------------------- MODULE OfflineController ---------------------------
(***************************************************************************)
(* The simulator (tc2_offline_controller.c and the sim commands of the     *)
(* console): it stages trips, starts them together, steps the runtime as   *)
(* time goes by, and draws from its events where the trains are.  What     *)
(* does not fit together closes the controller until it is reset.          *)
(*                                                                         *)
(* The planner is pure; Plans are what it may give.  A cell of the map is  *)
(* a number, as if the map had one row.                                    *)
(***************************************************************************)
EXTENDS Integers, Sequences
LOCAL INSTANCE SequencesExt
LOCAL INSTANCE FiniteSets

CONSTANTS
  Trains, Sensors, Slots, Reserved, FixedColour, FlashTicks, MaxStep,
  Plans,      \* [train, route, speed]: what the planner may give for a request
  Drawn,      \* the cells of the map where there is track
  MaxStaged,  \* trips staged, a bound
  MaxTime     \* a bound

NoCell == -1   \* a turnout's label is in the legend, not on the map

RT == INSTANCE OfflineRuntime WITH Capacity <- Slots
OV == INSTANCE TrainOverlay

VARIABLES
  now,       \* the clock
  runtime, overlay,
  registry,  \* trains[]: the controller's own record of each trip
  issued,    \* next_plan_generation, next_launch_epoch, next_publication_serial
  failed     \* failed_closed

vars == <<now, runtime, overlay, registry, issued, failed>>

NoEntry ==
  [active |-> FALSE, generation |-> 0, speed |-> 0, revision |-> 0, event |-> 0, moved |-> -1,
   cell |-> NoCell]

Fresh ==
  /\ runtime' = RT!NewRuntime(now) /\ overlay' = OV!NewOverlay
  /\ registry' = [t \in Trains |-> NoEntry] /\ issued' = 0 /\ failed' = FALSE

Init ==
  /\ now = 0
  /\ runtime = RT!NewRuntime(0) /\ overlay = OV!NewOverlay
  /\ registry = [t \in Trains |-> NoEntry] /\ issued = 0 /\ failed = FALSE

Entered(reg) == {t \in Trains : reg[t].active}

\* The three retained views are of the same trips.
Agree(rt, ov, reg) ==
  /\ RT!Present(rt) = Entered(reg) /\ OV!Shown(ov) = Entered(reg)
  /\ \A t \in Entered(reg) :
       /\ rt.trains[t].epoch = reg[t].generation
       /\ ov.marks[t].generation = reg[t].generation

-----------------------------------------------------------------------------
(* Cells.                                                                  *)

\* C rounds towards zero.
Quotient(n, d) == IF n >= 0 THEN n \div d ELSE -((-n) \div d)
Nearest(n, d)  == Quotient(IF n >= 0 THEN n + d \div 2 ELSE n - d \div 2, d)

OnMap(w) == w.cell # NoCell

\* Only turnouts may lack a cell, and never at the ends.
Projectable(route) ==
  \A i \in DOMAIN route :
    ~OnMap(route[i]) =>
      /\ route[i].kind = "turnout"
      /\ \E a \in 1 .. i - 1, b \in i + 1 .. Len(route) :
           OnMap(route[a]) /\ OnMap(route[b]) /\ route[b].at > route[a].at

\* A turnout is drawn between its neighbours.
Normalised(route) ==
  [i \in DOMAIN route |->
     IF OnMap(route[i]) THEN route[i]
     ELSE LET a == CHOOSE a \in 1 .. i - 1 :
                     OnMap(route[a]) /\ \A k \in a + 1 .. i : ~OnMap(route[k])
              b == CHOOSE b \in i + 1 .. Len(route) :
                     OnMap(route[b]) /\ \A k \in i .. b - 1 : ~OnMap(route[k])
          IN  [route[i] EXCEPT !.cell =
                 route[a].cell + Nearest((route[b].cell - route[a].cell) * (route[i].at - route[a].at),
                                         route[b].at - route[a].at)]]

\* Where the train is between two way-points, if there is track.
CellOf(trip) ==
  LET p    == RT!PreviousAt(trip.route, trip.at)
      from == trip.route[p]
      to   == trip.route[p + 1]
      off  == trip.at - from.at
      cell == from.cell + Nearest((to.cell - from.cell) * off, to.at - from.at)
  IN  IF p = Len(trip.route) \/ off = 0 THEN from.cell
      ELSE IF cell \in Drawn THEN cell
      ELSE IF off * 2 >= to.at - from.at THEN to.cell ELSE from.cell

-----------------------------------------------------------------------------
(* The operator.                                                           *)

Stage ==
  /\ ~failed /\ issued < MaxStaged
  /\ \E plan \in Plans :
       LET t == plan.train
           n == issued + 1
           route == Normalised(plan.route)
       IN  /\ ~registry[t].active /\ Cardinality(Entered(registry)) < Slots
           /\ issued' = n
           /\ IF Projectable(plan.route) /\ RT!MayAdd(runtime, t, route)
              THEN IF OV!TakesUpsert(overlay, t, n)
                   THEN /\ runtime' = RT!AddTrip(runtime, t, route, plan.speed, n)
                        /\ overlay' = OV!SetSpeed(OV!UpsertAtStart(overlay, t, route[1].cell, n), t, 0)
                        /\ registry' = [registry EXCEPT ![t] =
                             [NoEntry EXCEPT !.active = TRUE, !.generation = n, !.speed = plan.speed,
                                             !.cell = route[1].cell]]
                        /\ failed' = ~Agree(runtime', overlay', registry')
                   ELSE failed' = TRUE /\ UNCHANGED <<runtime, overlay, registry>>
              ELSE UNCHANGED <<runtime, overlay, registry, failed>>
  /\ UNCHANGED now

\* simgo: every staged trip starts with the next tick.
Go ==
  /\ ~failed
  /\ \E t \in Trains : runtime.trains[t].state = "READY" /\ ~runtime.trains[t].armed
  /\ runtime' = RT!StartAll(runtime)
  /\ overlay' = [overlay EXCEPT !.marks = [t \in Trains |->
       IF registry[t].active
       THEN [@[t] EXCEPT !.speed = IF \/ runtime'.trains[t].state = "RUNNING"
                                      \/ runtime'.trains[t].state = "READY" /\ runtime'.trains[t].armed
                                   THEN registry[t].speed ELSE 0]
       ELSE @[t]]]
  /\ failed' = ~Agree(runtime', overlay', registry)
  /\ UNCHANGED <<now, registry, issued>>

RemoveTrip ==
  /\ ~failed
  /\ \E t \in Entered(registry) :
       /\ runtime' = RT!RemoveTrip(runtime, t)
       /\ overlay' = OV!RemoveTrain(overlay, t)
       /\ registry' = [registry EXCEPT ![t] = NoEntry]
  /\ failed' = ~Agree(runtime', overlay', registry')
  /\ UNCHANGED <<now, issued>>

Reset == issued > 0 /\ Fresh /\ UNCHANGED now

-----------------------------------------------------------------------------
(* The console's loop steps the controller.                                *)

Revised(entry) == [entry EXCEPT !.revision = @ + 1]

\* consume_runtime_event: the first event that does not fit ends it.
Consume(st, e) ==
  LET t     == e.train
      entry == IF e.type \in {"STARTED", "WAIT", "RESUMED"} THEN st.registry[t]
               ELSE Revised(st.registry[t])
      w     == runtime.trains[t].route[e.at]
      g     == entry.generation
      r     == entry.revision
      shown == CASE e.type = "PULSE" ->
                      OV!UpdateAtSensor(st.overlay, t, w.thing, w.cell, r, e.serial, e.tick)
                 [] e.type \in {"TURNOUT", "REVERSAL"} -> OV!UpdatePredictedCell(st.overlay, t, w.cell, r)
                 [] e.type = "ARRIVED" -> OV!UpdateAtDestination(st.overlay, t, w.cell, r)
                 [] OTHER -> st.overlay
      takes == CASE e.type = "PULSE" -> OV!TakesSensor(st.overlay, t, w.thing, g, r, e.serial)
                 [] e.type \in {"TURNOUT", "REVERSAL", "ARRIVED"} -> OV!Current(st.overlay, t, g, r)
                 [] OTHER -> TRUE
  IN  IF st.error \/ ~entry.active \/ e.serial <= entry.event \/ ~takes
      THEN [st EXCEPT !.error = TRUE]
      ELSE [overlay  |-> shown, error |-> FALSE,
            registry |-> [st.registry EXCEPT ![t] =
              IF e.type \in {"STARTED", "WAIT", "RESUMED"} THEN [entry EXCEPT !.event = e.serial]
              ELSE [entry EXCEPT !.event = e.serial, !.moved = e.tick, !.cell = w.cell]]]

SpeedShown(rt, reg, t) == IF rt.trains[t].state = "RUNNING" THEN reg[t].speed ELSE 0

\* A running train is drawn where it is now, unless an event of this tick did.
Draw(rt, time, st, t) ==
  LET speedy == [st EXCEPT !.overlay = OV!SetSpeed(@, t, SpeedShown(rt, st.registry, t))]
      cell   == CellOf(rt.trains[t])
      entry  == Revised(st.registry[t])
  IN  IF \/ rt.trains[t].state # "RUNNING" \/ st.registry[t].moved = time
         \/ cell = st.registry[t].cell
      THEN speedy
      ELSE IF ~OV!Current(speedy.overlay, t, entry.generation, entry.revision)
      THEN [speedy EXCEPT !.error = TRUE]
      ELSE [error    |-> st.error,
            overlay  |-> OV!UpdatePredictedCell(speedy.overlay, t, cell, entry.revision),
            registry |-> [st.registry EXCEPT ![t] = [entry EXCEPT !.moved = time, !.cell = cell]]]

StepTo(time) ==
  LET run   == RT!Step(runtime, time)
      told  == FoldLeft(Consume, [overlay |-> overlay, registry |-> registry, error |-> FALSE], run.log)
      drawn == FoldLeft(LAMBDA st, t : Draw(run, time, st, t), told,
                        SetToSeq(RT!Present(runtime)))
      done  == IF told.error THEN told
               ELSE [drawn EXCEPT !.overlay = OV!ExpireFlashes(@, time)]
  IN  /\ runtime' = [tick |-> run.tick, serial |-> run.serial, trains |-> run.trains]
      /\ overlay' = done.overlay
      /\ registry' = done.registry
      /\ failed' = (done.error \/ ~Agree(runtime', overlay', registry'))

\* Time goes by before the loop comes round: usually a tick, sometimes more
\* than the runtime takes.  From then on every step is refused.
Step ==
  /\ ~failed
  /\ \E time \in now + 1 .. now + MaxStep + 1 :
       /\ time <= MaxTime
       /\ now' = time
       /\ IF RT!MayStep(runtime, time) THEN StepTo(time)
          ELSE UNCHANGED <<runtime, overlay, registry, failed>>
  /\ UNCHANGED issued

Next == Stage \/ Go \/ RemoveTrip \/ Reset \/ Step

Spec == Init /\ [][Next]_vars

ControllerAssumption ==
  /\ Slots \in Nat \ {0} /\ Reserved \in 0 .. Slots /\ MaxStep \in Nat \ {0}
  /\ \A t \in DOMAIN FixedColour : t \in Trains /\ FixedColour[t] \in 0 .. Reserved - 1
  /\ \A p \in Plans : p.train \in Trains /\ p.speed \in Nat \ {0}

-----------------------------------------------------------------------------
(* What should hold.                                                       *)

\* No event of the runtime is ever refused by the overlay, and the three
\* records never differ: nothing closes the controller but a programming
\* error (consume_runtime_event, validate_registry, Tc2OfflineControllerStep).
NeverFailsClosed == ~failed

\* The track a train is on while it goes from a to b.
Pieces(route, a, b) ==
  UNION {RT!Keys(route[i]) : i \in {i \in DOMAIN route : route[i].at \in a .. b}} \cup
  {RT!Edge(route, i) : i \in {i \in 2 .. Len(route) : route[i - 1].at < b /\ route[i].at > a}}

Swept(t) ==
  IF runtime'.trains[t].entered
  THEN Pieces(runtime'.trains[t].route, runtime.trains[t].at, runtime'.trains[t].at) ELSE {}

\* Within a tick no two trains are on the same piece of track, not even one
\* after the other: a train gives up what it leaves when the tick is over.
TrainsKeepApart ==
  [][runtime'.tick = runtime.tick + 1 =>
       \A t, u \in Trains : t # u => Swept(t) \cap Swept(u) = {}]_vars

\* A train is drawn in a colour of its own, where it runs or at the way-point
\* it has just passed; at rest when it waits or has arrived; at its start until
\* it has left it, and at its destination when it has arrived.  Its flashes
\* have its colour and are of sensors it has passed on this trip.
MarkersTrue ==
  \A t \in OV!Shown(overlay) :
    LET mark == overlay.marks[t]
        trip == runtime.trains[t]
    IN  /\ \A u \in OV!Shown(overlay) \ {t} : overlay.marks[u].colour # mark.colour
        /\ t \in DOMAIN FixedColour => mark.colour = FixedColour[t]
        /\ trip.state = "RUNNING" /\ runtime.tick = now =>
             mark.cell \in {CellOf(trip), trip.route[trip.next - 1].cell}
        /\ mark.speed > 0 => trip.armed
        /\ trip.state \in {"WAIT_CONFLICT", "ARRIVED"} => mark.speed = 0
        /\ mark.kind = "start" => trip.next = 2
        /\ mark.kind = "destination" <=> trip.state = "ARRIVED"

FlashesBelong ==
  \A s \in Sensors : overlay.flashes[s].active =>
    LET flash == overlay.flashes[s]
        trip  == runtime.trains[flash.train]
    IN  /\ flash.train \in OV!Shown(overlay)
        /\ flash.colour = overlay.marks[flash.train].colour
        /\ flash.generation = trip.epoch
        /\ \E i \in 2 .. trip.next - 1 :
             trip.route[i].kind \in {"sensor", "reversal"} /\ trip.route[i].thing = s

SimulationIsTrue == NeverFailsClosed /\ MarkersTrue /\ FlashesBelong
=============================================================================
