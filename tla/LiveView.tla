------------------------------ MODULE LiveView ------------------------------
(***************************************************************************)
(* What the live dashboard believes of one train.  The dispatcher replans  *)
(* the train, publishes the way-points of a plan and withdraws them        *)
(* (tc2_dispatch.c); the console asks for a snapshot of the job and of the *)
(* sensors, then for a header, then for the pages of way-points, all while *)
(* the dispatcher goes on (train_control.c), and moves the marker of the   *)
(* train along the plan it has collected (tc2_live_ui.c, tc2_ui_overlay.c).*)
(* Distances are small numbers; the time a marker has had to advance is    *)
(* any time.                                                               *)
(***************************************************************************)
EXTENDS Integers, Sequences, FiniteSetsExt

CONSTANTS
  Routes,          \* plans: sequences of way-points, from the start to the destination
  Sensors,
  PageCapacity,    \* way-points of a page
  MaxGeneration,   \* bound: plans
  MaxEvents        \* bound: attributed sensor events

NoSensor == "none"

LiveViewAssumption ==
  /\ NoSensor \notin Sensors /\ Sensors # {} /\ Routes # {}
  /\ PageCapacity \in Nat \ {0} /\ MaxEvents \in Nat
  /\ \A r \in Routes :
       /\ r \in Seq([at : Nat, sensor : Sensors \cup {NoSensor}]) /\ Len(r) > 1 /\ r[1].at = 0
       /\ \A i \in 1..Len(r) - 1 : r[i].at <= r[i + 1].at

VARIABLES
  job,        \* the dispatcher's record of the train: state, start, plan_generation, projection_valid
  publication,\* valid, publication_serial, plan_generation, waypoints
  serial,     \* dispatch_projection_serial
  events,     \* last event of each sensor that was attributed to the train
  pc,         \* where the console is: "look", "sense", "header", "page", "sync"
  seen,       \* its snapshot of the job and of the sensors
  header,     \* the header it works on
  scratch,    \* the way-points collected so far
  ui,         \* its record of the train
  overlay,    \* the marker: active, plan_generation, and plan_generation_high_water
  published   \* history: every plan that was published, with its generation

dispatcher == <<job, publication, serial, events, published>>
console    == <<pc, seen, header, scratch, ui, overlay>>
vars       == <<dispatcher, console>>

NoJob == [state |-> "empty", start |-> "label", plan_generation |-> 0,
          projection_valid |-> FALSE, publication_serial |-> 0]
NoEvent == [plan_generation |-> 0, sequence |-> 0]
NoPublication == [valid |-> FALSE, publication_serial |-> 0, plan_generation |-> 0, waypoints |-> <<>>]
NoView == [active |-> FALSE, plan_generation |-> 0, localization_placeholder |-> FALSE,
            awaiting_current_sensor |-> FALSE, handoff |-> FALSE, last_sensor_sequence |-> 0,
            confirmed |-> 0, displayed |-> 0, at_destination |-> FALSE, waypoints |-> <<>>]

NotLooked == [job |-> NoJob, events |-> [s \in Sensors |-> NoEvent]]

Init ==
  /\ job = NoJob /\ publication = NoPublication /\ serial = 0 /\ published = {}
  /\ events = [s \in Sensors |-> NoEvent]
  /\ pc = "look" /\ seen = NotLooked
  /\ header = NoPublication /\ scratch = <<>>
  /\ ui = NoView
  /\ overlay = [active |-> FALSE, plan_generation |-> 0, high_water |-> 0]

-----------------------------------------------------------------------------
\* The dispatcher.

\* invalidate_projection
Withdrawn == [publication EXCEPT !.valid = FALSE]
Unpublished(j) == [j EXCEPT !.projection_valid = FALSE, !.publication_serial = 0]

\* stage_job: the train's reservation lends the record its generation; nothing
\* is published until the route is prepared.
Stage ==
  /\ job.state \in {"empty", "stopped"}
  /\ \E start \in {"label", "current", "calibration"}, g \in {job.plan_generation, job.plan_generation + 1} :
       /\ g \in 1..MaxGeneration /\ \A p \in published : p[1] <= g
       /\ job' = [NoJob EXCEPT !.state = "waiting", !.start = start, !.plan_generation = g]
  /\ publication' = Withdrawn
  /\ UNCHANGED <<serial, events, published>>

\* prepare_waiting_job with publish_projection: a new generation, published --
\* or withdrawn, while the first leg of an estimated train only localizes it.
\* A calibration run is never published.
Prepare ==
  /\ job.state \in {"waiting", "moving"} /\ job.plan_generation < MaxGeneration
  /\ LET g == job.plan_generation + 1
         prepared == [job EXCEPT !.state = "moving", !.plan_generation = g]
     IN \/ /\ job.start # "calibration"
           /\ \E r \in Routes :
                /\ publication' = [valid |-> TRUE, publication_serial |-> serial + 1,
                                   plan_generation |-> g, waypoints |-> r]
                /\ published' = published \cup {<<g, r>>}
           /\ serial' = serial + 1
           /\ job' = [prepared EXCEPT !.projection_valid = TRUE, !.publication_serial = serial + 1]
        \/ /\ job.start # "label"
           /\ job' = Unpublished(prepared) /\ publication' = Withdrawn
           /\ UNCHANGED <<serial, published>>
  /\ UNCHANGED events

\* fail_job and cancel_job withdraw the plan; the record stays until it is
\* removed.  A train that arrives keeps it.
Halt ==
  /\ job.state \in {"waiting", "moving"}
  /\ \/ job' = [Unpublished(job) EXCEPT !.state = "stopped"] /\ publication' = Withdrawn
     \/ job.state = "moving" /\ job' = [job EXCEPT !.state = "arrived"] /\ UNCHANGED publication
  /\ UNCHANGED <<serial, events, published>>

RemoveJob ==
  /\ job.state \in {"stopped", "arrived"}
  /\ job' = [NoJob EXCEPT !.plan_generation = job.plan_generation] /\ publication' = Withdrawn
  /\ UNCHANGED <<serial, events, published>>

\* The sensor server attributes an event to the train's present plan.
Event ==
  /\ job.state \in {"moving", "stopped"}
  /\ LET last == Max({events[s].sequence : s \in Sensors})
     IN /\ last < MaxEvents
        /\ \E s \in Sensors :
             events' = [events EXCEPT ![s] =
               [plan_generation |-> job.plan_generation, sequence |-> last + 1]]
  /\ UNCHANGED <<job, publication, serial, published>>

Dispatcher == (Stage \/ Prepare \/ Halt \/ RemoveJob \/ Event) /\ UNCHANGED console

-----------------------------------------------------------------------------
\* Collecting a plan.

\* Tc2LiveUiHasPlan
HasPlan(g) == ui.active /\ ui.plan_generation = g /\ ~ui.localization_placeholder

\* tc2_sync_live_ui: a snapshot of the jobs,
Look ==
  /\ pc = "look" /\ pc' = "sense"
  /\ seen' = [seen EXCEPT !.job = job]
  /\ UNCHANGED <<header, scratch, ui, overlay>>

\* Mutant: a train that is shown is not asked about again.
SenseOnce ==
  /\ pc = "sense"
  /\ seen' = [seen EXCEPT !.events = events]
  /\ pc' = IF seen.job.state = "empty" \/ ui.active THEN "sync" ELSE "header"
  /\ UNCHANGED <<header, scratch, ui, overlay>>

\* and then one of the sensors; a plan that the console does not show yet is
\* asked for.
Sense ==
  /\ pc = "sense"
  /\ seen' = [seen EXCEPT !.events = events]
  /\ pc' = IF seen.job.state = "empty" \/ HasPlan(seen.job.plan_generation)
           THEN "sync" ELSE "header"
  /\ UNCHANGED <<header, scratch, ui, overlay>>

\* Tc2LiveUiAcceptProjection with the overlay's upsert.  A plan is taken once
\* and only if it is newer than the one shown and than any shown before; the
\* way-points of a train that was shown as a placeholder may follow.  Where the
\* marker stands already is on the new route (at), or it waits for a sensor.
Upgrade(g, waypoints) ==
  /\ ui.active /\ ui.plan_generation = g /\ ui.localization_placeholder
  /\ seen.job.start = "current" /\ Len(waypoints) > 1
Newer(g) == g > ui.plan_generation /\ g > overlay.high_water
Accept(g, waypoints, at) ==
  IF ~Upgrade(g, waypoints) /\ ~Newer(g) THEN UNCHANGED <<ui, overlay>>
  ELSE LET retained == seen.job.start = "current" /\ overlay.active
           aligned  == at >= 0
       IN /\ ui' = [NoView EXCEPT
               !.active = TRUE, !.plan_generation = g, !.waypoints = waypoints,
               !.localization_placeholder = seen.job.start = "current" /\ Len(waypoints) = 1,
               !.last_sensor_sequence = ui.last_sensor_sequence,
               !.awaiting_current_sensor = retained /\ Len(waypoints) > 1 /\ ~aligned,
               !.displayed = IF retained /\ Len(waypoints) > 1 /\ aligned THEN at ELSE 0,
               !.confirmed = IF retained /\ Len(waypoints) > 1 /\ aligned THEN at
                             ELSE IF Upgrade(g, waypoints) THEN ui.confirmed ELSE 0]
          /\ overlay' = [active |-> TRUE, plan_generation |-> g, high_water |-> g]

\* Where the shown marker may lie on the first stretch of the route; -1: nowhere.
Alignments(waypoints) == {-1} \cup (IF Len(waypoints) > 1 THEN 0..waypoints[2].at ELSE {})

\* The first step of tc2_load_live_projection.  Without a publication, a train
\* that starts where it stands is shown there, and a calibration run as a line
\* from its start to its destination.  A header of another plan than the one of
\* the snapshot ends the attempt.
Header ==
  /\ pc = "header"
  /\ IF seen.job.projection_valid
     THEN LET found == publication.valid /\ job.projection_valid
                         /\ publication.publication_serial = seen.job.publication_serial
                         /\ publication.plan_generation = seen.job.plan_generation
          IN /\ header' = IF found THEN publication ELSE NoPublication
             /\ pc' = IF found THEN "page" ELSE "sync"
             /\ UNCHANGED <<scratch, ui, overlay>>
     ELSE /\ pc' = "sync" /\ UNCHANGED <<header, scratch>>
          /\ LET here == [at |-> 0, sensor |-> NoSensor]
                 line == CHOOSE r \in Routes : TRUE
             IN CASE seen.job.start = "current" /\ overlay.active ->
                       Accept(seen.job.plan_generation, <<here>>, -1)
                  [] seen.job.start = "calibration" ->
                       Accept(seen.job.plan_generation, <<here, line[Len(line)]>>, -1)
                  [] OTHER -> UNCHANGED <<ui, overlay>>
  /\ UNCHANGED seen

\* projection_page_for_train answers for the publication that was asked for or
\* not at all.
PageThere ==
  /\ publication.valid /\ job.projection_valid
  /\ publication.publication_serial = header.publication_serial
  /\ publication.plan_generation = header.plan_generation
Page ==
  /\ pc = "page" /\ UNCHANGED <<seen, header>>
  /\ IF ~PageThere THEN pc' = "sync" /\ UNCHANGED <<scratch, ui, overlay>>
     ELSE LET rest  == SubSeq(publication.waypoints, Len(scratch) + 1, Len(publication.waypoints))
              more  == scratch \o SubSeq(rest, 1, Min({PageCapacity, Len(rest)}))
          IN /\ scratch' = more
             /\ IF Len(more) < Len(header.waypoints) THEN UNCHANGED <<pc, ui, overlay>>
                ELSE /\ pc' = "sync"
                     /\ \E at \in Alignments(more) : Accept(header.plan_generation, more, at)

-----------------------------------------------------------------------------
\* Tc2LiveUiSync: the snapshot moves the marker.

\* next_unconfirmed_sensor_distance_um
UnconfirmedSensors(t) ==
  {i \in DOMAIN t.waypoints : t.waypoints[i].sensor # NoSensor /\ t.waypoints[i].at > t.confirmed}
Gate(t) == Min({t.waypoints[i].at : i \in UnconfirmedSensors(t)})

\* One round of apply_new_sensor_events.  An event that fits no way-point ahead
\* is consumed, unless the plan is still incomplete: then it and the later ones
\* are left for the plan that follows.
Confirm(state, s) ==
  LET t    == state.train
      fits == {i \in DOMAIN t.waypoints : t.waypoints[i].sensor = s /\ t.waypoints[i].at > t.confirmed}
      at   == Min({t.waypoints[i].at : i \in fits})
      seq  == seen.events[s].sequence
  IN IF state.stuck THEN state
     ELSE IF fits = {} /\ (t.localization_placeholder \/ t.awaiting_current_sensor)
     THEN [state EXCEPT !.stuck = TRUE]
     ELSE IF fits = {} THEN [state EXCEPT !.train.last_sensor_sequence = seq]
     ELSE [state EXCEPT !.train = [t EXCEPT
             !.last_sensor_sequence = seq, !.awaiting_current_sensor = FALSE,
             !.confirmed = at, !.displayed = Max({t.displayed, at})]]

\* The events are taken in the order of their numbers, which are all different.
ApplyNewEvents(t) ==
  LET New(n) == {s \in Sensors : /\ seen.events[s].plan_generation = t.plan_generation
                                 /\ seen.events[s].sequence = n /\ n > t.last_sensor_sequence}
      last == Max({seen.events[s].sequence : s \in Sensors})
      after[n \in 0 .. last] ==
        IF n = 0 THEN [train |-> t, stuck |-> FALSE]
        ELSE IF New(n) = {} THEN after[n - 1]
        ELSE Confirm(after[n - 1], CHOOSE s \in New(n) : TRUE)
  IN after[last].train

\* update_predicted_position: forward by any amount, not past the destination,
\* and not onto a sensor that has not reported.
\* Mutant: a slower estimate pulls the marker back.
PredictedAnew(t, progress) ==
  IF t.awaiting_current_sensor \/ Len(t.waypoints) = 1 THEN t
  ELSE [t EXCEPT !.displayed = IF UnconfirmedSensors(t) = {} THEN progress ELSE Min({progress, Gate(t) - 1})]
Predicted(t, progress) ==
  LET end == t.waypoints[Len(t.waypoints)].at
      far == Max({t.displayed, Min({progress, end})})
      hold == UnconfirmedSensors(t) # {} /\ Gate(t) - 1 >= t.displayed
  IN IF t.awaiting_current_sensor \/ Len(t.waypoints) = 1 THEN t
     ELSE [t EXCEPT !.displayed = IF hold THEN Min({far, Gate(t) - 1}) ELSE far]

Advances(t) == 0..t.waypoints[Len(t.waypoints)].at

\* update_arrived_position
Arrived(t, state) == [t EXCEPT !.at_destination = @ \/ state = "arrived"]

\* The console's work space is not read again (a bound on states, not the code).
Forgotten == seen' = NotLooked /\ header' = NoPublication /\ scratch' = <<>>

\* A train whose snapshot has another generation keeps its marker; if that
\* lasts, its route is no longer believed.  A train without a job is removed.
Sync ==
  /\ pc = "sync" /\ pc' = "look" /\ Forgotten
  /\ IF ~ui.active THEN UNCHANGED <<ui, overlay>>
     ELSE IF seen.job.state = "empty"
     THEN ui' = NoView /\ overlay' = [overlay EXCEPT !.active = FALSE, !.plan_generation = 0]
     ELSE IF seen.job.plan_generation # ui.plan_generation
     THEN /\ UNCHANGED overlay
          /\ \/ ui' = [ui EXCEPT !.handoff = TRUE]
             \/ ui.handoff /\ ui' = [ui EXCEPT !.localization_placeholder = TRUE,
                                               !.awaiting_current_sensor = TRUE]
     ELSE /\ UNCHANGED overlay
          /\ LET confirmed == [ApplyNewEvents(ui) EXCEPT !.handoff = FALSE]
             IN \E progress \in Advances(ui) :
                  ui' = Arrived(IF seen.job.state = "moving" THEN Predicted(confirmed, progress)
                                ELSE confirmed, seen.job.state)

Console == (Look \/ Sense \/ Header \/ Page \/ Sync) /\ UNCHANGED dispatcher

Next == Dispatcher \/ Console
Spec == Init /\ [][Next]_vars

\* The console task loops; nothing is assumed of the dispatcher.
Fairness == WF_vars(Console)

-----------------------------------------------------------------------------
\* The way-points of a train are one published plan, of the train's generation,
\* complete -- whatever was published or withdrawn while they were collected --
\* unless the plan is one the console makes up itself; and the marker never
\* stands on or beyond a sensor of the plan that has not reported.
ShownPlanIsWhole ==
  ui.active =>
    /\ Len(ui.waypoints) > 2 => <<ui.plan_generation, ui.waypoints>> \in published
    /\ \A i \in UnconfirmedSensors(ui) : ui.displayed < ui.waypoints[i].at

\* A marker moves forward along its plan, and a plan gives way to newer ones
\* only, even when the train was removed in between.
MarkerOnlyAdvances ==
  [][/\ overlay'.high_water >= overlay.high_water
     /\ ui'.active => ui'.plan_generation = overlay'.high_water
     /\ (ui.active /\ ui'.active /\ ui'.plan_generation = ui.plan_generation
           /\ Len(ui'.waypoints) = Len(ui.waypoints))
        => ui'.displayed >= ui.displayed /\ ui'.confirmed >= ui.confirmed]_vars

\* When the dispatcher leaves a published plan alone, the console shows it.
PlanShows ==
  <>[][UNCHANGED <<job, publication>>]_vars =>
    []<>(job.projection_valid => HasPlan(job.plan_generation))
=============================================================================
