------------------------------- MODULE Progress -------------------------------
(***************************************************************************)
(* How the dispatcher follows a train by the sensors it passes.  A report  *)
(* of the track goes to the sensor server, which asks the reservation      *)
(* server who owns the sensor and under which plan, and notes the event in *)
(* the train's journal (train_sensor.c).  The job launches on a journal    *)
(* that has been quiet since its plan was made, reads it on every pass,    *)
(* and moves along its route by the events that the route monitor expects  *)
(* (tc2_route_monitor.c).  A route may turn round at a sensor, where the   *)
(* train stops and comes back over it.                                     *)
(*                                                                         *)
(* One train on a straight track of sensors 1 .. Last.  Distances and      *)
(* times are not modelled: where a deadline says that the train should be  *)
(* near its sensor, it is.  The services are healthy and the train holds   *)
(* its whole route.                                                        *)
(***************************************************************************)
EXTENDS Integers, Sequences

CONSTANTS
  Last,      \* the track: sensors 1 .. Last
  MaxTrips,  \* plans made, a bound
  MaxLost,   \* reports lost, a bound
  MaxNoise   \* reports of a sensor that the train has not reached, a bound

Sensors == 1 .. Last

ProgressAssumption == {Last, MaxTrips, MaxLost, MaxNoise} \subseteq Nat

VARIABLES
  train,     \* the section it is in, its direction, and whether it rolls
  reached,   \* how far along its route it is
  line,      \* reports that the sensor server has not received
  server,    \* the report it is dealing with
  owned, generation,  \* the reservation server: the train's sensors and plan
  journal,   \* the train's events, in order
  foreign,   \* unattributed_count
  job,       \* the dispatcher's job
  lost, noise

vars == <<train, reached, line, server, owned, generation, journal, foreign, job, lost, noise>>
Pipeline == <<line, server, journal, foreign>>

Idle == [is |-> "idle", sensor |-> 0, generation |-> 0]

NoJob ==
  [state |-> "idle", generation |-> 0, route |-> <<>>, start |-> 1, confirmed |-> 1,
   prepared |-> [count |-> 0, foreign |-> 0], final |-> [count |-> 0, foreign |-> 0],
   cursor |-> 0, missed |-> FALSE, missing |-> 0, spurious |-> 0, tolerated |-> FALSE,
   seen |-> FALSE, turned |-> FALSE]

Init ==
  /\ train = [at |-> 0, dir |-> 1, rolls |-> FALSE] /\ reached = 1
  /\ line = <<>> /\ server = Idle
  /\ owned = {} /\ generation = 0
  /\ journal = <<>> /\ foreign = 0
  /\ job = NoJob
  /\ lost = 0 /\ noise = 0

-----------------------------------------------------------------------------
(* Routes.                                                                 *)

Span(a, b) == IF a <= b THEN [i \in 1 .. b - a + 1 |-> a + i - 1]
              ELSE [i \in 1 .. a - b + 1 |-> a - i + 1]

\* From the sensor behind the train, which may be the end of the track, in
\* direction d; the last leg may come back from where the first ends.
Routes(d) ==
  LET from == IF d = 1 THEN train.at ELSE train.at + 1
      Out  == {e \in Sensors : (e - from) * d > 0}
  IN  {Span(from, e) : e \in Out}
        \cup UNION {{Span(from, e) \o Span(e, b) : b \in {b \in Sensors : (e - b) * d > 0}} : e \in Out}

\* TrackRouteMotionLegEnd: the leg ends where the route turns round.  (On the
\* last leg init_leg_monitor also lets the monitor match the sensor behind the
\* destination; here a train does not reach it and nothing else sets it off.)
LegEnd(j) ==
  LET turns == {i \in j.start .. Len(j.route) - 1 : j.route[i] = j.route[i + 1]}
  IN  IF turns = {} THEN Len(j.route) ELSE CHOOSE i \in turns : \A k \in turns : i <= k

LastLeg(j) == LegEnd(j) = Len(j.route)

\* update_remaining_footprint: from the sensor before the confirmed one on.
Footprint(j) == {j.route[i] : i \in (j.confirmed - 1) .. Len(j.route)
                               \cap DOMAIN j.route} \cap Sensors

-----------------------------------------------------------------------------
(* The train and the track.                                                *)

NextSensor == IF train.dir = 1 THEN train.at + 1 ELSE train.at

\* The sensor where it turned, again.
Recrosses == job.start > 1 /\ reached = job.start /\ NextSensor = job.route[job.start]

\* Bound: it stops before the next sensor after the end of its leg.
OnItsLeg == reached < LegEnd(job) /\ NextSensor = job.route[reached + 1]

\* Going back over the sensor it may not have left it.
Rolls ==
  /\ train.rolls
  /\ OnItsLeg \/ Recrosses
  /\ train' = [train EXCEPT !.at = @ + train.dir]
  /\ reached' = IF OnItsLeg THEN reached + 1 ELSE reached
  /\ \/ line' = Append(line, NextSensor) /\ UNCHANGED lost
     \/ Recrosses /\ UNCHANGED <<line, lost>>
     \/ OnItsLeg /\ lost < MaxLost /\ lost' = lost + 1 /\ UNCHANGED line
  /\ UNCHANGED <<server, owned, generation, journal, foreign, job, noise>>

Ahead == {job.route[i] : i \in reached + 1 .. Len(job.route)}

\* A bounce, or somebody else: any sensor while the train has no order to
\* start, and later one that it does not have ahead of it.
Noise ==
  /\ noise < MaxNoise /\ noise' = noise + 1
  /\ \E s \in Sensors :
       /\ job.state \in {"launching", "running", "braking", "looked", "checked"} => s \notin Ahead
       /\ line' = Append(line, s)
  /\ UNCHANGED <<train, reached, server, owned, generation, journal, foreign, job, lost>>

\* Zero has been sent, and the train comes to rest; where it is told so for
\* the end of its leg it gets there.
Halts ==
  /\ train.rolls /\ job.state \in {"braking", "failed"}
  /\ job.state = "braking" => reached = LegEnd(job)
  /\ train' = [train EXCEPT !.rolls = FALSE]
  /\ UNCHANGED <<reached, Pipeline, owned, generation, job, lost, noise>>

-----------------------------------------------------------------------------
(* The sensor server, for one report of a new occupation.                  *)

Take ==
  /\ server.is = "idle" /\ line # <<>>
  /\ server' = [is |-> "taken", sensor |-> Head(line), generation |-> 0]
  /\ line' = Tail(line)
  /\ UNCHANGED <<train, reached, owned, generation, journal, foreign, job, lost, noise>>

\* TrackReservationServerLookupNode.
Lookup ==
  /\ server.is = "taken"
  /\ server' = IF server.sensor \in owned
               THEN [server EXCEPT !.is = "owned", !.generation = generation]
               ELSE [server EXCEPT !.is = "foreign"]
  /\ UNCHANGED <<train, reached, line, owned, generation, journal, foreign, job, lost, noise>>

\* TrainSensorRecordAttribution and TrainSensorJournalRecord.
Record ==
  /\ server.is \in {"owned", "foreign"}
  /\ IF server.is = "owned"
     THEN journal' = Append(journal, [sensor |-> server.sensor, generation |-> server.generation])
          /\ UNCHANGED foreign
     ELSE foreign' = foreign + 1 /\ UNCHANGED journal
  /\ server' = Idle
  /\ UNCHANGED <<train, reached, line, owned, generation, job, lost, noise>>

\* It answers requests between reports.  TrainSensorGetLatest:
Snapshot == [count |-> Len(journal), foreign |-> foreign]

\* journal_is_clean_after.
CleanAfter(n) == Len(journal) <= n

-----------------------------------------------------------------------------
(* The job up to its launch.                                               *)

JobOnly == UNCHANGED <<train, reached, Pipeline, owned, generation, lost, noise>>

To(state) == [job EXCEPT !.state = state]

\* fail_job sends zero.
Fails == job' = To("failed") /\ JobOnly

\* Bound: a report takes less time than a stop, the turnouts and a pause.
ReportsArrived == line = <<>> /\ server = Idle

\* prepare_waiting_job looks at the sensors,
Looks ==
  /\ job.state \in {"idle", "arrived"} /\ generation < MaxTrips
  /\ server.is = "idle"
  /\ job' = [NoJob EXCEPT !.state = "planning", !.prepared = Snapshot]
  /\ JobOnly

\* and then makes a plan: init_leg_monitor starts at the numbers it saw.
Plans ==
  /\ job.state = "planning"
  /\ \E d \in {1, -1} : \E r \in Routes(d) :
       LET j == [job EXCEPT !.state = "preparing", !.generation = generation + 1,
                            !.route = r, !.cursor = job.prepared.count]
       IN  /\ job' = j /\ generation' = generation + 1 /\ owned' = Footprint(j)
           /\ train' = [train EXCEPT !.dir = d]
  /\ reached' = 1
  /\ UNCHANGED <<Pipeline, lost, noise>>

\* Nothing has been heard of its sensors, or of nobody's, since then.
Quiet == foreign = job.prepared.foreign /\ CleanAfter(job.prepared.count)

\* process_preparing_jobs.
Prepares ==
  /\ job.state = "preparing" /\ server.is = "idle"
  /\ IF Quiet THEN job' = To("ready") /\ JobOnly ELSE Fails

\* launch_ready_jobs takes a last snapshot,
LaunchLooks ==
  /\ job.state = "ready" /\ ReportsArrived
  /\ job' = [job EXCEPT !.state = "looked", !.final = Snapshot]
  /\ JobOnly

\* looks at the journal,
LaunchChecks ==
  /\ job.state = "looked" /\ server.is = "idle"
  /\ IF job.final.foreign = job.prepared.foreign /\ CleanAfter(job.prepared.count)
     THEN job' = To("checked") /\ JobOnly ELSE Fails

\* Mutant: the numbers of the moment at which it sends.
NumbersNow == Snapshot

\* The numbers the job starts from are those it has checked,
LaunchNumbers == job.final

\* and it sends the command; the job reads the journal from there on.
LaunchSends ==
  /\ job.state = "checked"
  /\ job' = [job EXCEPT !.state = "launching", !.cursor = LaunchNumbers.count,
                        !.final = LaunchNumbers]
  /\ train' = [train EXCEPT !.rolls = TRUE]
  /\ UNCHANGED <<reached, Pipeline, owned, generation, lost, noise>>

LaunchConfirmed == job.state = "launching" /\ job' = To("running") /\ JobOnly

-----------------------------------------------------------------------------
(* process_running_jobs, for a train that runs or brakes.                  *)

Followed == job.state \in {"running", "braking"} /\ server.is = "idle"

\* A sensor that nobody owns: once it may be noise.  (final.foreign is
\* launch_unattributed_count.)
Tolerates(j) == foreign = j.final.foreign + 1 /\ ~j.tolerated /\ j.spurious = 0

HearsForeign ==
  /\ Followed /\ foreign # job.final.foreign
  /\ IF Tolerates(job)
     THEN /\ job' = [job EXCEPT !.final.foreign = foreign, !.tolerated = TRUE, !.spurious = 1]
          /\ JobOnly
     ELSE Fails

Event == journal[job.cursor + 1]

\* Tc2RouteMonitorObserve: the offset that the event advances to, or 0.
Matched ==
  LET next == job.confirmed + 1
      fits(o) == o <= LegEnd(job) /\ Event.sensor = job.route[o]
  IN  IF fits(next) THEN next ELSE IF fits(next + 1) /\ ~job.missed THEN next + 1 ELSE 0

Read == [job EXCEPT !.cursor = @ + 1]

\* process_sensor_observation.  An event of another plan is passed over.  (The
\* matching by measured distance, which some routes use instead, is left out.)
Observes ==
  /\ Followed /\ foreign = job.final.foreign /\ job.cursor < Len(journal)
  /\ LET skips == Matched = job.confirmed + 2
         atEnd == Matched = LegEnd(job)
         moved == [Read EXCEPT !.confirmed = Matched, !.missed = @ \/ skips,
                     !.missing = IF skips THEN @ + 1 ELSE @,
                     !.seen = @ \/ (atEnd /\ ~skips),
                     !.state = IF atEnd THEN "braking" ELSE @]
     IN  IF Event.generation # job.generation THEN job' = Read /\ JobOnly
         ELSE IF Matched = 0
              THEN IF job.spurious = 1 THEN Fails
                   ELSE job' = [Read EXCEPT !.spurious = 1] /\ JobOnly
              ELSE IF moved.missing > 1 \/ (atEnd /\ skips /\ ~LastLeg(job)) THEN Fails
                   ELSE /\ job' = moved
                        /\ owned' = IF skips THEN owned ELSE Footprint(moved)
                        /\ UNCHANGED <<train, reached, Pipeline, generation, lost, noise>>

\* Mutant: only a train that has been seen at the end of its leg is stopped.
OnceSeen == job.seen

\* The deadline for the end of the leg, for a train close to it.  It may come at
\* any time from then on: a crossing without power and the search for a last
\* sensor put it off, as long as the motion model takes for them.
Due == reached + 1 >= LegEnd(job)

DeadlineStops == job.state = "running" /\ Due /\ job' = To("braking") /\ JobOnly

-----------------------------------------------------------------------------
(* process_braking_and_reversing.                                          *)

\* At rest at the end of a leg: there, on to the next leg, or who knows.  The
\* pass for running jobs, earlier in the tick, has read the journal.
Settles ==
  /\ job.state = "braking" /\ ~train.rolls
  /\ ReportsArrived /\ job.cursor = Len(journal)
  /\ LET turn == [job EXCEPT !.state = "reversing", !.start = LegEnd(job) + 1,
                    !.confirmed = LegEnd(job) + 1, !.missed = FALSE, !.seen = FALSE,
                    !.turned = FALSE]
     IN  \/ LastLeg(job) /\ job.seen /\ job' = To("arrived") /\ UNCHANGED <<owned, reached>>
         \/ LastLeg(job) /\ ~job.seen /\ job' = To("uncertain") /\ UNCHANGED <<owned, reached>>
         \/ ~LastLeg(job) /\ ~job.seen /\ job' = To("failed") /\ UNCHANGED <<owned, reached>>
         \/ ~LastLeg(job) /\ job.seen /\ job' = turn
              /\ owned' = Footprint(turn) /\ reached' = turn.start
  /\ UNCHANGED <<train, Pipeline, generation, lost, noise>>

\* reversing_preflight_failure: quiet since the last event that was read.
Unmoved == (foreign = job.final.foreign \/ Tolerates(job)) /\ CleanAfter(job.cursor)

\* accept_unattributed_for_job.
Accepted ==
  IF Tolerates(job) THEN [job EXCEPT !.final.foreign = foreign, !.tolerated = TRUE, !.spurious = 1]
  ELSE job

Reversing == job.state = "reversing" /\ server.is = "idle"

ReversingFails == Reversing /\ ~Unmoved /\ Fails

Turns ==
  /\ Reversing /\ Unmoved /\ ~job.turned
  /\ job' = [Accepted EXCEPT !.turned = TRUE]
  /\ train' = [train EXCEPT !.dir = -@]
  /\ UNCHANGED <<reached, Pipeline, owned, generation, lost, noise>>

Relaunches ==
  /\ Reversing /\ Unmoved /\ job.turned /\ ReportsArrived
  /\ job' = [Accepted EXCEPT !.state = "running"]
  /\ train' = [train EXCEPT !.rolls = TRUE]
  /\ UNCHANGED <<reached, Pipeline, owned, generation, lost, noise>>

\* The operator lifts a train off and puts it on again: remove_job, which
\* gives the reservation up under a new generation, and a new job.
Removed ==
  /\ job.state \in {"uncertain", "failed"} /\ ~train.rolls /\ generation < MaxTrips
  /\ job' = NoJob /\ owned' = {} /\ generation' = generation + 1
  /\ reached' = 1
  /\ UNCHANGED <<train, Pipeline, lost, noise>>

-----------------------------------------------------------------------------

Service  == Take \/ Lookup \/ Record
Launches == Looks \/ Plans \/ Prepares \/ LaunchLooks \/ LaunchChecks \/ LaunchSends
              \/ LaunchConfirmed
Follows  == HearsForeign \/ Observes \/ DeadlineStops \/ Settles \/ ReversingFails \/ Turns
              \/ Relaunches
Track    == Rolls \/ Halts

Next == Service \/ Launches \/ Follows \/ Track \/ Noise \/ Removed

Spec == Init /\ [][Next]_vars

\* The servers run, the trains obey, and the dispatcher makes its passes: in
\* each of them it gets its answers and does what there is to do.
LiveSpec ==
  /\ Spec
  /\ WF_vars(Service) /\ WF_vars(Track)
  /\ WF_vars(LaunchConfirmed \/ DeadlineStops \/ Settles)
  /\ SF_vars(HearsForeign \/ Observes \/ ReversingFails \/ Turns \/ Relaunches)

-----------------------------------------------------------------------------

Moving == {"launching", "running", "braking", "reversing"}

\* A job never takes its train to be further than it is: not for an old or a
\* stray report, not after a new plan, and not where the train turned round.
ConfirmedIsPassed == job.state \in Moving \cup {"arrived"} => job.confirmed <= reached

\* No event of its plan is left out when a job starts to read the journal:
\* it is observed later, or the launch is given up.
EventsAreSeen ==
  [][\A i \in job.cursor + 1 .. job'.cursor :
       journal[i].generation = job'.generation => job.state \in {"running", "braking"}]_vars

\* Every train that has been launched comes to rest and is known to.
TripsEnd == job.state \in Moving ~> job.state \notin Moving /\ ~train.rolls

\* TC2_REQUIREMENTS.md:17: one missing and one spurious event are tolerated:
\* a job whose train has run fails for a second error, or for the one at the
\* sensor where it was to turn.
OneErrorTolerated ==
  [][job.state \in {"running", "braking"} /\ job'.state = "failed" =>
       lost + noise > 1 \/ (lost = 1 /\ ~LastLeg(job))]_vars
=============================================================================
