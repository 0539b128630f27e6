---------------------------- MODULE MCObservers ----------------------------
(***************************************************************************)
(* What observes the trains, for TLC: the dashboard on its way to the      *)
(* screen, what it believes of one train, the reports of one train's       *)
(* sensors, the watchdog, and the reservation table with a section of      *)
(* track that has two directions and one that has one.  They share no      *)
(* state, so a behaviour exercises one of them while the others rest.      *)
(***************************************************************************)
EXTENDS TrackReservation, Sequences

CONSTANTS Cells, Glyphs, WatchedTrains

VARIABLES
  part,         \* what is exercised
  live, patient, active, shutdown, picture, status, dirty, line,
  renderer, pump, screen, stained, changes, commands, failures,
  job, publication, serial, events, pc, seen, header, scratch, ui, overlay, published,
  train, reached, reports, server, owned, plan, journal, foreign, trip, lost, noise,
  watched, running, ticking, beat, silent, latched, flagged, at, chosen, refused, cut

MCReverse == [n \in Nodes |-> IF n \in {1, 2} THEN 3 - n ELSE NoNode]

Screen == INSTANCE Display WITH
  Words <- {"", "w"}, MaxChanges <- 1, MaxCommands <- 1, MaxFailures <- 1

\* A plan of two pages that is published again and again.
Train == INSTANCE LiveView WITH
  Routes <- { <<[at |-> 0, sensor |-> "none"], [at |-> 1, sensor |-> "A"], [at |-> 2, sensor |-> "none"]>> },
  Sensors <- {"A"}, PageCapacity <- 2, MaxGeneration <- 3, MaxEvents <- 0

Journey == INSTANCE Progress WITH
  Last <- 3, MaxTrips <- 1, MaxLost <- 1, MaxNoise <- 1, line <- reports, job <- trip,
  generation <- plan

Guard == INSTANCE Supervision WITH
  Trains <- WatchedTrains, StallEvents <- 2, MaxRefusals <- 1,
  job <- watched, moving <- running, trip <- flagged

ASSUME ObserverAssumptions ==
  Screen!DisplayAssumption /\ Train!LiveViewAssumption

frames == <<live, patient, active, shutdown, picture, status, dirty, line,
            renderer, pump, screen, stained, changes, commands, failures>>
belief == <<job, publication, serial, events, pc, seen, header, scratch, ui, overlay, published>>
journey == <<train, reached, reports, server, owned, plan, journal, foreign, trip, lost, noise>>
watch  == <<watched, running, ticking, beat, silent, latched, flagged, at, chosen, refused, cut>>
allvars == <<part, frames, belief, journey, watch, vars>>

MCInit ==
  /\ part \in {"screen", "plans", "journey", "guard", "tracks"}
  /\ Screen!Init /\ (part = "screen" \/ (live /\ patient))
  /\ Train!Init /\ Journey!Init /\ Guard!Init /\ Init

OnScreen(A)  == part = "screen" /\ A /\ UNCHANGED <<part, belief, journey, watch, vars>>
OfPlans(A)   == part = "plans" /\ A /\ UNCHANGED <<part, frames, journey, watch, vars>>
OfJourney(A) == part = "journey" /\ A /\ UNCHANGED <<part, frames, belief, watch, vars>>
OfGuard(A)   == part = "guard" /\ A /\ UNCHANGED <<part, frames, belief, journey, vars>>
OnTracks(A)  == part = "tracks" /\ A /\ UNCHANGED <<part, frames, belief, journey, watch>>

MCNext ==
  \/ OnScreen(Screen!Next) \/ OfPlans(Train!Next)
  \/ OfJourney(Journey!Next) \/ OfGuard(Guard!Next)
  \/ OnTracks(Next)

\* The fairness of modules Display, LiveView, Progress and Supervision.
Fairness ==
  /\ WF_allvars(OnScreen(Screen!Render)) /\ SF_allvars(OnScreen(Screen!Drain))
  /\ WF_allvars(OnScreen(Screen!Stopped))
  /\ WF_allvars(OfPlans(Train!Console))
  /\ WF_allvars(OfJourney(Journey!Service)) /\ WF_allvars(OfJourney(Journey!Track))
  /\ WF_allvars(OfJourney(Journey!LaunchConfirmed \/ Journey!DeadlineStops \/ Journey!Settles))
  /\ SF_allvars(OfJourney(Journey!HearsForeign \/ Journey!Observes \/ Journey!ReversingFails
                         \/ Journey!Turns \/ Journey!Relaunches))
  /\ WF_allvars(OfGuard(Guard!Watches))

MCSpec == MCInit /\ [][MCNext]_allvars /\ Fairness

-----------------------------------------------------------------------------
\* The screen of an active dashboard comes to show what it should.
ScreenSettles == part = "screen" => Screen!ScreenSettles

\* A plan that stays published is shown.
PlanShows == part = "plans" => Train!PlanShows

\* A train that has been launched comes to rest, and its job knows it.
TripsEnd == part = "journey" => Journey!TripsEnd

\* A dispatcher that stands still is noticed, and a tick learns of what was
\* stopped behind its back.
StallsAreNoticed ==
  /\ [](part = "guard" => Guard!CutMeansTrip)
  /\ part = "guard" => Guard!StallsAreNoticed
=============================================================================
