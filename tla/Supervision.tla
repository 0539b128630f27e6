---------------------------- MODULE Supervision ----------------------------
(***************************************************************************)
(* The dispatcher's watchdog (Tc2DispatchSafetyTask, src/tc2_dispatch.c).  *)
(* A task of a higher priority looks at every timer event whether the      *)
(* dispatcher still takes its ticks while a train has an active job.  When *)
(* it does not, the task tells all those trains to stop, behind the        *)
(* dispatcher's back, and leaves a flag by which the next tick fails their *)
(* jobs.  Both read and write the same variables without a lock.           *)
(*                                                                         *)
(* Jobs are told apart by no more than what the watchdog looks at; what    *)
(* else they do is in JobControl.                                          *)
(***************************************************************************)
EXTENDS Naturals, FiniteSets

CONSTANTS
  Trains,
  StallEvents,   \* TC2_SUPERVISOR_STALL_EVENTS
  MaxRefusals    \* emergency stops the CAN server has no room for, a bound

VARIABLES
  job,       \* "idle", "active" or "stopping": failed, its stop not confirmed
  moving,    \* trains that have been told to run
  ticking,   \* the dispatcher is in the middle of a tick
  beat,      \* a tick has come since the watchdog last looked
  silent,    \* stall_events
  latched,   \* stop_latched
  trip,      \* dispatch_supervisor_trip
  at,        \* where the watchdog is: at an "event", "send", "flag"
  chosen,    \* the trains it is about to stop
  refused,   \* emergency stops refused so far
  cut        \* history: trains it has stopped whose jobs do not know yet

vars == <<job, moving, ticking, beat, silent, latched, trip, at, chosen, refused, cut>>

Init ==
  /\ job = [t \in Trains |-> "idle"] /\ moving = {}
  /\ ticking = FALSE /\ beat = TRUE /\ silent = 0
  /\ latched = FALSE /\ trip = FALSE /\ refused = 0
  /\ at = "event" /\ chosen = {} /\ cut = {}

Watchdog   == <<silent, latched, at, chosen, refused>>
Dispatcher == <<job, moving, ticking, cut>>

-----------------------------------------------------------------------------
(* The dispatcher.                                                         *)

\* has_active_motion_job, collect_active_trains.
Active == {t \in Trains : job[t] # "idle"}
UnderWay == {t \in Trains : job[t] = "active"}

\* A tick that finds the flag fails every job that is under way.
FailAll ==
  /\ job' = [t \in Trains |-> IF t \in UnderWay THEN "stopping" ELSE job[t]]
  /\ moving' = moving \ UnderWay /\ cut' = cut \ UnderWay

\* TC2_DISPATCH_MSG_TICK: it counts first and then looks at the flag.
TickBegins ==
  /\ ~ticking
  /\ beat' = TRUE /\ trip' = FALSE /\ ticking' = ~trip
  /\ IF trip THEN FailAll ELSE UNCHANGED <<job, moving, cut>>
  /\ UNCHANGED Watchdog

Becomes(t, state, told) ==
  /\ job' = [job EXCEPT ![t] = state]
  /\ moving' = IF told THEN moving \cup {t} ELSE moving \ {t}
  /\ cut' = IF state = "active" THEN cut ELSE cut \ {t}

\* It is launched, or told to run again.
Goes(t)  == job[t] \in {"idle", "active"} /\ Becomes(t, "active", TRUE)
Halts(t) == job[t] = "active" /\ \E next \in {"active", "idle", "stopping"} : Becomes(t, next, FALSE)

\* process_stop_retries.
StopConfirmed(t) == job[t] = "stopping" /\ Becomes(t, "idle", FALSE)

InTick ==
  /\ ticking
  /\ \E t \in Trains : Goes(t) \/ Halts(t) \/ StopConfirmed(t)
  /\ UNCHANGED <<ticking, beat, trip>> /\ UNCHANGED Watchdog

TickEnds ==
  /\ ticking /\ ticking' = FALSE
  /\ UNCHANGED <<job, moving, cut, beat, trip>> /\ UNCHANGED Watchdog

-----------------------------------------------------------------------------
(* The watchdog, at a timer event.                                         *)

\* Nothing is active: it forgets what it has seen.
Nothing ==
  /\ at = "event" /\ Active = {}
  /\ latched' = FALSE /\ silent' = 0 /\ beat' = FALSE
  /\ UNCHANGED <<trip, at, chosen, refused>> /\ UNCHANGED Dispatcher

\* After a stop it looks at nothing until nothing is active.
Looks == at = "event" /\ Active # {} /\ ~latched

Enough == silent + 1 >= StallEvents

\* supervisor_observe.
Alive ==
  /\ Looks /\ (beat \/ ~Enough)
  /\ silent' = IF beat THEN 0 ELSE silent + 1
  /\ beat' = FALSE
  /\ UNCHANGED <<latched, trip, at, chosen, refused>> /\ UNCHANGED Dispatcher

\* The dispatcher has stood still for a number of events, or for too long by
\* the clock (supervisor_wall_stalled): the trains are collected.
Stalled ==
  /\ Looks /\ ~beat
  /\ silent' = IF Enough THEN 0 ELSE silent
  /\ chosen' = Active /\ at' = "send"
  /\ UNCHANGED <<beat, latched, trip, refused>> /\ UNCHANGED Dispatcher

\* CanTrainEmergencyStopBatch.
StopAll ==
  /\ at = "send" /\ at' = "flag"
  /\ moving' = moving \ chosen
  /\ cut' = cut \cup (chosen \cap UnderWay)
  /\ UNCHANGED <<job, ticking, beat, silent, latched, trip, chosen, refused>>

Flag ==
  /\ at = "flag" /\ at' = "event"
  /\ trip' = TRUE /\ latched' = TRUE /\ chosen' = {}
  /\ UNCHANGED <<beat, silent, refused>> /\ UNCHANGED Dispatcher

\* Mutant: a stop that there was no room for counts as sent.
GivesUp == latched' = TRUE

\* It is tried again at a later event.
TriesAgain == UNCHANGED latched

NoRoom ==
  /\ at = "send" /\ at' = "event"
  /\ refused < MaxRefusals /\ refused' = refused + 1
  /\ chosen' = {} /\ TriesAgain
  /\ UNCHANGED <<beat, silent, trip>> /\ UNCHANGED Dispatcher

Watches == Nothing \/ Alive \/ Stalled \/ StopAll \/ Flag \/ NoRoom

Next == TickBegins \/ InTick \/ TickEnds \/ Watches

\* Timer events go on whatever the dispatcher does.
LiveSpec == Init /\ [][Next]_vars /\ WF_vars(Watches)

-----------------------------------------------------------------------------
\* A train that has been stopped behind the dispatcher's back does not keep a
\* job that takes it to be running: a tick will find the flag and fail it.
CutMeansTrip == cut # {} => trip \/ at = "flag"

\* If a dispatcher stands still for good while trains move, an emergency
\* stop has been sent, the first time at least.
StallsAreNoticed == <>[](moving # {} /\ ~beat) => <>(at = "flag")

\* README-TC2:160: if the dispatcher stalls while a train may be moving, every
\* active train is told to stop.
StallsAreAnswered == ~<>[](moving # {} /\ ~beat)
=============================================================================
