----------------------------- MODULE Components -----------------------------
(***************************************************************************)
(* The smaller components side by side: terminal, name server, CAN server, *)
(* sensor journal, the way to the screen, what the dashboard believes of a *)
(* train, and a train that is followed by its sensors.  They share no      *)
(* state; each has variables of its own here, and its sizes keep the names *)
(* they have there.  What each of them owes the tasks that call it.        *)
(***************************************************************************)
EXTENDS Clock

CONSTANTS
  Tasks,        \* the clients of terminal, name server and CAN server
  RxSize, TxSize, GetcSize, Chunk, FifoSize, MaxBytes,           \* Terminal
  Names, NoName, MaxRegistrations,                               \* NameServer
  DispatcherTask, Speeds, Toggles, Turnouts, QueueSize,          \* CanServer
  StatusSlots, BatchMax, TxLimit, AnswerLimit, MaxFrames,
  TrackSensors, Trains, Capacity, BatchSize, SequenceSpace,      \* TrainSensor
  LongestLoss,
  Cells, Glyphs, Words, MaxChanges, MaxCommands, MaxFailures,    \* Display
  RoutePlans, RouteSensors, PageCapacity, MaxGeneration, MaxEvents, \* LiveView
  LastSensor, MaxTrips, MaxLost, MaxNoise                        \* Progress

VARIABLES
  \* Terminal, NameServer
  rxThere, txThere, typed, fifo, rxHand, rx, getters, got, refused,
  accepted, txq, txHand, parked, sent,
  names, latest,
  \* CanServer
  pc, msg, hw, q, tx, polls, busy, status, nextToken, nextSlot, quarantine,
  authority, calling, txb, late, frames, obeyed, canReached, overwritten,
  \* TrainSensor
  high, attributed, entries, dropped, cursor, unread,
  \* Display
  live, patient, shown, shutdown, picture, statusRow, dirty, commandLine,
  renderer, pump, screen, stained, changes, commands, failures,
  \* LiveView
  job, publication, serial, events, console, seen, header, scratch, ui, overlay, published,
  \* Progress
  train, reached, reports, server, owned, plan, journal, foreign, trip, lost, noise

Console   == INSTANCE Terminal WITH Clients <- Tasks, tx <- txq
Directory == INSTANCE NameServer WITH Tids <- Tasks, entries <- names
Can       == INSTANCE CanServer WITH
  Clients <- Tasks, Dispatcher <- DispatcherTask, ready <- hw, reached <- canReached
Journal   == INSTANCE TrainSensor WITH Sensors <- TrackSensors
Screen    == INSTANCE Display WITH active <- shown, status <- statusRow, line <- commandLine
Plans     == INSTANCE LiveView WITH Routes <- RoutePlans, Sensors <- RouteSensors, pc <- console
Trips     == INSTANCE Progress WITH
  Last <- LastSensor, line <- reports, job <- trip, generation <- plan

ASSUME ComponentAssumptions ==
  /\ Console!TerminalAssumption /\ Directory!NameServerAssumption
  /\ Can!CanAssumption /\ Journal!SensorAssumption /\ Screen!DisplayAssumption
  /\ Plans!LiveViewAssumption /\ Trips!ProgressAssumption

consoles == <<rxThere, txThere, typed, fifo, rxHand, rx, getters, got, refused,
              accepted, txq, txHand, parked, sent>>
lookups  == <<names, latest>>
cans     == <<pc, msg, hw, q, tx, polls, busy, status, nextToken, nextSlot, quarantine,
              authority, calling, txb, late, frames, obeyed, canReached, overwritten>>
journals == <<high, attributed, entries, dropped, cursor, unread>>
screens  == <<live, patient, shown, shutdown, picture, statusRow, dirty, commandLine,
              renderer, pump, screen, stained, changes, commands, failures>>
views    == <<job, publication, serial, events, console, seen, header, scratch, ui, overlay, published>>
trips    == <<train, reached, reports, server, owned, plan, journal, foreign, trip, lost, noise>>

-----------------------------------------------------------------------------
\* Bytes are handed out and sent once and in order, except for refused ones,
\* no reader waits while there are some, a client of the CAN server that waits
\* is in just one place, and a lookup tells the latest of what was registered.
ClientsServed ==
  /\ Console!NobodyWaitsInVain /\ Console!TypedInOrder /\ Console!AcceptedInOrder
  /\ Directory!LookupFindsLatest
  /\ Can!NobodyForgotten

\* Batches fail or complete as a whole, stops overtake, and what is reported
\* done the station has done.
BatchesInOrder == []Can!BatchesAccounted /\ Can!UrgentFirst /\ Can!DoneMeansExecuted

\* Pages have no gaps, and losses are told when there were some and only then.
JournalExact == Journal!NothingLostSilently /\ Journal!LossesReal

\* What is queued leads from the screen to the retained picture.
QueueLeadsToPicture == Screen!QueueLeadsToPicture

\* The marker stands on a plan that was published as a whole, and moves forward.
MarkerIsRight == []Plans!ShownPlanIsWhole /\ Plans!MarkerOnlyAdvances

\* No report takes a train further than it is, and none of its plan is skipped.
ReportsUsedOnce == []Trips!ConfirmedIsPassed /\ Trips!EventsAreSeen
=============================================================================
