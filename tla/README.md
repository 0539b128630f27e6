# Verification of the train kernel, its servers and its dispatcher

The repository is a bare-metal real-time kernel for one core of a Raspberry Pi
and, on top of it, the server tasks that drive a model railway over a CAN bus
and, with a dispatcher, keep several trains apart.  This directory holds TLA+
modules translated from its C source, TLC configurations that check them on
small instances, and theorems that TLAPS proves for every value of the constants.  Paths such as
`src/can.c:247` are relative to the repository; `PROJECT.json` ties every
definition to its lines, and lists the hazards the properties are aimed at.

## 1. The system

Tasks share no memory by convention: they call each other with Send, which
blocks until the server has Replied.  The exceptions are the state the
dispatcher publishes for its safety task and for the renderer.

```
 hardware   timer      UART                 MCP2515 -- CAN bus -- station
              |        |   |                   |
 kernel     AwaitEvent (timer list, event lists), Send/Receive/Reply, ready queues
              |        |   |                   |
 notifiers  clock    rx     tx              rx, tx
              |        \   /                   |
 servers    Clock    Terminal   Name        CAN server
              |          |                     |        \ courier
 railway      |       UI pump, console         |         Sensor server -- Reservation
              \____________|__________ Dispatcher (jobs, conflict zones) ____/
                                            |
                                       safety task
```

### Components

| component | state it keeps | operations | how it interacts |
|---|---|---|---|
| **Kernel** (`task.c`, `kernel.c`, `syscall.c`) | a fixed table of descriptors, a FIFO ready queue per priority, each task's send queue, the timer list, one list per UART event | Create, MyTid/MyParentTid, Yield, Exit, Send, Receive, Reply, AwaitEvent; releasing events, scheduling, idling, halting | traps of the tasks; timer and UART flags, polled in the handler |
| **Clock server** (`clock.c`) | the tick, a table of waiters | TICK, TIME, DELAY, DELAY_UNTIL, the sweep of the table | its notifier sleeps on the timer and Sends a TICK; clients Send and are answered when their tick comes |
| **Terminal server** (`terminal.c`) | receive and transmit rings, waiting GETCs, the parked notifier | GETC, TRY_GETC, PUTC, TRY_WRITE, RX_READY, TX_READY | two notifiers between it and the UART |
| **Name server** (`nameserver.c`) | a table of names | RegisterAs, WhoIs | everyone, mostly at start |
| **CAN server** (`can.c`, `mcp2515.c`) | transmit queue, state of its head, batch statuses, one quarantined command, turnout authority, health | confirmed commands, control commands, batches, emergency stops, cancelling, status and health queries, progress and timeouts | a transmit notifier polls it, a receive notifier delivers frames; the station answers a command with the same bytes |
| **Sensor server** (`train_sensor.c`) | level of each sensor, a ring of attributed events, the number of each train's last overwritten event | reports, journal queries, health | a courier brings frames from the CAN server; asks Clock and Reservation; the dispatcher's jobs page through the journal |
| **Track reservation** (`track_reservation.c`, `..._server.c`) | owner of each node, destination and plan generation of each train | reserve, window reserve, updates, expected replacements, release, lookups | the only writer of its table; asked by dispatcher and sensor server |
| **Conflict zones** (`tc2_conflict_zone.c`) | owner, phase and release time of each zone, hard and soft queues, tickets, registry of trains | request, soft request, cancel, publish a route, grant, set, settle, enter, tail clear, abandon, tick | a table inside the dispatcher |
| **Dispatcher** (`tc2_dispatch.c`) | sixteen job slots (four of their trains may hold conflict zones) with their life cycle, plans, CAN batches in flight, stop retries, journal cursors, a heartbeat | stage, launch, run, brake, reverse, hold, recover, fail, cancel, remove, retarget; one pass per tick | calls all servers above; a ticker paces it |
| **Safety task** (in `tc2_dispatch.c`) | its copy of the heartbeat, a latch | observe, trip, stop all trains | reads the dispatcher's memory without a lock; calls the CAN server |
| **Traffic safety** (`tc2_traffic_safety.c`), **route monitor** (`tc2_route_monitor.c`) | none / expected sensor sequence | verdicts on two trains; classification of an event | called by the dispatcher |
| **Route search, track model, track data** | the graph | shortest path with reversals and blocked nodes | pure functions |
| **Motion and prediction** | calibration tables | interpolation | pure functions |
| **User interface** (renderer, overlay, live view, geometry, projection, transmit pump) | the retained picture, the frames in the pump, a marker and a colour per train, the way-points collected of its plan | render, drain, redraw, collect a plan page by page, advance and remove markers, flash sensors | asks the dispatcher for snapshots and pages; writes to the terminal server |
| **Offline runtime, controller, planner** | trips, claims, registry, overlay, the clock of the simulation | plan, stage, go, step, remove, reset | stands alone; drawn by the same overlay |
| **Train control console, TC1 loop** (`train_control.c`) | command line, TC1 job | parse, forward, stop at a sensor | dispatcher, CAN and terminal servers |
| Boot, drivers, small libraries, RPS, performance tasks, tests | | | |

### What is hard, and what makes each part correct

* **Kernel.**  Lists are intrusive: a descriptor's link serves whichever list it
  is in, so waking a task without unlinking it damages two lists at once.  Exit
  walks a list while severing its links, and must also wake the callers that
  are in no list.  Descriptors are reused while others hold their tids.
  Correct: lists and states agree; every blocked caller has a living receiver
  that is the task it named; every call ends with a result; the most urgent
  ready task runs; nobody oversleeps; halting is final.
* **Clock and terminal.**  A client answered in the middle of a sweep asks again
  before it is over; a notifier is parked until somebody has a byte for it.
  Correct: nobody is forgotten, oversleeps or wakes early; bytes keep their
  order and none is lost silently.
* **CAN.**  An answer may be late, lost, or for an identical earlier command;
  frames fail in the middle of a batch; a stop must overtake what waits but
  never the frame on the wire.  Correct: whatever is reported done was done;
  batches account for their frames; everything queued ends.
* **Sensor journal.**  The ring overwrites what has not been read, numbers wrap,
  reports are lost and duplicated.  Correct: no silent loss, no false loss,
  every event arrives or its loss is seen.
* **Reservation.**  Trains plan from both directions; requests carry the plan
  they believe in.  Correct: a physical section has one owner; requests are all
  or nothing; a changed plan never keeps its generation.
* **Conflict zones.**  Two kinds of claims in two arrays form one line; tickets
  and generations wrap; stages of several zones must be taken at once; a zone
  rests between two trains.  Correct: FIFO service through the release delay,
  stages whole, one train in control, dead routes stay dead.
* **Jobs.**  State is read before a Send and used after it, and the CAN server
  goes on in between; a wave of trains starts with one batch; stops are retried
  until confirmed; operator and supervisor intervene at any time.  Correct:
  what may move is watched, what is believed at rest is, a failed train's stop
  is repeated, a wave fails as a whole.
* **Trains and turnouts.**  Each train holds what another one needs and asks for
  more; turnouts are commanded ahead of the train and not again when they are
  believed to be right.  Correct: no turnout moves under a train, a stage that
  counts as set is set, and a train that stops for good stops in a circle of
  trains that wait for one another, which the code does not rule out.
* **Following a train.**  Reports are late, lost or spurious and are attributed
  after the event.  Correct: no report takes a job further than its train is or
  is used for another plan, and every trip ends.
* **Watchdog.**  It reads the dispatcher's memory without a lock and acts behind
  its back.  Correct: a standing dispatcher is noticed, and learns of it.
* **Planning.**  Correct: the plan is the cheapest, drives to its end with the
  turnouts it throws, leaves room to stop, and throws nothing under a train
  that stands.
* **Screen and simulation.**  Frames are sent in pieces that may fail; plans are
  republished while they are collected; simulated trains claim a window of
  track.  Correct: the screen comes to show the picture, markers stand on one
  published plan and never ahead of the reports, simulated trains keep apart
  and are drawn where they are.

## 2. Modules

| module | translates | composes |
|---|---|---|
| `Lists` | intrusive lists seen as sequences | |
| `Kernel` | `task.c`, `kernel.c`, `syscall.c` | `Lists` |
| `Rendezvous` | *abstract:* what Send/Receive/Reply/Exit promise | |
| `KernelIpc` | the refinement mapping of `Kernel` onto `Rendezvous` | `Kernel`, `Rendezvous` |
| `ListLemmas` | lemmas about lists, cited by the other proofs | `Lists` |
| `KernelProofs` | proofs: the invariants, and the refinement | `KernelIpc` |
| `SectionLocks` | *abstract:* a lock per section of track | |
| `TrackReservation` | `track_reservation.c`, `track_reservation_server.c` | `SectionLocks` |
| `TrackReservationProofs` | proofs | `TrackReservation` |
| `TurnoutQueues` | *abstract:* a waiting line per turnout | |
| `ConflictZone` | `tc2_conflict_zone.c` | `TurnoutQueues` |
| `ZoneRests` | a second table, whose routes are replaced and whose clock is measured | `ConflictZone` |
| `ConflictZoneProofs` | proofs: the records, the refinement, and the second table | `ZoneRests` |
| `TrainSensor` | `train_sensor.c`, and the dispatcher's reading of the journal | |
| `Clock`, `Terminal`, `NameServer` | the servers of these names and their notifiers | |
| `ClockProofs` | proofs | `Clock` |
| `CanServer` | `can.c` with the buffers of `mcp2515.c` | |
| `Components` | what the small components owe their callers | clock, terminal, name server, CAN server, journal, screen, dashboard, a followed train, side by side |
| `ServerProofs` | proofs about terminal, name server and CAN server | `Components` |
| `ComponentProofs` | proofs about journal, screen, followed train and dashboard | `Components` |
| `JobControl` | the life cycle of the jobs in `tc2_dispatch.c` | the CAN queue, its batches and the line |
| `JobInvariants`, `JobControlProofs` | its inductive invariant, and proofs | `JobControl` |
| `ZoneTraffic` | the zone loop of `tc2_dispatch.c` (`process_conflict_zones` and what it calls) | conflict zones, trains, turnouts, commands |
| `Progress` | a job's cursor, launch check, stops and turns; `tc2_route_monitor.c` | sensor server, reservations, journal, one train |
| `Supervision` | the safety task | the tick it watches |
| `TrackRoutes` | `track_route.c` | |
| `RoutePlanner` | `tc2_offline_planner.c`; the choice of a route, its zones, stages and way-points in `tc2_dispatch.c`, `tc2_conflict_zone.c`, `tc2_route_projection.c` | `TrackRoutes` |
| `Display` | `tc2_ui_renderer.c`, `tc2_ui_tx_pump.c`, the console's loop in `train_control.c` | terminal |
| `LiveView` | publication of plans in `tc2_dispatch.c`, `tc2_live_ui.c`, the console's synchronisation | dispatcher, console |
| `TrainOverlay` | `tc2_ui_overlay.c` (operators) | |
| `OfflineRuntime` | `tc2_offline_runtime.c` (operators) | |
| `OfflineController` | `tc2_offline_controller.c` and the sim commands | `OfflineRuntime`, `TrainOverlay` |
| `MC...` | constants, history variables and bounds for TLC; several put components side by side | |

### How the models correspond to the code

**Kernel.**  One action per system call, and the loops of the trap handler --
Exit's two waking loops, event release, the scheduling decision -- as one step
per iteration; `kpc` says which loop the handler is in.  The tasks run with
interrupts masked, so user code moves only while `kpc = "user"`; only `Tick`
and the UART flags move in between.  A list is the sequence of descriptors it
links.  Message bytes are dropped; what a call returns is kept in `x0`, which
still holds the request number (`NoResult`) until some path completes the call.
`send_to`, the tid in the caller's saved `x1`, is what the refinement mapping
compares with the descriptor pointer the kernel keeps (`ipc_receiver`).

**Reservation.**  A request is a step: the server is the only writer and takes
one message at a time.  A route is the set of nodes it lists.  The window and
expected variants are operations of their own with their guards in the code's
order.  `Malformed` covers the refusals.

**Conflict zones.**  One action per operation of the table; a refused call is a
stutter, except where a refusal has an effect.  Time is relative: `lag` is the
age of `current_tick`, `releaseIn` what is left of a release delay.  Which zones
a route asks for is a constant (`Stages`); `RoutePlanner` computes them.

**Sensor.**  A report is a step, with the answers of the clock and of the
reservation server as inputs.  `unread` is a history variable: the numbers each
job has not seen.

**Clock, Terminal.**  The clock's sweep answers clients in between, so each slot
is a step and `inbox` is the server's send queue.  The terminal's notifiers hold
a byte between UART and server, so theirs are two steps.  Bytes are numbered.

**CAN.**  `pc` takes the server through receive, progress, handle, start;
`Transmit`, the notifiers and the clients go on meanwhile.  What a request asks
for is chosen when it is handled.  The dispatcher registers for the turnouts
before it asks for anything (`src/tc2_dispatch.c:23759`).  With two receive
buffers, answers overtake each other by one place.  `obeyed`, `reached` and
`overwritten` are history variables.

**Jobs.**  The dispatcher is one task, so it has a program counter `pc` that goes
through the passes of a tick in the order of `run_tick`; a pass is a step where
it makes no call, and stops at each call of the CAN server (`call`), because
the server sends, times out and answers while the dispatcher waits.  `queue`,
`wire` and `batch` are that server's queue, frame on the line and batch
statuses; `moving` is what the motors do.  Gates, deadlines, plans and services
are choices: every combination of verdicts is explored.  A job's `rewound` flag
is a history variable that marks a wave that was taken back; the model holds
such a job back afterwards, so that each property is about one thing.

**Zone loop.**  A pass of `process_conflict_zones` is a step: `d` is everything
the dispatcher writes, and the parts of the pass are operators from one value
of `d` to the next, applied train by train in slot order (`AfterPass`).  The
table is that of `ConflictZone` with one line per zone in place of tickets, which
`ImplementsQueues` justifies.  `place` is where a train's front, centre and tail
are, `phys` how the turnouts lie; `table` is what the dispatcher believes of them.
Commands are answered, lost, or taken back while on the wire.  A train may be
told to stop, or its job fail, at any place, and rolls on from there into what
was set for it.  `reach` says into what, and with `unsure` it names the two cases
the properties except (below).

**Following a train.**  The path of a report is a chain of steps -- the line, the
server, its question to the reservation server, the journal -- and the
dispatcher replans, launches and reads in between.  Distances and times are
left out: where a deadline says that the train should be near a sensor, it is.

**Planning.**  Operators over a constant graph.  The search is the code's, with its
order of nodes and its strict comparison; `LeastCost`, against which it is
checked, relaxes every edge as often as there are nodes.  The three actions
stand for the three callers; each step is one request and its plan.

**Screen.**  A frame is a sequence of chunks, a chunk the update of one place;
`Arriving` is what the screen will show once all that is queued was sent.
`patient` says whether the caller waits for an idle pump (the live dashboard)
or redraws on a schedule (the simulator).

**Plans on the dashboard.**  The console's queries -- the jobs, the sensors, the
header and the pages of a plan -- are steps of their own and the dispatcher goes
on between them; a page carries the serial number of its publication.  Where the
console has drawn a train at its destination is kept apart (`at_destination`)
from how far along its route it has been confirmed.

**Simulation.**  The C functions work on structures the controller owns, so
runtime and overlay are operators on records, and `OfflineController` has the
variables.  A distance is a number of steps.

## 3. Runs

A configuration only gives constants their values.  Components that share no
state are put side by side in one run: a behaviour exercises one of them, so the
state spaces add up.

| run | question | bounds |
|---|---|---|
| `kernel` | are lists, states, transactions and the scheduling decision consistent, does every call end with a result, does nobody oversleep, is halting final? | 3 descriptors for 4 tids, 2 priorities, timer period 2, 1 UART event |
| `components` | the safety of the small components, one at a time (below) | see the head of `MCComponents` |
| `zones` | are zones FIFO queues whose stages stay whole, are replaced routes forgotten, is the release delay kept? | 2 zones and 3 trains with tickets modulo 8 and no delay; 1 zone and 2 trains with generations 0, 7, 1 modulo 8, delay 2, lag 1 |
| `services` | the kernel's calls as rendezvous; liveness of kernel, terminal, CAN and journal; soundness of planner and simulator | 3 tasks of one priority, 3 tids; rings of 2; CAN queue of 2; a layout of 18 directed nodes with a loop, 3 turnouts, 3 destinations; 2 simulated trains on one track, 3 trips, time up to 6 |
| `dispatch` | is what moves watched, is what rests at rest? does no turnout move under a train, is what counts as set set, does only a circle of trains wait for good? | jobs: 2 jobs, CAN queue of 2, 2 attempts, 5 batch tokens, 1 lost frame, the operator's cancel, remove and reroute and the supervisor's trip; turnouts: 2 trains, 3 turnouts, 2 positions ahead of the reports; either a stage of two zones and 1 job put back or failed or command lost or taken back, or 2 trains of three and of two stages that meet |
| `dispatch_live` | are stops repeated until carried out, do waves fail as a whole? | the same jobs with 1 attempt and the trip only, fairness; no zones |
| `observers` | are reservations locks, does the screen settle, is a lasting plan shown, do trips end, are stalls noticed? | 3 nodes, 2 trains, generations wrap after 2; 1 cell, 1 change, 1 command and 1 failure; 3 plans of two pages; 3 sensors with a turn, 1 report lost and 1 spurious; 2 trains, 2 quiet events make a stall, 1 refused stop |
| `sensor_duplicate` | *violation:* does an exact duplicate report make no event? | 1 sensor, 1 train |
| `can_ambiguity` | *violation:* does an ambiguous direction command fail closed? | 2 clients, 3 frames, a command of each kind |
| `launch_rewind` | *violation:* do trains of a wave that was taken back stand still? | as `dispatch` |
| `turnout_given_up` | *violation:* does no turnout move under a train that has not arrived? | 2 trains, 3 turnouts, nothing fails |
| `supervisor_stalls` | *violation:* is every stall answered? | as in `observers`, fairness |

`components` exercises: the clock with 2 slots for 3 clients, long delays with ticks
up to 3, and short and refused ones; the terminal with rings of 2 and 4 bytes; 3
names for 2 entries; the CAN server with 2 clients, 3 frames, batches of 2, limits
of 1 poll; the journal with a ring of 2, pages of 1 and numbers modulo 10; a
screen of 2 places; plans that pass two sensors in different orders, and one
plan with two reports; one train's two trips with a spurious report.

**What the runs show.**

* `kernel`: `QueueDiscipline`, `CallersHaveReceiver`, `HighestPriorityRuns`,
  `CallsComplete`, `HaltsOnlyWhenStuck` and `NobodyOversleeps` hold for every
  interleaving of calls, Exit with callers in every position, reuse of
  descriptors and late polls.
* `components`: a client of the clock is in one place, is not left asleep by a sweep
  and not woken early (`NobodyForgotten`, `NobodyOverslept`,
  `DelaysLastLongEnough`); bytes stay in order and names are found
  (`ClientsServed`); batches end as a whole, stops overtake what waits but not
  the wire, and what is reported done was done (`BatchesInOrder`); losses in the
  journal are told when there were some and only then; a difference of two
  pictures is never sent to a screen that shows a third (`QueueLeadsToPicture`);
  the marker stands on one whole published plan (`MarkerIsRight`); reports are
  used once, for the plan they belong to (`ReportsUsedOnce`).
* `zones`: the table implements `TurnoutQueues`, stages are taken as a whole by one
  train, claims of replaced routes vanish and their generation never returns,
  and a zone rests between two trains.
* `services`: the kernel's calls are rendezvous between tids
  (`ImplementsRendezvous`); callers of a task that exits resume; peers take turns; output,
  frames and events arrive.  Every route that is searched for is a cheapest one;
  every plan can be driven leg by leg and zone by zone without meeting a merge
  set against it, leaves room to stop, is drawn exactly and throws nothing under
  a standing train (`PlansAreSound`).  Simulated trains never share a piece of
  track within a tick (`TrainsKeepApart`), the controller never closes itself,
  markers, colours and flashes are true (`SimulationIsTrue`).
* `dispatch`: a job that is held for traffic, has arrived or has been stopped has
  its train at rest, with no start still on its way to the motor; every train
  that moves or may yet be started is watched by the supervisor or is the one
  that a call under way is about.  In the zone loop, with reports behind the
  trains and jobs failing or braking at any place: no turnout moves under a train,
  by whichever train's command, on a stage the dispatcher still holds for it; a
  stage that counts as set lies on the track as its owner wants it
  (`TurnoutsKept`).  Zones that are passed, yielded, or held on arrival reach
  whoever waits: when nothing can happen any more, each train has arrived, or a job
  has failed, or the train waits in a circle (`OnlyCirclesWait`).
* `dispatch_live`: the stop of a failed job is repeated until the station has
  carried it out, whatever was lost, refused or evicted; a failed wave leaves no
  train of it running.
* `observers`: both directions of track have one owner and every change of plan
  is visible (`DirectionsTogether`, `PlanHasFootprint`, `PlanChangeVisible`,
  `ImplementsLocks`); after the last failure the screen of the live dashboard shows the
  picture for good, and the simulator's again and again; a plan that stays
  published is shown; a trip ends with the train at rest and the job knowing
  it, with one report lost and one spurious; a dispatcher that stands still
  while trains move is noticed although a stop was refused first, and a job
  whose train was stopped behind the dispatcher's back does not go on.

**Why the bounds are enough.**  They are chosen so that each interesting case
needs no more.  Three descriptors allow a caller, a queued caller and a server
that leaves; four tids reuse a descriptor while
somebody holds an old tid.  A timer period of 2 lets two sleepers be due at
different times.  Two sections of track let a route be free in part only.
Tickets and generations modulo 8 wrap within a run.  A train has one claim in
a zone, so with three trains at most three tickets are in use, well within half
of the space of 8.  Two zones make stages of one and of two; three trains make
a queue with a middle.  The ring of 2 with two trains overwrites one train's
events while the other reads.  Rings of 2 are full, empty and in between.
Limits of 1 poll let a command be answered at the last moment or given up;
three frames make a wire, a queue and an insertion between.  Two jobs make a
wave with a survivor; a queue of 2 is full with one batch, so that stops are
refused; one lost frame is enough to make any one outcome unknown, and a second
attempt enough to follow it.  Two trains that need two turnouts in opposite order,
one of them with a stage before that, are the smallest circle: with two stages
each, both claims are queued at once and the line settles who goes first.  A
stage of two zones makes a train wait with half of what it needs free.  One
failure is enough to leave a turnout or a stage in doubt; being two positions
ahead of the reports lets a train have entered and passed a stage unheard.  A lost and a spurious report are what the
route monitor tolerates, and together one more.  The planner's layout has a
loop, two turnouts that share a spot, a dead end and a merge that is met from
both sides.  TLC's results are for these instances only; the theorems below are
not bounded.

`MaxTid`, `MaxTick`, `MaxBytes`, `MaxFrames`, `Tokens`, `MaxLost`, `trouble`,
`MaxTrips`, `MaxNoise`, `MaxRefusals`, `MaxChanges`, `MaxCommands`, `MaxFailures`,
`MaxGeneration` of `LiveView`, `MaxEvents`, `MaxStaged` and `MaxTime` bound counters.
`MaxLag` in `ConflictZone` and `LateBy` say how late the scheduler may be, and
`MaxLag` in `ZoneTraffic` how far a train is ahead of what is known of it.  `LongestLoss` and `JobsKeepUp` in
`TrainSensor` say that no comparison spans half of the number space; the code
relies on the same and does not enforce it (2^31 events).  `LongestLoss` stands
for more: the code keeps the number of a train's last overwritten event for ever
(`src/train_sensor.c:315`), so a train without events while 2^31 others are
counted would see its old loss again.

Deadlock is checked in `kernel`, `zones`, `sensor_duplicate`, `can_ambiguity` and
`turnout_given_up`.
In the other runs nothing is left to do when the bounds are reached, or all
trains have arrived.  Symmetry is used in `zones`, over the trains, where no
property under fairness is checked.  `kernel` and `dispatch` use a VIEW, and check
nothing under fairness either.  `kernel` leaves out what nothing ever reads: who
created a task, which result a call got once it has one, and the fields of a
descriptor nobody has.  In `dispatch` a batch token is only a name, and states
that differ in nothing but names are one.

### Disagreements

Five runs find the code to differ from what is written about it:

* `sensor_duplicate`: a second delivery of the same 0-to-1 report makes a second
  event.  The code cannot tell it from an occupation whose release report was
  lost, and `src/tests/train_sensor_journal_test.c:134` expects it; the comments
  at `src/train_sensor.c:230` and `:247` say that a duplicate makes no second event.
* `can_ambiguity`: there is one quarantine slot, and giving up a second command
  overwrites it (`src/can.c:247`).  The late answer of the first, a direction
  command, then confirms the next direction command although the station has
  not carried it out.  `src/README-TC2:981` and the comment at `src/can.c:646` say
  that such an ambiguity fails closed.  `DoneMeansExecuted`, part of
  `BatchesInOrder` in `components`, is the property with that case excused.
* `launch_rewind`: when a train is removed while its wave is being launched, the
  dispatcher reads the batch's status (`src/tc2_dispatch.c:23307`), cancels the
  batch, and decides on the count it read before.  A frame confirmed in between
  or on the wire has started its train, and all survivors still go back to
  preparing.  The comment at `:23291` says that a wave is stopped as a whole once
  a positive frame may have escaped.  The same order is at `:10662`.
  `MovingMeansWatched` in `dispatch` excuses rewound trains.
* `turnout_given_up`: a train that brakes for its destination yields its next stage
  if the last sensor it was seen at lies before the entry
  (`src/tc2_dispatch.c:9744`, `:9764`), although it rolls on into it: the turnout is
  granted to another train after two seconds and thrown under the first one.
  `src/README-TC2:885` says that no second train can reserve a turnout while the
  first one or its tail may occupy it.  A job that fails gives such a stage up too
  (`:10066`), and a train that has arrived gives up every stage, the one its tail
  stands on included (`:10288`; the comment there means it so).  `TurnoutsKept` in
  `dispatch` is the property with these cases excused (`GivenUp`), and only these:
  the stage a train had not been heard to enter when it was told to stop.
* `supervisor_stalls`: after one stop the safety task looks at nothing until no job
  is active (`src/tc2_dispatch.c:22012`).  A dispatcher that goes on and stalls
  again before that is not answered; `src/README-TC2:160` promises a stop whenever
  it stalls while a train may be moving.

Smaller observations, each seen while modelling and not made a run.  The first
three have a definition that TLC refutes when it is added to a configuration:

* `LaunchHasABatch` (`JobControl`): a rewind clears the target's batch token and
  leaves it LAUNCHING; when the stop that follows fails, the job stays there
  without a batch to wait for (compare the comment at `src/tc2_dispatch.c:23398`).
* `ResumedDashboardIsDrawn` (`Display`): text that was printed while the dashboard
  was off stays on the screen after `uion`, because the retained picture counts
  as drawn (`src/train_control.c:699`; the help text at `:1008`).
* `OneErrorTolerated` (`Progress`): after a turn, the report of the sensor the train
  comes back over counts as the one spurious report (`src/tc2_dispatch.c:18934`), so
  that a single stray report elsewhere fails the job;
  `src/TC2_REQUIREMENTS.md:17` speaks of one missing and one spurious event.
* A direction command's retry after its answer was lost is swallowed by the
  quarantine and times out too.
* The table of turnouts (comment at `src/tc2_dispatch.c:676`: "written only after the
  corresponding CAN batch has been confirmed") is not made unknown when a
  prefetched batch is cancelled in flight or fails (`:8930`, `:9244`), and is not
  written when one is dropped that is complete already: a train's prefetch moves
  the turnout, its job goes back to waiting before the dispatcher has looked at the
  batch, `cancel_soft_conflict_zone_prefetch` finds it no longer pending and forgets
  it, and the next owner, who wants the direction the table still shows, counts
  the turnout as set without a command (`:9442`).  TLC shows the last of these when
  `Forgotten` is made empty;
  `TurnoutsKept` excuses a turnout from there until a command for it is obeyed.
* Two trains that meet with three stages ahead of one of them can each own what
  the other needs next.  Nothing detects that, and nothing written promises that
  it does not happen; the operator's cancel resolves it.
* A soft request for a zone the train still owns in its release delay is refused
  with an error that fails the job (`src/tc2_conflict_zone.c:782`), where the hard
  request answers that it is held.
* A train that brakes while its wave is pending keeps the wave's token.
* Simulation: an arrived train keeps only its destination, so an opposed one
  does not meet its claims; a train that waits to enter holds none; an older
  waiter can be overtaken on part of its window (`src/README-TC2:454`); a gap of
  more than 4096 ticks makes every later step refused until `simreset`.

### Fairness

* Kernel (`FairSpec`): WF on the running task's next trap (every task of the
  system is a loop around kernel calls), WF on the handler's steps, which
  nothing preempts, and SF on time passing.
* `TrainSensor` (`LiveSpec`): WF on draining, which the dispatcher does in every
  pass for each running job.
* `Terminal`: WF on the server's and the sending notifier's steps; they share a
  priority class and the more urgent tasks block.
* `CanServer` (`LiveSpec`): WF on the server's own steps and SF on taking a
  notifier's poll, which is served in its turn by the FIFO send queue
  (`Rendezvous`).  Nothing is assumed of controller, bus or station: the
  timeouts alone make requests end.
* `JobControl` (`LiveSpec`): ticks come, the dispatcher's work ends and what is
  queued gets on the line and off it: what the CAN server's own liveness gives.
  Frames may still be lost.
* `ZoneTraffic`: none.  `OnlyCirclesWait` speaks of states in which a pass changes
  nothing and no other step but a failure is left (`Quiet`).
* `Progress` (`LiveSpec`): the servers answer, trains obey, and each pass does what
  there is to do; SF because a pass may find the answers outdated.
* `Supervision`: WF on the watchdog, which is more urgent than the dispatcher; none
  on the dispatcher.
* `Display`: WF on rendering and stopping, SF on draining, because the terminal
  refuses a chunk while its ring is full and takes it again and again.
  `LiveView`: WF on the console; nothing of the dispatcher.

## 4. Proofs

| theorem | says | module |
|---|---|---|
| `KernelInvariant` | `Spec => []KernelInv` | `KernelProofs` |
| `TypeCorrect` | `Spec => []TypeOK` | `KernelProofs` |
| `QueuesConsistent`, `CallersNeverOrphaned`, `PrioritiesRespected`, `ResultsDelivered`, `HaltIsFinal` | the five invariants checked in `kernel` | `KernelProofs` |
| `TableInvariant` | `Spec => []TableInv` | `TrackReservationProofs` |
| `SectionsHaveOneOwner`, `PlansConsistent` | a node and its reverse have one owner; plans and ownership agree | `TrackReservationProofs` |
| `PlanChangesAreVisible`, `OwnersAreNeverRobbed`, `RequestsAreAtomic` | action properties of every request | `TrackReservationProofs` |
| `ReservationsAreLocks` | the reservation table implements `SectionLocks` | `TrackReservationProofs` |
| `SleepersAreNotPassedOver` | `NobodyOversleeps`: no delay outlives the tick that ends it | `KernelProofs` |
| `CallsAreRendezvous` | the kernel implements `Rendezvous` | `KernelProofs` |
| `ZoneInvariant` | the inductive invariant of the turnout queues | `ConflictZoneProofs` |
| `StagesAlwaysSound`, `ClaimsAlwaysCurrent` | stages stay behind one another and complete; claims agree with the registry | `ConflictZoneProofs` |
| `ZonesAreQueues` | the conflict zones implement `TurnoutQueues` | `ConflictZoneProofs` |
| `ZonesRest` | `DelayKept`: a zone opens again only when it has rested | `ConflictZoneProofs` |
| `RoutesAreForgotten` | `RoutesForgotten`: no claim outlives its route, and generations do not return | `ConflictZoneProofs` |
| `ClockInvariant` | the inductive invariant of the clock, its notifier and its clients | `ClockProofs` |
| `ClientsAreKept`, `SweepsAreComplete` | nobody is forgotten or answered twice; nobody is left asleep by a sweep | `ClockProofs` |
| `DelaysAreKept` | n ticks last n - 1 periods at least | `ClockProofs` |
| `ServersServe` | `ClientsServed`: bytes in order, no reader left waiting, lookups true, CAN clients in one place | `ServerProofs` |
| `BatchesAreInOrder` | `BatchesInOrder`: batches accounted for, stops first, what is reported done was done | `ServerProofs` |
| `JournalIsExact` | `JournalExact`: pages without gaps, losses told when there were some and only then | `ComponentProofs` |
| `QueueIsTrue` | `QueueLeadsToPicture`: what is queued leads from the screen to the retained picture | `ComponentProofs` |
| `ReportsAreUsedOnce` | `ReportsUsedOnce`: no report takes a job further than its train is, none of its plan is skipped when it starts to read | `ComponentProofs` |
| `MarkerIsAlwaysRight` | `MarkerIsRight`: the dashboard shows whole published plans, with a marker that moves forward and never past a sensor that has not reported | `ComponentProofs` |
| `JobInvariant` | the inductive invariant of the dispatcher's jobs and their commands | `JobControlProofs` |
| `RestingStands`, `MovingIsWatched` | a job believed at rest has its train at rest; what may move is watched | `JobControlProofs` |

**Kernel.**  For every number of descriptors, priorities, tids, UART events and
every timer period (`KernelAssumption`).  None of the invariants is inductive
alone.  `QueueDiscipline` needs to know which descriptor is being served
(`OneActive`); `CallersHaveReceiver` speaks of tids, so it needs them unique
among the descriptors that still carry one (`TidsUnique`); `CallsComplete` needs
that a call which leaves its caller runnable has stored a result
(`ResultHeld`); lists are indexed by priority and event, so these must be known
ones (`PrioritiesKnown`, `EventsNamed`).  `KernelInv` is the conjunction.  Each
system call and each handler loop has a lemma with one step per conjunct it can
disturb; `NextInv` puts them together.  `ListLemmas` says what appending,
removing and inserting do to the members of a list and to its having no
duplicates.

*The timer.*  `NobodyOversleeps` is about a step: after a tick nobody whose time
has come is still asleep.  The handler only looks at the head of the list, so
the proof needs the list sorted by the distance of each deadline from now
(`TimerSorted`), not by the deadline, which wraps.  An insertion keeps the order
because it stops at the first later sleeper (`InsertPositions`); a tick takes
one from every distance and lets none wrap, because the head is released when
its distance is nought; and once the head is not due nobody behind it is.

*The refinement.*  `Rendezvous` speaks of tids, the kernel of descriptors that
are reused.  What a tid shows is what the live descriptor that carries it shows,
and `TidsUnique` makes that one descriptor.  Two strengthenings of `KernelInv`
make every step map: a descriptor in use has a tid that was handed out, and only a
waiting caller names a receiver (`CallsNamed`), so that an unused tid shows nothing;
and nobody waits to receive while a caller is queued for it (`NoneKeptWaiting`), so
that handing a message over directly never overtakes an older one.  One lemma per action says which step of
`Rendezvous` it is; the loops of Exit wake their callers one by one, and each
turn is the abstract release of one caller.

**Reservation.**  For every graph in which the reverse of a reverse is the node
(`TrackAssumption`) and every wrap of the generation (`GenerationAssumption`).
`TableInv` is the types with `DirectionsTogether` and `PlanHasFootprint`: the
first makes a train's holding a union of sections, the second is needed for a
release to change the generation.  The last theorem maps initial state to
initial state and every request to `Take`, `GiveUp` or a stutter.

**Conflict zones.**  For any zones, trains and stages, and any width of tickets and
generations (`ZoneAssumption`).  `StagesSound` is not inductive: that no zone has two
controllers is read off tickets, and these wrap.  `IInv` adds that no two trains
in one line hold the same ticket and that the next ticket to be handed out is
held by nobody (`TicketsApart`, `NextUnused`), and that what a train owns or asks
for under one ticket is a stage in one state (`WholeCohorts`, `WholeLines`).  The
steps are grouped by what they do to one train's lines, to the zones of one
stage, or to neither, and each group has a lemma.  The bound `TicketsFresh` of the
model is part of the theorem: nobody waits while half of all tickets are handed
out.  The code has no such check and relies on there being 2^32 of them.
For `ZonesAreQueues` the line of a zone is the sequence of its waiting trains by
the age of their tickets; the ages are distinct and below half of the tickets,
so there is exactly one such sequence, the signed comparison of the code agrees
with it, and each operation appends to it, takes one train out, or leaves it.

The last two theorems are about the table of `ZoneRests`.  It is an instance of
the same module with a history variable, `quiet`: how many ticks each zone has
been given up for.  A delay is started while the scheduler is late and counts
from its last pass, so `DelayKept` needs an invariant over both: what a resting
zone has rested, what it has still to rest and `LateBy` together make up the
delay (`Resting`), and a pass takes as much off the second as the clock added to
the first.  For `RoutesForgotten` all claims of a train are of its latest route
(`Routes`); a newer route prunes both queues before it asks for anything.
`RestAssumption` says of the generations what the code's wrapping comparison
needs: that the dispatcher hands them out in an order in which each is newer
than all before, which holds for any 2^31 - 1 in a row (generation 0 is that
of a train that has no route yet).  Among such generations the comparison is
one-way also where they wrap, so none that was handed out earlier passes it again.

**Clock.**  For any clients, number of slots, period and amounts (`ClockAssumption`;
`MaxTick` bounds the model).  `NobodyForgotten` needs no more than itself.
`NobodyOverslept` speaks of the end of a sweep; in its middle the slots before
the one it looks at are done (`SweptBelow`), and a client that is answered and
asks again sits behind a later tick.  For `DelaysLastLongEnough` each delay
carries the time it has sat through: a whole period for every tick after the
first, and what has gone by of the current one (`SatLongEnough`).  That ticks are
a period apart holds because the notifier is in one place -- asleep, or in the
server's queue (`OneNotifier`).  A tick that waits in the queue is counted before
the requests behind it (`DelaysFit`), so the bound on ticks is kept.

**Terminal and name server.**  For any clients, ring sizes, chunks and names
(`TerminalAssumption`, `NameServerAssumption`).  A byte is in one place on its way:
the UART's FIFO, the notifier's hand, the ring, a reader.  `TypedInOrder` and
`AcceptedInOrder` are proved from the places taken in a row: they are the line of
what was typed, and of what was accepted, less what was refused.  Readers wait
only while there is nothing in the ring.  For the name server: a name is in one
slot at most, so the slot that is found is the one registered last.

**CAN.**  For any clients, commands, queue, table of batches, batch size and limits
(`CanAssumption`; `MaxFrames` bounds the model).

* *Clients* (`NobodyForgotten`): a client that waits is in one place, the message at
  hand or one frame of the queue (`Alone`, `CallsOK`), and what is cleared away --
  for something more urgent, with a batch that failed, with the controller --
  takes just its own clients.
* *Batches* (`BatchesAccounted`, `UrgentFirst`): every handler either cuts frames out of the queue
  or puts a block of frames into it at one place, and lemmas about a cut and a block say what
  becomes of the ranks and of the frames of each token.  The inductive invariant
  is the order of ranks behind the frame on the wire (`Ranked`), tokens below the
  next one (`TokensOK`), and for each slot of the table how many of its frames
  are queued (`TableOK`).
* *Answers* (`DoneMeansExecuted`): an answer has the bytes of its command and does
  not say which of several identical frames it is for.  The invariant looks at all
  answers that are still to come: in the controller's buffers, on their way, at
  hand, and of a frame that was given up and is in the transmit buffer yet.  For
  an absolute command any of them proves that the station has carried such a
  command out.  Of the others (`Open`) one at most is the frame's on the wire,
  which has been obeyed then, and one at most another's, which is the
  quarantined one's (`Excused`).  An answer that confirms is not quarantined, so
  it is the former.  When a frame is given up its answer becomes the latter;
  there was none before unless a quarantine is overwritten, the case
  `can_ambiguity` shows.

**Journal.**  For any capacity, page size and range of numbers (`SensorAssumption`).
Numbers wrap, so the invariant speaks of distances from the newest event, and a
train's entries are those of the last `Capacity` numbers; an entry that is
overwritten becomes the train's last loss, and a page is cut where its reader's
cursor is.  `LongestLoss` and `JobsKeepUp` say that no such distance spans half
of the space.

**Screen.**  For any map and any pictures of finitely many places
(`DisplayAssumption`).  The chunks that are queued settle, each for its own place,
what the screen shows there; a frame is the difference to the retained picture
or a whole picture, and the invariant says that the places no chunk settles are
as the picture has them, unless everything is to be drawn anew.

**A followed train.**  For a track of any length and any number of trips, lost and
spurious reports (`ProgressAssumption`).  That no report takes the job too far is
decided by where reports still come from.  `TripInv` says that every sensor the job
may yet hear of -- an event behind its cursor, the report at the server, one on
the line -- is not ahead of the train on the leg it drives (`Heard`), so that the
expected sensor, when it is matched, has been passed.  For a job that is about to
launch this is known only of the events after its second look at the journal,
and `Numbers` ties the two looks together.  A route may come back to a sensor, but
only after a turn (`TurnsBack`), and a leg ends at a turn: within a leg a sensor
has one place.  `EventsAreSeen` needs that events carry no generation newer than
the plan, and that the cursor a job starts from is the one it was prepared with.

**Dashboard.**  For any sensors, routes of at least two way-points in order, size of a page
and number of events (`LiveViewAssumption`; `MaxGeneration` bounds the model and is
not assumed to be anything).  The
console collects a plan while the dispatcher replaces it, so `ViewInv` says of what has been
collected that it is the beginning of the plan its header named, that this plan was published
under the generation the console saw, and that the same serial number means the same plan
(`Collected`); and of what is shown that it is such a plan, no newer than the job, with a
marker short of every sensor that has not reported (`Believed`), both for the job as it is and
as the console saw it.  Events are applied in the order of their numbers, by a
function over these numbers: what holds of the view before them holds after each (`ListLemmas`).

**Jobs.**  For any number of slots and attempts, any length of the CAN server's
queue, any batch tokens and any number of lost frames (`JobAssumption`; with
`Tokens` used up, a batch is refused, as the code does when no status slot is
free).  Whether a train may start is decided far from its job: by a frame in the
queue, on the line, or obeyed and not answered.  `IInv` (in `JobInvariants`)
says of each what it can mean:

* the line (`LineOK`): a batch has one frame to a train at most (`OneEach`); a batch
  that has not failed still waits for as many answers as it has frames out
  (`Counted`), so that a batch whose answers are all in has nothing under way;
  and no start is queued whose batch has failed (`NoGoFailed`);
* each slot (`SlotOK`): in a state in which the train is to stand, nothing starts it
  (`StillOK`); the stop a job waits for is out with no start behind it, or has
  been carried out, or its batch has failed, so that it is sent again (`StopOK`);
  a start that is queued in a batch belongs to the wave its job is launched with
  (`GoOK`);
* the dispatcher: what it waits for (`CallOK`, `CommandOK`), what the station has done
  with the frame on the line (`WireOK`), and what a command has seen of the batch
  it is about to cancel (`PcOK`).

With `CallOK` and `StillOK` the two properties follow.  A step of the dispatcher
calls the CAN server several times and changes jobs in between, so the proof
follows a chain of worlds: a call drops frames, failing their batches, and adds
stops, and leaves every slot it does not make sound itself undisturbed (`Well`);
a change of a job has to agree with what is on its way (`Fits`); at the end of
the chain all slots are sound (`Fine`).  Jobs failed one after the other, and the
filtering of the queue, are functions over 1 .. n: `ListLemmas` proves from the
well-foundedness of < that a set of naturals which has 0 and is closed under
successors has all of them, and each induction is stated for such a set.  For
that, `Lists` has `Kept` and `Without` as functions, in place of the
library's folds.  The `rewound` jobs are excused as in the runs; `MCJobControl`
extends `JobInvariants`, and with `IInv` added to the invariants of `dispatch` TLC
finds it true in all its states.

**Only model-checked.**  Everything under fairness (`CallersReleased`,
`RoundRobin`, `WorkArrives`, `StopsAreRepeated`, `WavesFailTogether`, `ScreenSettles`, `PlanShows`, `TripsEnd`, `StallsAreNoticed`): liveness is beyond
this prover.  What is computed by the library's folds over data, which would
need induction over them: the planner's and the simulator's operators
(`PlansAreSound`, `SimulationIsTrue`, `TrainsKeepApart`), and the zone loop's pass
over the trains (`TurnoutsKept`, `OnlyCirclesWait`).  Every property of `kernel`,
`components` and `zones` is a theorem, and those of `dispatch` about jobs.  No module declares a RECURSIVE operator.

## 5. Not modelled

* **Dispatcher**: the authority windows a train asks for on its way, and the
  head-on, following and junction checks of **traffic safety** that compare two
  trains' footprints in micrometres.  They are arithmetic over the measured
  layout; `JobControl` takes every verdict they may give as an input, so what
  the dispatcher does with a verdict is modelled and whether the verdict is
  right is not.  Localisation arithmetic, measured distances, diagnostics and
  the wording of failures are left out as well.
* **Motion and prediction models**: interpolation in calibration tables.
* **Zone loop**: carries of an older route, egress from an origin zone, the return
  to an earlier stage when a launch is taken back (`src/tc2_dispatch.c:8415`), the
  slow correction after a stop, turnouts thrown by hand (their report fails all
  trips, `:2146`), and passes that end in an error and fail the job (a job may fail
  at any other time); a train of `ZoneTraffic` follows one leg of
  one route.  `suspend_conflict_zone_command_rights` keeps the soft claim of a
  train in `TRAFFIC_HOLD` (`:9657`, `:11146`).  That part is never executed: a job
  gets into that state with the purpose `TC2_STOP_TRAFFIC` and a valid plan only
  (`:13945`, `:21527`), both last until it leaves it, and with both
  `traffic_stop_retains_turnout_plan` keeps it from being suspended at all.  The hard
  claim that is cancelled while the soft one stays is that of a train which has
  not left the zone yet (`:8830`), and is in `Refresh`.
* **Following**: the matching of reports by measured distance, the sensor behind
  the destination that the last leg's monitor also accepts, and what puts a brake
  deadline off (a crossing without power, the search for a last sensor): a deadline
  comes at any time once the train is close.  Stray reports of a sensor that the
  train has still ahead of it cannot be told from its own, and are left out.
* **CAN**: the queue of received frames, which the sensor courier polls (a poll is
  one of `CanServer`'s queries), and the blocking send and receive, which no task
  of the train program uses.  **Sensor**: the courier's health reports and the
  diagnostic counters.
* **Planner**: the witness that head-on recovery asks of a candidate and the
  prediction of the point where the motor is cut.
* **User interface**: which character a cell shows, legends and path geometry.
* **Simulator**: the ingestion of a projection page by page, which only tests call.
* **Train control**: parsing and printing, and TC1's control loop for one train,
  which TC2 does not run.
* **RPS** and the **performance** tasks are demonstrations of earlier milestones
  that share nothing with the trains.
* Track data, boot, exception entry and drivers: generated tables, code that runs
  once, and register accesses whose effects the modules above them model.

## 6. Plan

What remains is proof.  In order of value:

1. `CutMeansTrip` of `Supervision`, which `StallsAreNoticed` contains: a train that was
   stopped behind the dispatcher's back does not keep a job that takes it to run.
2. `TurnoutsKept` and its excuses, over passes written as functions of the slot number, as
   the dispatcher's loops in `JobControl` are.
