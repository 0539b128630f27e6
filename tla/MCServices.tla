----------------------------- MODULE MCServices -----------------------------
(***************************************************************************)
(* What the kernel and the servers owe their clients in the end, for TLC:  *)
(* the kernel's calls, the terminal's output, the CAN server's frames and  *)
(* the journal's events; and the two parts that answer at once, the        *)
(* planner and the simulator.  They share no state here, so a behaviour    *)
(* exercises one of them while the others rest.                            *)
(*                                                                         *)
(* The planner's track, a label for each direction of every node:          *)
(*                                                                         *)
(*   EN1/EX1(1,2) -- MG4(3,4) -- A(5,6) -- BR1(7,8) - BR2(15,16) - EX3(17,18)*)
(*                    |                     |           |                  *)
(*                    +----- B(9,10) -------|-----------+                  *)
(*                                          +- D(11,12) -- EX2(13,14)      *)
(*                                                                         *)
(* Switches 1 and 2 share a spot.  From A over 1 and 2 back to 4 there is  *)
(* a loop.  In the simulator two trains use one track of six cells.        *)
(***************************************************************************)
EXTENDS KernelIpc

CONSTANTS Clients, Nobody

VARIABLES
  part,         \* what is exercised
  rxThere, txThere, typed, fifo, rxHand, rx, getters, got, refused,
  accepted, txq, txHand, parked, sent,
  pc, msg, hw, q, tx, polls, busy, status, nextToken, nextSlot, quarantine,
  authority, calling, txb, late, frames, obeyed, reached, overwritten,
  high, attributed, entries, dropped, cursor, unread,
  request, plan,                                       \* RoutePlanner
  now, runtime, overlay, registry, issued, failed      \* OfflineController

Console == INSTANCE Terminal WITH
  RxSize <- 2, TxSize <- 2, GetcSize <- 1, Chunk <- 2, FifoSize <- 1, MaxBytes <- 2, tx <- txq

Can == INSTANCE CanServer WITH
  Dispatcher <- CHOOSE c \in Clients : TRUE,
  Speeds <- {"stop"}, Toggles <- {"reverse"}, Turnouts <- {},
  QueueSize <- 2, StatusSlots <- 1, BatchMax <- 2, TxLimit <- 1, AnswerLimit <- 1, MaxFrames <- 2,
  ready <- hw

Journal == INSTANCE TrainSensor WITH
  Sensors <- {1}, Trains <- {1, 2}, Capacity <- 2, BatchSize <- 1, SequenceSpace <- 10,
  LongestLoss <- 4

Node(kind, num, reverse, next) == [kind |-> kind, num |-> num, reverse |-> reverse, next |-> next]
To(to, dist)                   == [to |-> to, dist |-> dist]
Layout ==
  << Node("enter", 0, 2, <<To(3, 1)>>),               Node("exit", 0, 1, <<>>),
     Node("merge", 4, 4, <<To(5, 1)>>),               Node("branch", 4, 3, <<To(2, 1), To(10, 1)>>),
     Node("sensor", 21, 6, <<To(7, 2)>>),             Node("sensor", 22, 5, <<To(4, 1)>>),
     Node("branch", 1, 8, <<To(15, 1), To(11, 2)>>),  Node("merge", 1, 7, <<To(6, 2)>>),
     Node("sensor", 23, 10, <<To(3, 1)>>),            Node("sensor", 24, 9, <<To(16, 2)>>),
     Node("sensor", 25, 12, <<To(13, 3)>>),           Node("sensor", 26, 11, <<To(8, 2)>>),
     Node("exit", 0, 14, <<>>),                       Node("enter", 0, 13, <<To(12, 3)>>),
     Node("branch", 2, 16, <<To(9, 2), To(17, 4)>>),  Node("merge", 2, 15, <<To(8, 1)>>),
     Node("exit", 0, 18, <<>>),                       Node("enter", 0, 17, <<To(16, 4)>>) >>

Side(target, offset, guide) == [target |-> target, offset |-> offset, guide |-> guide]

Planner == INSTANCE RoutePlanner WITH
  Track <- Layout, Starts <- {1, 14},
  Destinations <- { <<Side(9, 1, 0), Side(10, 1, 0)>>,
                    <<Side(11, 0, 0), Side(12, 2, 8)>>,
                    <<Side(6, 0, 0), Side(5, 1, 0)>> },
  Braking <- <<1, 3>>, Clearance <- <<1, 2>>, Penalty <- 2, Mates <- {{1, 2}}, Close <- {{1, 2, 4}},
  MaxMembers <- 2, Blockages <- {{}, {9}}, NoGuide <- 0

WayPoint(kind, at, node, thing, cell) ==
  [kind |-> kind, at |-> at, node |-> node, thing |-> thing, cell |-> cell]
Trip(train, speed, route) == [train |-> train, speed |-> speed, route |-> route]

Simulator == INSTANCE OfflineController WITH
  Trains <- {1, 2}, Sensors <- {2, 3}, Slots <- 2, Reserved <- 2, FixedColour <- [t \in {2} |-> 0],
  FlashTicks <- 2, MaxStep <- 2, Drawn <- {0, 1, 2, 4, 5, 6}, MaxStaged <- 3, MaxTime <- 6,
  Plans <-
    { Trip(1, 1, << WayPoint("start", 0, 1, -1, 0), WayPoint("sensor", 1, 2, 2, 2),
                    WayPoint("destination", 2, 3, 1, 4) >>),
      \* behind the first
      Trip(2, 3, << WayPoint("start", 0, 1, -1, 0), WayPoint("sensor", 1, 2, 2, 2),
                    WayPoint("turnout", 2, 3, 7, -1), WayPoint("destination", 4, 4, 2, 6) >>),
      \* against it
      Trip(2, 2, << WayPoint("start", 0, 14, -1, 6), WayPoint("turnout", 1, 13, 7, -1),
                    WayPoint("reversal", 3, 12, 3, 2), WayPoint("sensor", 4, 12, 2, 2),
                    WayPoint("destination", 5, 11, 2, 1) >>) }

ASSUME ServiceAssumptions ==
  /\ Console!TerminalAssumption /\ Can!CanAssumption /\ Journal!SensorAssumption
  /\ Simulator!ControllerAssumption

console == <<rxThere, txThere, typed, fifo, rxHand, rx, getters, got, refused,
             accepted, txq, txHand, parked, sent>>
can     == <<pc, msg, hw, q, tx, polls, busy, status, nextToken, nextSlot, quarantine,
             authority, calling, txb, late, frames, obeyed, reached, overwritten>>
journal == <<high, attributed, entries, dropped, cursor, unread>>
planner == <<request, plan>>
simulator == <<now, runtime, overlay, registry, issued, failed>>
allvars == <<part, vars, console, can, journal, planner, simulator>>

MCInit ==
  /\ part \in {"ipc", "console", "can", "journal", "planner", "simulator"}
  /\ Init
  /\ Console!Init /\ (part = "console" \/ (rxThere /\ txThere))
  /\ Can!Init /\ (part = "can" \/ hw)
  /\ Journal!Init
  /\ Planner!Init /\ Simulator!Init

resting == <<part, planner, simulator>>
OfIpc(A)     == part = "ipc" /\ A /\ UNCHANGED <<resting, console, can, journal>>
OfConsole(A) == part = "console" /\ A /\ UNCHANGED <<resting, vars, can, journal>>
OfCan(A)     == part = "can" /\ A /\ UNCHANGED <<resting, vars, console, journal>>
OfJournal(A) == part = "journal" /\ A /\ UNCHANGED <<resting, vars, console, can>>
OfPlanner(A) == part = "planner" /\ A /\ UNCHANGED <<part, vars, console, can, journal, simulator>>
OfSimulator(A) == part = "simulator" /\ A /\ UNCHANGED <<part, vars, console, can, journal, planner>>

MCNext ==
  \/ OfIpc(Next) \/ OfConsole(Console!Next) \/ OfCan(Can!Next) \/ OfJournal(Journal!Next)
  \/ OfPlanner(Planner!Next) \/ OfSimulator(Simulator!Next)

\* The fairness of modules Kernel, Terminal, CanServer and TrainSensor.
Fairness ==
  /\ WF_allvars(OfIpc(Syscall)) /\ WF_allvars(OfIpc(KernelStep)) /\ SF_allvars(OfIpc(Tick))
  /\ WF_allvars(OfConsole(Console!RxReady)) /\ WF_allvars(OfConsole(Console!TxReady))
  /\ WF_allvars(OfConsole(Console!SendByte))
  /\ WF_allvars(OfCan(Can!Server)) /\ SF_allvars(OfCan(Can!TakePoll))
  /\ \A t \in {1, 2} : WF_allvars(OfJournal(Journal!Drain(t)))

MCSpec == MCInit /\ [][MCNext]_allvars /\ Fairness

-----------------------------------------------------------------------------
\* Output, frames and events arrive.
WorkArrives ==
  Console!OutputDrains /\ Can!RequestsEnd /\ (part = "journal" => Journal!EventsArrive)

\* Plans are the shortest, can be driven and are drawn as they are driven.
PlansAreSound == part = "planner" => Planner!PlansAreSound

\* What is drawn of the simulated trains is where they are.
SimulationIsTrue == part = "simulator" => Simulator!SimulationIsTrue

\* A simulated train enters no track that another one has claimed.
TrainsKeepApart == Simulator!TrainsKeepApart
=============================================================================
