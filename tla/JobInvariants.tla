--------------------------- MODULE JobInvariants ---------------------------
(***************************************************************************)
(* What holds of the dispatcher's jobs in every state: the types, the line *)
(* (LineOK), what each job's state says of its train (SlotOK), and what    *)
(* the dispatcher waits for or has looked at (CallOK, CommandOK, PcOK).    *)
(*                                                                         *)
(* w is a World, m the motors.  The parts are operators of them because a  *)
(* step of the dispatcher is a chain of worlds, and each call in it is     *)
(* shown to keep them.                                                     *)
(***************************************************************************)
EXTENDS JobControl

\* The states of a job (tc2_dispatch_job_state_t).
StateNames ==
  {"empty", "staged", "waiting", "preparing", "ready", "launching", "running", "braking",
   "traffic hold", "arrived", "stopped", "stop unconfirmed", "cancel braking", "reversing",
   "failed"}

JobType ==
  [state : StateNames, purpose : {"none", "destination", "reversal", "traffic"},
   launch : Tokens \cup {0}, estop : Tokens \cup {0}, retry : BOOLEAN, turned : BOOLEAN,
   removing : BOOLEAN, rewound : BOOLEAN]

Frames == [train : Slots, speed : {"go", "stop", "turn"}, token : Tokens \cup {0}, rank : 0 .. 2]

WireType == [frame : Frames \cup {NoFrame}, obeyed : BOOLEAN, wanted : BOOLEAN]

BatchType == [total : Nat, left : Nat, failed : BOOLEAN]

\* What the motor is told, by the reason.
Told(why) ==
  IF why \in {"resume", "correct", "relaunch"} THEN "go"
  ELSE IF why \in {"turn", "turn first", "retarget"} THEN "turn" ELSE "stop"

CallType ==
  {NoCall} \cup
  [train : Slots, speed : {"go", "stop", "turn"}, tries : Nat \ {0},
   why : {"destination", "reversal", "resume", "correct", "relaunch", "turn", "turn first",
          "retarget", "cancel", "remove", "after wave"},
   is : {"again", "sent", "done", "failed"}]

PcType ==
  [at : {"receive", "tick", "tripped", "cancelled", "removed", "cancel", "remove"},
   pos : Nat, back : Nat, seen : {"none", "failed", "complete", "unconfirmed", "partly"}]

\* Batches of gos have the lowest rank, emergency stops the highest, control
\* commands the one between.
FrameOK(f) ==
  /\ f.speed = "go" /\ f.token # 0 => f.rank = 0
  /\ f.speed = "stop" /\ f.token # 0 => f.rank = 2
  /\ f.speed = "turn" => f.token = 0
  /\ f.token = 0 => f.rank = 1

\* A frame of batch b to train s waits or is being sent.
IsOut(w, b, s) ==
  \/ \E f \in Members(w.queue) : f.token = b /\ f.train = s
  \/ w.wire.wanted /\ w.wire.frame.token = b /\ w.wire.frame.train = s
Out(w, b) == {s \in Slots : IsOut(w, b, s)}

LineType(w) ==
  /\ w.job \in [Slots -> JobType]
  /\ w.queue \in Seq(Frames) /\ InjectiveSeq(w.queue)
  /\ w.wire \in WireType
  /\ w.batch \in [Tokens -> BatchType]
  /\ w.got \in Tokens \cup {0}
  /\ w.wire.wanted => w.wire.frame \in Frames
  /\ \A f \in Members(w.queue) : FrameOK(f)

\* A batch has one frame to a train.
OneEach(w) ==
  /\ \A f, g \in Members(w.queue) :
       f.token = g.token /\ f.train = g.train /\ f.token # 0 => f = g
  /\ \A f \in Members(w.queue) :
       w.wire.wanted /\ f.token # 0 /\ w.wire.frame.token = f.token => w.wire.frame.train # f.train

\* A batch that has not failed has as many answers ahead as frames, or more.
Counted(w) ==
  \A b \in Tokens : ~w.batch[b].failed => Cardinality(Out(w, b)) <= w.batch[b].left

\* A command to start whose batch has failed is not sent any more.
NoGoFailed(w) ==
  \A f \in Members(w.queue) : f.speed = "go" /\ f.token # 0 => ~w.batch[f.token].failed

LineOK(w) == LineType(w) /\ OneEach(w) /\ Counted(w) /\ NoGoFailed(w)

GoQueued(w, s) == \E f \in Members(w.queue) : f.train = s /\ f.speed = "go"
GoSent(w, s) == w.wire.frame.train = s /\ w.wire.frame.speed = "go" /\ ~w.wire.obeyed
\* Train s moves, or a command that is on its way may set it in motion.
Go(w, m, s) == m[s] \/ GoSent(w, s) \/ GoQueued(w, s)

BatchFailed(w, b) == w.batch[b].failed \/ w.batch[b].total = 0

\* States of a job whose train is to stand.
Still(j) ==
  \/ j.state \in {"empty", "staged", "waiting", "preparing", "ready", "traffic hold", "arrived",
               "stopped", "stop unconfirmed", "cancel braking", "reversing"}
  \/ j.state = "braking" /\ j.estop = 0
  \/ j.state = "failed" /\ ~j.retry

\* The exception: a launch taken back after a frame of it was sent.
Excused(j) == j.rewound /\ j.state \in {"preparing", "ready"}

\* e: the dispatcher is just telling the train to go.
StillOK(w, m, s, e) == Still(w.job[s]) => ~Go(w, m, s) \/ Excused(w.job[s]) \/ e

\* The stop b is on its way and nothing behind it starts the train again, or it
\* has been carried out; or its batch has failed, so that it will be repeated.
StopOut(w, m, s, b) ==
  \/ BatchFailed(w, b)
  \/ /\ ~GoQueued(w, s)
     /\ \/ \E f \in Members(w.queue) : f.train = s /\ f.token = b /\ f.speed = "stop"
        \/ w.wire.wanted /\ w.wire.frame.train = s /\ w.wire.frame.token = b
             /\ w.wire.frame.speed = "stop" /\ ~w.wire.obeyed
        \/ ~m[s] /\ ~GoSent(w, s)

StopOK(w, m, s) ==
  LET j == w.job[s] IN
  j.estop # 0 /\ (j.state = "braking" \/ (j.state = "failed" /\ j.retry))
    => StopOut(w, m, s, j.estop)

\* A command to start that is queued in a batch belongs to the launch of its job.
GoOK(w, s) ==
  \A f \in Members(w.queue) :
    f.train = s /\ f.speed = "go" /\ f.token # 0 =>
      w.job[s].state = "launching" /\ w.job[s].launch = f.token

RemovingOK(w, s) == w.job[s].removing => w.job[s].state = "stop unconfirmed"

SlotOK(w, m, s, e) ==
  StillOK(w, m, s, e) /\ StopOK(w, m, s) /\ GoOK(w, s) /\ RemovingOK(w, s)

GoCall(c, s) == c.train = s /\ c.speed = "go"

\* The calls of cancel_job and remove_job.
TakingBack == {"cancel", "remove", "after wave"}

\* Jobs for which a pass calls: no stop is on its way for them, nor a launch.
Plain(j) ==
  ~j.removing /\ j.state \notin {"failed", "launching"} /\ (j.state = "braking" => j.estop = 0)

\* The call the dispatcher waits in.  Nothing that is queued starts a train it
\* stops.
CallOK ==
  /\ call \in CallType
  /\ call.speed = Told(call.why)
  /\ call # NoCall => pc.at # "receive"
  /\ call.why \in TakingBack => pc.at \in {"cancel", "remove"} /\ pc.pos = call.train
  /\ call # NoCall /\ call.why \notin TakingBack => Plain(job[call.train])
  /\ call # NoCall /\ call.speed = "stop" =>
       /\ ~GoQueued(World, call.train)
       /\ call.is = "done" => ~Go(World, moving, call.train)

\* One frame at most is outside the batches: that of the call.
CommandOK ==
  /\ \A f \in Members(queue) : f.token = 0 =>
       /\ call.is = "sent" /\ f.train = call.train /\ f.speed = call.speed
       /\ ~(wire.wanted /\ wire.frame.token = 0)
  /\ wire.wanted /\ wire.frame.token = 0 =>
       call.is = "sent" /\ wire.frame.train = call.train /\ wire.frame.speed = call.speed

\* The box has acted on a frame as soon as it is obeyed.
WireOK ==
  /\ wire.frame = NoFrame => wire = NoWire
  /\ wire.obeyed /\ wire.frame.speed = "go" => moving[wire.frame.train]
  /\ wire.obeyed /\ wire.frame.speed = "stop" => ~moving[wire.frame.train]

\* What a command has seen of the batch still holds of the job, and, if it was
\* complete, of the queue.
PcOK ==
  /\ pc \in PcType
  /\ pc.at \in {"cancel", "remove"} => pc.pos \in Slots
  /\ pc.seen # "none" => call = NoCall /\ job[Target].launch # 0
  /\ pc.at \in {"cancel", "remove"} /\ pc.seen = "complete" => ~GoQueued(World, pc.pos)
  /\ pc.at \in {"cancel", "remove"} /\ pc.seen # "none" => Is(pc.pos, {"launching", "running"})

\* The inductive invariant.
IInv ==
  /\ moving \in [Slots -> BOOLEAN] /\ lost \in Nat
  /\ LineOK(World)
  /\ \A s \in Slots : SlotOK(World, moving, s, GoCall(call, s))
  /\ CallOK /\ CommandOK /\ WireOK /\ PcOK
=============================================================================
