----------------------------- MODULE JobControl -----------------------------
(***************************************************************************)
(* The dispatcher's jobs (src/tc2_dispatch.c): how a train's job goes from *)
(* staged to arrived, what each pass of a tick may do to it, and what the  *)
(* motors are told on the way.  The dispatcher talks to the motors through *)
(* the CAN server, which goes on sending while the dispatcher works: its   *)
(* queue, its batches and the frame on the line are part of the model.     *)
(*                                                                         *)
(* Whether a gate is open, a deadline reached, a plan found or a service   *)
(* healthy depends on data that is not modelled: each is a choice.  The    *)
(* CAN hardware stays up and Time() answers.                               *)
(***************************************************************************)
EXTENDS Lists, FiniteSets

CONSTANTS
  Slots,      \* one train to a slot: 1 .. n
  Room,       \* CAN_TX_Q_SIZE
  Attempts,   \* command_train_speed_with_retry
  Tokens,     \* batch tokens, a bound
  Orders,     \* what the operator and the supervisor intervene with
  MaxLost     \* frames that get lost or stay unanswered, a bound

ASSUME JobAssumption ==
  /\ IsFiniteSet(Slots) /\ Slots # {} /\ Slots = 1 .. Cardinality(Slots)
  /\ Room \in Nat /\ Attempts > 0 /\ Attempts \in Nat
  /\ 0 \notin Tokens /\ IsFiniteSet(Tokens)

VARIABLES
  job,        \* dispatch_jobs and dispatch_runtime, by slot
  pc,         \* where the dispatcher is
  call,       \* the control command it waits for
  queue,      \* the CAN server's transmit queue, in the order of sending
  wire,       \* the frame being sent, and whether the box has acted on it
  batch,      \* the batches' status
  lost,       \* frames lost so far
  moving      \* the motors

vars == <<job, pc, call, queue, wire, batch, lost, moving>>

NoFrame == [train |-> 0, speed |-> "stop", token |-> 0, rank |-> 0]
NoWire  == [frame |-> NoFrame, obeyed |-> FALSE, wanted |-> FALSE]
NoBatch == [total |-> 0, left |-> 0, failed |-> FALSE]
NoCall  == [train |-> 0, speed |-> "stop", tries |-> 0, why |-> "none", is |-> "idle"]

\* clear_job and clear_runtime.
NoJob == [state |-> "empty", purpose |-> "none", launch |-> 0, estop |-> 0,
          retry |-> FALSE, turned |-> FALSE, removing |-> FALSE, rewound |-> FALSE]

\* back is where a tick goes on after the cancel in the middle of it.
Receive == [at |-> "receive", pos |-> 0, back |-> 0, seen |-> "none"]

Init ==
  /\ job = [s \in Slots |-> NoJob]
  /\ pc = Receive /\ call = NoCall
  /\ queue = <<>> /\ wire = NoWire
  /\ batch = [b \in Tokens |-> NoBatch]
  /\ lost = 0
  /\ moving = [s \in Slots |-> FALSE]

-----------------------------------------------------------------------------
(* The CAN server, as its clients see it.  w is the part of the state that *)
(* a call to it reads and writes.                                          *)

World == [job |-> job, queue |-> queue, wire |-> wire, batch |-> batch, got |-> 0]

Pending(b, bs) == bs[b].left > 0 /\ ~bs[b].failed
Complete(b)    == b # 0 /\ batch[b].total > 0 /\ batch[b].left = 0 /\ ~batch[b].failed
Failed(b)      == b = 0 \/ batch[b].failed \/ batch[b].total = 0

\* fail_batch.
WithFailed(w, T) ==
  [w EXCEPT !.batch = [b \in Tokens |-> IF b \in T /\ Pending(b, w.batch)
                                        THEN [w.batch[b] EXCEPT !.failed = TRUE]
                                        ELSE w.batch[b]]]

\* Tokens that nobody can ask about any more are used again.
InUse(w) == {x.token : x \in Members(w.queue)} \cup {w.wire.frame.token}
              \cup UNION {{w.job[s].launch, w.job[s].estop} : s \in Slots}
Fresh(w) == CHOOSE b \in Tokens : b \notin InUse(w)

Taken(w) == Len(w.queue) + (IF w.wire.wanted THEN 1 ELSE 0)

Low(q, rank) == {x \in Members(q) : x.rank < rank}
Of(q, b)     == {x \in Members(q) : x.token = b}

\* tx_push_priority, for frames of one rank: behind every frame of that rank
\* or above.
Pushed(q, frames, rank) == Without(q, Low(q, rank)) \o frames \o Kept(q, Low(q, rank))

\* cancel_lower_priority_tx: the frame being sent is left alone.
WithoutLower(w, rank) ==
  LET low == Low(w.queue, rank)
  IN  WithFailed([w EXCEPT !.queue = Without(w.queue, low)], {x.token : x \in low})

N == Cardinality(Slots)

\* Slots in ascending order.
InOrder(S) == Kept([i \in Slots |-> i], S)

\* A batch of one frame to each train of S, or 0: no room, or no token (which
\* the runs have enough of).
WithBatch(w, S, speed, rank) ==
  LET size == Cardinality(S) IN
  IF size > Room - Taken(w) \/ Tokens \subseteq InUse(w) THEN [w EXCEPT !.got = 0]
  ELSE LET b == Fresh(w)
           frames == [i \in DOMAIN InOrder(S) |->
                        [train |-> InOrder(S)[i], speed |-> speed, token |-> b, rank |-> rank]]
       IN  [w EXCEPT !.got = b,
              !.batch[b] = [total |-> size, left |-> size, failed |-> FALSE],
              !.queue = Pushed(@, frames, rank)]

\* CanTrainEmergencyStopBatch.
WithStops(w, S) == WithBatch(WithoutLower(w, 2), S, "stop", 2)

\* CanCancelBatch: a frame that is being sent may still reach the box.
WithCancelled(w, b) ==
  IF b = 0 \/ ~Pending(b, w.batch) THEN w
  ELSE WithFailed([w EXCEPT !.queue = Without(@, Of(@, b)),
                            !.wire = IF @.frame.token = b THEN [@ EXCEPT !.wanted = FALSE]
                                     ELSE @], {b})

-----------------------------------------------------------------------------
(* The line and the box.  Frames arrive in the order they are sent in.     *)

CanOnly == UNCHANGED <<job, pc>>

\* Nobody can tell when the box acts between the sending and the answer.
\* Turning a locomotive round does not start or stop it.
Send ==
  /\ wire = NoWire /\ queue # <<>>
  /\ LET f == Head(queue) IN
     \/ /\ wire' = [frame |-> f, obeyed |-> TRUE, wanted |-> TRUE]
        /\ moving' = IF f.speed = "turn" THEN moving
                     ELSE [moving EXCEPT ![f.train] = f.speed = "go"]
        /\ UNCHANGED lost
     \/ /\ lost < MaxLost /\ lost' = lost + 1
        /\ wire' = [frame |-> f, obeyed |-> FALSE, wanted |-> TRUE]
        /\ UNCHANGED moving
  /\ queue' = Tail(queue)
  /\ CanOnly /\ UNCHANGED <<call, batch>>

CallIs(s) == [call EXCEPT !.is = s]

\* The answer confirms one frame of its batch, or the control command.
Answer ==
  /\ wire.obeyed
  /\ wire' = NoWire
  /\ LET b == wire.frame.token IN
     /\ batch' = IF wire.wanted /\ b # 0 /\ Pending(b, batch)
                 THEN [batch EXCEPT ![b].left = @ - 1] ELSE batch
     /\ call' = IF wire.wanted /\ b = 0 THEN CallIs("done") ELSE call
  /\ CanOnly /\ UNCHANGED <<queue, lost, moving>>

\* A control command is tried again, a few times.
CallMissed(c) ==
  IF c.tries = 1 THEN [c EXCEPT !.is = "failed"] ELSE [c EXCEPT !.tries = @ - 1, !.is = "again"]

\* The box missed the frame, or its answer is lost.  The rest of its batch
\* is dropped.
Timeout ==
  /\ wire # NoWire
  /\ IF wire.obeyed THEN lost < MaxLost /\ lost' = lost + 1 ELSE UNCHANGED lost
  /\ wire' = NoWire
  /\ LET b == wire.frame.token IN
     /\ batch' = WithFailed(World, {b}).batch
     /\ queue' = IF b = 0 THEN queue ELSE Without(queue, Of(queue, b))
     /\ call'  = IF wire.wanted /\ b = 0 THEN CallMissed(call) ELSE call
  /\ CanOnly /\ UNCHANGED moving

\* CanTrainSetSpeedPriority and CanTrainReversePriority: in a full queue
\* lower ranks make room.
WithRoom(w) == IF Taken(w) < Room THEN w ELSE WithoutLower(w, 1)

WithCommand(w, c) ==
  LET w1 == WithRoom(w)
      f  == [train |-> c.train, speed |-> c.speed, token |-> 0, rank |-> 1]
  IN  IF Taken(w1) < Room THEN [w1 EXCEPT !.queue = Pushed(@, <<f>>, 1)] ELSE w1

AfterCommand(w, c) ==
  IF Taken(WithRoom(w)) < Room THEN [c EXCEPT !.is = "sent"] ELSE CallMissed(c)

SendAgain ==
  /\ call.is = "again"
  /\ LET w == WithCommand(World, call)
     IN  batch' = w.batch /\ queue' = w.queue
  /\ call' = AfterCommand(World, call)
  /\ CanOnly /\ UNCHANGED <<wire, lost, moving>>

-----------------------------------------------------------------------------
(* What several passes do to a job.                                        *)

Is(s, states) == job[s].state \in states

With(w, s, j) == [w EXCEPT !.job[s] = j]

\* Mutant: the stop that is sent is not followed up.
FailedAndForgotten(w, s) ==
  LET w1 == With(w, s, [w.job[s] EXCEPT !.state = "failed", !.launch = 0])
      w2 == WithStops(w1, {s})
  IN  With(w2, s, [w2.job[s] EXCEPT !.estop = w2.got, !.retry = w2.got # 0])

\* fail_job.
WithFailedJob(w, s) ==
  LET w1 == IF w.job[s].state = "launching" THEN WithCancelled(w, w.job[s].launch) ELSE w
      w2 == With(w1, s, [w1.job[s] EXCEPT !.state = "failed", !.launch = 0,
                                          !.removing = FALSE, !.rewound = FALSE])
      w3 == WithStops(w2, {s})
  IN  With(w3, s, [w3.job[s] EXCEPT !.estop = w3.got, !.retry = TRUE])

\* The jobs of S one after the other.
WithFailedJobs(w, S) ==
  LET after[s \in 0 .. N] ==
        IF s = 0 THEN w
        ELSE IF s \in S THEN WithFailedJob(after[s - 1], s) ELSE after[s - 1]
  IN  after[N]

WaveOf(w, b) ==
  {s \in Slots : w.job[s].launch = b /\ w.job[s].state \in {"launching", "running"}}

\* Mutant: trains of the wave that run already are left running.
FailWaiting(w, b) ==
  IF b = 0 THEN w
  ELSE LET w1 == WithCancelled(w, b)
       IN  WithFailedJobs(w1, {s \in WaveOf(w1, b) : w1.job[s].state = "launching"})

OffWave(w, S) ==
  [w EXCEPT !.job = [s \in Slots |->
     IF s \in S THEN [w.job[s] EXCEPT !.launch = 0] ELSE w.job[s]]]

\* fail_launch_wave.
WithFailedWave(w, b) ==
  IF b = 0 THEN w
  ELSE LET w1 == WithCancelled(w, b)
           S  == WaveOf(w1, b)
       IN  WithFailedJobs(OffWave(w1, S), S)

\* begin_stop_with_queued_zero, its zero queued under token b or confirmed.
Braking(w, S, purpose, b) ==
  [w EXCEPT !.job = [s \in Slots |->
     IF s \in S THEN [w.job[s] EXCEPT !.state = "braking", !.purpose = purpose, !.estop = b]
     ELSE w.job[s]]]

\* queue_atomic_traffic_stop and begin_traffic_stop_with_queued_zero: one
\* batch for all, and if it cannot be queued all fail.
WithTrafficStop(w, S) ==
  LET w1 == WithStops(w, S)
  IN  IF w1.got = 0 THEN WithFailedJobs(w1, S)
      ELSE Braking(w1, S, "traffic", w1.got)

-----------------------------------------------------------------------------
(* A tick: its passes in order, each over the slots in order.  A slot that *)
(* a pass has nothing to do for is skipped.                                *)

TickPasses == <<"retries", "running", "traffic", "retargets", "launching", "launched",
                "braking", "holds", "waiting", "preparing", "traffic", "launch">>

\* What a tick that finds the dispatcher at fault, and a cancel or a remove
\* that has come to its end, do besides.
PassesOf(at) ==
  CASE at = "tick"      -> TickPasses
    [] at = "tripped"   -> <<"retries">>
    [] at = "cancelled" -> <<"traffic", "survivors", "holds">>
    [] at = "removed"   -> <<"traffic", "survivors", "braking", "holds", "traffic">>
    [] OTHER            -> <<>>

PassAt(at, n) == PassesOf(at)[((n - 1) \div N) + 1]
Here(n) == ((n - 1) % N) + 1

Retargetable == {"running", "traffic hold", "arrived", "stopped"}

Concerns(pass, j) ==
  CASE pass = "retries"   -> j.state = "failed" /\ j.retry
    [] pass = "running"   -> j.state \in {"running", "braking"}
    [] pass = "traffic"   -> j.state \in {"running", "traffic hold"}
    [] pass = "survivors" -> j.state \in {"launching", "ready", "preparing"}
    [] pass = "retargets" -> j.state \in Retargetable
    [] pass = "launching" -> j.state = "launching"
    [] pass = "launched"  -> j.state = "running" /\ j.launch # 0
    [] pass = "braking"   -> j.state \in {"braking", "cancel braking", "reversing"}
    [] pass = "holds"     -> j.state = "traffic hold"
    [] pass = "waiting"   -> j.state = "waiting"
    [] pass = "preparing" -> j.state = "preparing"
    [] pass = "launch"    -> j.state = "ready"

\* These take all slots at once.
AtOnce == {"retries", "launch"}

Due(w, at, n) ==
  LET pass == PassAt(at, n) IN
  IF pass \in AtOnce THEN Here(n) = 1 /\ \E s \in Slots : Concerns(pass, w.job[s])
  ELSE Concerns(pass, w.job[Here(n)])

\* Whether anything is done does not depend on the CAN server but on a sensor,
\* a deadline, a plan: the pass may have nothing to do for the slot.
Optional(w, at, n) ==
  LET pass == PassAt(at, n)
      j    == w.job[Here(n)]
  IN  \/ pass \in {"running", "traffic", "retargets", "holds", "waiting", "preparing", "launch"}
      \/ pass = "braking" /\ j.estop = 0
      \/ pass = "survivors" /\ ~(j.state = "launching" /\ j.launch # 0)

Positions(at) == 1 .. (Len(PassesOf(at)) * N)

\* Waves are completed in a pass that began with a job that was launching:
\* what was dealt with last is that job, or a wave.
LaunchSeen ==
  pc.pos # 0 /\ PassAt(pc.at, pc.pos) \in {"launching", "launched"}

\* The next positions that may be dealt with: those before the first that
\* must be, and that one.
Ahead ==
  LET due  == {n \in Positions(pc.at) :
                 n > pc.pos /\ Due(World, pc.at, n)
                   /\ (PassAt(pc.at, n) = "launched" => LaunchSeen)}
      must == {n \in due : ~Optional(World, pc.at, n)}
  IN  {n \in due : \A m \in must : n <= m}

Stop(at, n, back) == [at |-> at, pos |-> n, back |-> back, seen |-> "none"]

\* A command and what follows it: on with the tick it came in the middle of.
Back == IF pc.back # 0 THEN Stop("tick", pc.back, 0) ELSE Receive

InPass == call = NoCall /\ pc.at \in {"tick", "tripped", "cancelled", "removed"} /\ pc.seen = "none"

EndPass ==
  /\ InPass
  /\ \A n \in Ahead : Optional(World, pc.at, n)
  /\ pc' = Back
  /\ UNCHANGED <<job, call, queue, wire, batch, lost, moving>>

\* Fields that a job's state gives no meaning are not told apart.
Tidy(j) ==
  [j EXCEPT !.purpose = IF j.state = "braking" THEN @ ELSE "none",
            !.turned  = @ /\ j.state = "reversing",
            !.estop   = IF j.state \in {"braking", "failed"} THEN @ ELSE 0]

Becomes(w0) ==
  LET w == [w0 EXCEPT !.job = [s \in Slots |-> Tidy(w0.job[s])]] IN
  /\ job' = w.job /\ queue' = w.queue /\ wire' = w.wire
  /\ batch' = [b \in Tokens |-> IF b \in InUse(w) THEN w.batch[b] ELSE NoBatch]

\* The dispatcher has dealt with the slot at n.
Step(n, w) ==
  /\ Becomes(w)
  /\ pc' = [pc EXCEPT !.pos = n, !.seen = "none"]
  /\ UNCHANGED <<call, lost, moving>>

\* It waits for a control command.
Ask(n, w, s, speed, tries, why) ==
  LET c == [train |-> s, speed |-> speed, tries |-> tries, why |-> why, is |-> "again"]
  IN  /\ Becomes(WithCommand(w, c))
      /\ call' = AfterCommand(w, c)
      /\ pc' = [pc EXCEPT !.pos = n, !.seen = "none"]
      /\ UNCHANGED <<lost, moving>>

\* What it does when it has the outcome.
Got(why, is, w) ==
  /\ call.why = why /\ call.is = is
  /\ call' = NoCall
  /\ Becomes(w)
  /\ UNCHANGED <<pc, lost, moving>>

\* The end of a command.
Over(w) == Becomes(w) /\ pc' = Back /\ UNCHANGED <<call, lost, moving>>

Unstopped(s) == With(World, s, [job[s] EXCEPT !.estop = 0])
To(s, state) == With(World, s, [job[s] EXCEPT !.state = state])

On(pass, n) == PassAt(pc.at, n) = pass

\* Any pass may find the plan, a sensor, the sensor or CAN service at fault.
Fault(n, states) == Is(Here(n), states) /\ Step(n, WithFailedJob(World, Here(n)))

\* The CAN server has not got there yet.
NotYet(n) == Step(n, World)

-----------------------------------------------------------------------------
(* process_stop_retries.                                                   *)

\* The stop is known to be carried out.
StopDone(s) == Complete(job[s].estop)

\* Mutant: a stop for which there was no room is not tried again.
OnlySentStops(s) == job[s].estop # 0 /\ Failed(job[s].estop)

\* It was never queued, or its batch has come to nothing.
StopMissed(s) == Failed(job[s].estop)

RetryStops(n) ==
  /\ On("retries", n)
  /\ LET asked == {s \in Slots : Concerns("retries", job[s])}
         done  == {s \in asked : StopDone(s)}
         again == {s \in asked \ done : StopMissed(s)}
         w1 == [World EXCEPT !.job = [s \in Slots |->
                  CASE s \in done  -> [job[s] EXCEPT !.estop = 0, !.retry = FALSE]
                    [] s \in again -> [job[s] EXCEPT !.estop = 0]
                    [] OTHER       -> job[s]]]
         w2 == WithStops(w1, again)
     IN  IF again = {} THEN Step(n, w1)
         ELSE Step(n, [w2 EXCEPT !.job = [s \in Slots |->
                      IF s \in again THEN [w2.job[s] EXCEPT !.estop = w2.got]
                      ELSE w2.job[s]]])

-----------------------------------------------------------------------------
(* process_running_jobs.                                                   *)

\* The services, the plan and the journal are sound, or the job fails.  An
\* event nobody can be blamed for fails every train that is on its way.
RunFails(n) ==
  /\ On("running", n)
  /\ \/ Fault(n, {"running", "braking"})
     \/ Step(n, WithFailedJobs(World, {s \in Slots : Is(s, {"running", "braking"})}))

\* A sensor, a deadline or an estimate says that it is time to stop for the
\* destination or the end of the leg.
RunStops(n) ==
  /\ On("running", n) /\ Is(Here(n), {"running"})
  /\ \E why \in {"destination", "reversal"} : Ask(n, World, Here(n), "stop", Attempts, why)

\* The authority ends ahead.
RunHolds(n) ==
  /\ On("running", n) /\ Is(Here(n), {"running"})
  /\ Step(n, WithTrafficStop(World, {Here(n)}))

\* begin_stop_with_queued_zero once the zero has been confirmed, or could
\* not be, so that an emergency stop follows.
StopConfirmed(why) == Got(why, "done", Braking(World, {call.train}, why, 0))

StopRefused(why) ==
  LET w == WithStops(World, {call.train})
  IN  Got(why, "failed", IF w.got = 0 THEN WithFailedJob(w, call.train)
                         ELSE Braking(w, {call.train}, why, w.got))

StopAnswered == \E why \in {"destination", "reversal"} : StopConfirmed(why) \/ StopRefused(why)

-----------------------------------------------------------------------------
(* process_traffic_safety.                                                 *)

\* All that must stop for each other stop together.
TrafficStops(n) ==
  /\ On("traffic", n)
  /\ \E S \in SUBSET {s \in Slots : Is(s, {"running"}) /\ s >= Here(n)} :
       Here(n) \in S /\ Step(n, WithTrafficStop(World, S))

\* resume_traffic_hold, called by this pass or process_authority_holds.
Resume(n) ==
  /\ On("traffic", n) \/ On("holds", n)
  /\ Is(Here(n), {"traffic hold"})
  /\ \/ Ask(n, World, Here(n), "go", Attempts, "resume")
     \/ Fault(n, {"traffic hold"})

Resumed ==
  \/ Got("resume", "done", To(call.train, "running"))
  \/ Got("resume", "failed", WithFailedJob(World, call.train))

\* defer_traffic_resume_for_conflict_zone, or process_authority_holds with a
\* longer authority: the train starts anew from where it stands.
ResumeLater(n) ==
  /\ On("traffic", n) \/ On("holds", n)
  /\ Is(Here(n), {"traffic hold"})
  /\ Step(n, To(Here(n), "preparing"))

-----------------------------------------------------------------------------
(* process_launching_jobs.                                                 *)

\* The train's own frame has been confirmed.
Confirmed(s) ==
  LET mine(f) == f.token = job[s].launch /\ f.train = s
  IN  /\ job[s].launch # 0 /\ ~batch[job[s].launch].failed
      /\ \A i \in DOMAIN queue : ~mine(queue[i])
      /\ ~(mine(wire.frame) /\ wire.wanted)

\* Authority, services, or the batch itself: the wave fails as a whole.
LaunchFails(n) == On("launching", n) /\ Step(n, WithFailedWave(World, job[Here(n)].launch))

LaunchWaits(n) ==
  On("launching", n) /\ ~Failed(job[Here(n)].launch) /\ ~Confirmed(Here(n)) /\ NotYet(n)

LaunchConfirmed(n) ==
  /\ On("launching", n) /\ Confirmed(Here(n))
  /\ Step(n, To(Here(n), "running"))

\* The last of a wave is under way: the batch is forgotten.
WaveComplete(b) == Complete(b) /\ \A s \in WaveOf(World, b) : job[s].state = "running"

Launched(n) ==
  /\ On("launched", n)
  /\ LET b == job[Here(n)].launch IN
     IF WaveComplete(b)
     THEN Step(n, [World EXCEPT !.job = [s \in Slots |->
                  IF s \in WaveOf(World, b) THEN [job[s] EXCEPT !.launch = 0] ELSE job[s]]])
     ELSE NotYet(n)

-----------------------------------------------------------------------------
(* process_braking_and_reversing.                                          *)

Stopping(s) == job[s].state = "braking" /\ job[s].estop = 0

\* Mutant: a failed stop is taken for a stop.
AnyOutcome(b) == ~Pending(b, batch)

StopKnown(b) == Complete(b)

\* A stop that was queued is awaited, and repeated when its batch fails.
AwaitStop(n) ==
  /\ On("braking", n) /\ Is(Here(n), {"braking"}) /\ job[Here(n)].estop # 0
  /\ IF StopKnown(job[Here(n)].estop) THEN Step(n, Unstopped(Here(n)))
     ELSE IF Pending(job[Here(n)].estop, batch) THEN NotYet(n)
     ELSE LET w == WithStops(World, {Here(n)})
          IN  Step(n, IF w.got = 0 THEN w ELSE With(w, Here(n), [w.job[Here(n)] EXCEPT !.estop = w.got]))

BrakingFails(n) == On("braking", n) /\ (Stopping(Here(n)) \/ Is(Here(n), {"reversing"}))
                  /\ Fault(n, {"braking", "reversing"})

\* It has come to rest at the end of its leg.
Arrives(n) ==
  /\ On("braking", n) /\ Stopping(Here(n)) /\ job[Here(n)].purpose = "destination"
  /\ Step(n, To(Here(n), "arrived"))

\* Nothing says where it is.
Uncertain(n) ==
  /\ On("braking", n) /\ Stopping(Here(n)) /\ job[Here(n)].purpose = "destination"
  /\ Step(n, To(Here(n), "stop unconfirmed"))

\* begin_bounded_destination_correction and
\* begin_bounded_virtual_endpoint_approach: the rest of the way at low speed,
\* at once, when turnouts are set, or when the way is free.
Corrects(n) ==
  /\ \/ On("braking", n) /\ Stopping(Here(n)) /\ job[Here(n)].purpose = "destination"
     \/ On("preparing", n) /\ ~job[Here(n)].rewound
  /\ \/ Ask(n, World, Here(n), "go", Attempts, "correct")
     \/ Step(n, To(Here(n), "preparing"))
     \/ Step(n, To(Here(n), "traffic hold"))

Corrected ==
  \/ Got("correct", "done", To(call.train, "running"))
  \/ Got("correct", "failed", WithFailedJob(World, call.train))

\* restage_after_localization: the train knows where it is and waits anew.
Restages(n) ==
  /\ On("braking", n) /\ Stopping(Here(n)) /\ job[Here(n)].purpose = "destination"
  /\ Step(n, With(World, Here(n), [NoJob EXCEPT !.state = "waiting"]))

HeldForTraffic(n) ==
  /\ On("braking", n) /\ Stopping(Here(n)) /\ job[Here(n)].purpose = "traffic"
  /\ Step(n, To(Here(n), "traffic hold"))

AtLegEnd(n) ==
  /\ On("braking", n) /\ Stopping(Here(n)) /\ job[Here(n)].purpose = "reversal"
  /\ Step(n, To(Here(n), "reversing"))

CancelSettled(n) ==
  On("braking", n) /\ Is(Here(n), {"cancel braking"}) /\ Step(n, To(Here(n), "stopped"))

Turn(n) ==
  /\ On("braking", n) /\ Is(Here(n), {"reversing"}) /\ ~job[Here(n)].turned
  /\ Ask(n, World, Here(n), "turn", 1, "turn")

Turned ==
  \/ Got("turn", "done", With(World, call.train, [job[call.train] EXCEPT !.turned = TRUE]))
  \/ Got("turn", "failed", WithFailedJob(World, call.train))

Relaunch(n) ==
  /\ On("braking", n) /\ Is(Here(n), {"reversing"}) /\ job[Here(n)].turned
  /\ Ask(n, World, Here(n), "go", Attempts, "relaunch")

Relaunched ==
  \/ Got("relaunch", "done", To(call.train, "running"))
  \/ Got("relaunch", "failed", WithFailedJob(World, call.train))

-----------------------------------------------------------------------------
(* process_waiting_jobs, process_preparing_jobs, launch_ready_jobs.        *)

WaitingFails(n) == On("waiting", n) /\ Fault(n, {"waiting"})

\* prepare_waiting_job finds and reserves a plan.
Prepared(n) == On("waiting", n) /\ Step(n, To(Here(n), "preparing"))

PreparingFails(n) == On("preparing", n) /\ Fault(n, {"preparing"})
Ready(n) == On("preparing", n) /\ Step(n, To(Here(n), "ready"))

\* The destination is where the train stands.  (A job that was being launched
\* has neither this ahead of it nor a correction.)
ArrivesAtOnce(n) == On("preparing", n) /\ ~job[Here(n)].rewound /\ Step(n, To(Here(n), "arrived"))

TurnFirst(n) == On("preparing", n) /\ Ask(n, World, Here(n), "turn", 1, "turn first")

TurnedFirst ==
  \/ Got("turn first", "done", World)
  \/ Got("turn first", "failed", WithFailedJob(World, call.train))

Apply(w, S, state) ==
  [w EXCEPT !.job = [s \in Slots |-> IF s \in S THEN [w.job[s] EXCEPT !.state = state]
                                     ELSE w.job[s]]]

\* Those that are ready start in one batch.  Before that some fail, and some
\* are sent back for a turnout ahead.
Launch(n) ==
  /\ On("launch", n)
  /\ \E unfit, back \in SUBSET {s \in Slots : Is(s, {"ready"})} :
       /\ unfit \cap back = {}
       /\ LET w1 == WithFailedJobs(Apply(World, back, "preparing"), unfit) IN
          \E go \in SUBSET {s \in Slots : w1.job[s].state = "ready"} :
            LET w2 == WithBatch(w1, go, "go", 0) IN
            \/ go = {} /\ Step(n, w1)
            \/ go # {} /\ Step(n, WithFailedJobs(w1, go))
            \/ go # {} /\ w2.got = 0 /\ Step(n, w1)
            \/ go # {} /\ w2.got # 0
                 /\ Step(n, [w2 EXCEPT !.job = [s \in Slots |-> IF s \in go
                       THEN [w2.job[s] EXCEPT !.state = "launching", !.launch = w2.got,
                                              !.rewound = FALSE]
                       ELSE w2.job[s]]])

-----------------------------------------------------------------------------
(* Taking a launch back: rewind_unconfirmed_launch_wave_for_remove and     *)
(* restart_prearmed_stationary_survivors read the batch's status first and *)
(* cancel it afterwards.                                                   *)

Reading(b) ==
  IF Failed(b) THEN "failed"
  ELSE IF batch[b].left = 0 THEN "complete"
  ELSE IF batch[b].left = batch[b].total THEN "unconfirmed" ELSE "partly"

\* The train whose launch it is about.
Target == IF pc.at \in {"cancel", "remove"} THEN pc.pos ELSE Here(pc.pos)

Read(n) ==
  /\ LET s == IF pc.at \in {"cancel", "remove"} THEN n ELSE Here(n)
     IN  pc' = [pc EXCEPT !.pos = n, !.seen = Reading(job[s].launch)]
  /\ UNCHANGED <<job, call, queue, wire, batch, lost, moving>>

StillPending == Pending(job[Target].launch, batch)

\* stop_partially_confirmed_launch_wave.
WithWaveStopped(w, b) ==
  LET S  == WaveOf(w, b)
      w1 == WithStops(w, S)
  IN  IF w1.got = 0 THEN [WithFailedWave(w1, b) EXCEPT !.got = 0]
      ELSE OffWave(Braking(w1, S, "traffic", w1.got), S)

\* The motor may have been told already.  (A record of the model's: no code
\* looks at it.)
MayMove(s) == moving[s] \/ (wire.frame.train = s /\ wire.frame.speed = "go")

\* Nothing had been confirmed: all members but the train that is taken away
\* prepare anew.
Rewound(w, b, except) ==
  [w EXCEPT !.job = [s \in Slots |->
     IF w.job[s].launch # b THEN w.job[s]
     ELSE [w.job[s] EXCEPT !.launch = 0,
             !.state = IF s # except /\ @ = "launching" THEN "preparing" ELSE @,
             !.rewound = s # except /\ MayMove(s)]]]

\* restart_prearmed_stationary_survivors.
SurvivorReads(n) == On("survivors", n) /\ Is(Here(n), {"launching"}) /\ job[Here(n)].launch # 0 /\ Read(n)

SurvivorAgain(n) ==
  /\ On("survivors", n)
  /\ \/ Is(Here(n), {"ready"}) /\ Step(n, To(Here(n), "preparing"))
     \/ Fault(n, {"ready", "preparing"})

Survivor ==
  /\ pc.at \in {"cancelled", "removed"} /\ pc.seen # "none" /\ call = NoCall
  /\ LET b == job[Target].launch
         w == WithCancelled(World, b)
     IN  \/ pc.seen = "failed" /\ Step(pc.pos, WithFailedWave(World, b))
         \/ pc.seen \in {"unconfirmed", "partly"} /\ ~StillPending
              /\ Step(pc.pos, WithFailedWave(World, b))
         \/ pc.seen = "complete" /\ Step(pc.pos, WithWaveStopped(World, b))
         \/ pc.seen = "partly" /\ StillPending /\ Step(pc.pos, WithWaveStopped(w, b))
         \/ pc.seen = "unconfirmed" /\ StillPending /\ Step(pc.pos, Rewound(w, b, 0))

-----------------------------------------------------------------------------
(* cancel_job, remove_job, and process_pending_retargets, which may cancel *)
(* in the middle of a tick.                                                *)

Enter(at, s, back) ==
  /\ pc' = Stop(at, s, back)
  /\ UNCHANGED <<job, call, queue, wire, batch, lost, moving>>

CancelJob ==
  /\ pc = Receive /\ "cancel" \in Orders
  /\ \E s \in Slots : ~Is(s, {"empty"}) /\ Enter("cancel", s, 0)

RemoveJob ==
  /\ pc = Receive /\ "remove" \in Orders
  /\ \E s \in Slots : ~Is(s, {"empty"}) /\ Enter("remove", s, 0)

\* An operator's new destination for a train that is under way.
Reroute(n) ==
  /\ "reroute" \in Orders
  /\ On("retargets", n) /\ Is(Here(n), {"running", "traffic hold"})
  /\ Enter("cancel", Here(n), n)

\* A new plan for one that stands: it is put in force, or nothing changes,
\* or the old plan is gone and the job fails.
Retarget(n) ==
  /\ "reroute" \in Orders
  /\ On("retargets", n)
  /\ Is(Here(n), {"traffic hold", "arrived", "stopped"})
  /\ \/ Step(n, To(Here(n), "preparing"))
     \/ Step(n, WithFailedJob(World, Here(n)))
     \/ Ask(n, World, Here(n), "turn", 1, "retarget")

Retargeted == \E is \in {"done", "failed"} : Got("retarget", is, World)

AtCommand(at) == pc.at = at /\ call = NoCall

Resting == {"cancel braking", "stopped"}

\* The train stands, or is about to.  Its place is given free for others.
CancelAgain ==
  /\ AtCommand("cancel") /\ pc.seen = "none"
  /\ Is(Target, Resting \cup {"stop unconfirmed"})
  /\ pc' = Stop("cancelled", 0, pc.back)
  /\ UNCHANGED <<job, call, queue, wire, batch, lost, moving>>

Zeroes(at) ==
  \/ at = "cancel" /\ ~Is(Target, Resting)
  \/ at = "remove" /\ ~job[Target].removing

\* A train that is being launched, alone or in a wave, is looked at first.
TakeBackReads ==
  /\ \E at \in {"cancel", "remove"} : AtCommand(at) /\ Zeroes(at)
  /\ pc.seen = "none" /\ Is(Target, {"launching", "running"}) /\ job[Target].launch # 0
  /\ Read(pc.pos)

\* The wave is stopped or rewound; then the train itself is told to stop.
Zero(w, why) == Ask(pc.pos, w, Target, "stop", Attempts, why)

TakeBack ==
  /\ pc.at \in {"cancel", "remove"} /\ pc.seen # "none" /\ call = NoCall
  /\ LET b == job[Target].launch
         w == WithCancelled(World, b)
         stopped == WithWaveStopped(w, b)
     IN  \/ pc.seen = "failed" /\ Zero(WithFailedWave(World, b), pc.at)
         \/ pc.seen = "complete" /\ Zero(World, pc.at)
         \/ pc.seen \in {"unconfirmed", "partly"} /\ ~StillPending
              /\ Over(WithFailedWave(World, b))
         \/ pc.seen = "partly" /\ StillPending
              /\ IF stopped.got = 0 THEN Over(stopped) ELSE Zero(stopped, "after wave")
         \/ pc.seen = "unconfirmed" /\ StillPending
              /\ Zero(Rewound(w, b, Target), pc.at)

StopFirst ==
  /\ \E at \in {"cancel", "remove"} : AtCommand(at) /\ Zeroes(at)
  /\ pc.seen = "none" /\ ~(Is(Target, {"launching", "running"}) /\ job[Target].launch # 0)
  /\ Zero(World, pc.at)

\* The zero could not be confirmed: the train that a stopped wave has left
\* fails, any other keeps its job.
TakeBackRefused ==
  /\ call.is = "failed" /\ call.why \in {"cancel", "remove", "after wave"}
  /\ call' = NoCall
  /\ Becomes(IF call.why = "after wave" THEN WithFailedJob(World, Target) ELSE World)
  /\ pc' = Back
  /\ UNCHANGED <<lost, moving>>

TakenBack(w, next) ==
  /\ call.is = "done" /\ call.why \in {"cancel", "remove", "after wave"}
  /\ call' = NoCall
  /\ Becomes(w)
  /\ pc' = next
  /\ UNCHANGED <<lost, moving>>

Released(s, state) ==
  With(World, s, [job[s] EXCEPT !.state = state, !.estop = 0, !.retry = FALSE,
                                !.launch = 0, !.rewound = FALSE, !.removing = FALSE])

\* It stands with its plan, or without one, or the estimate of where it
\* stands fails and nothing changes.
Cancelled ==
  /\ pc.at = "cancel"
  /\ \/ TakenBack(Released(Target, "cancel braking"), Stop("cancelled", 0, pc.back))
     \/ TakenBack(Released(Target, "stop unconfirmed"), Back)
     \/ TakenBack(Unstopped(Target), Back)

\* The train has been lifted off: a tombstone until all it held is free.
Removed ==
  /\ pc.at = "remove"
  /\ LET w == Released(Target, "stop unconfirmed") IN
     \/ TakenBack(With(w, Target, [w.job[Target] EXCEPT !.removing = TRUE]), Receive)
     \/ TakenBack(With(w, Target, NoJob), Stop("removed", 0, 0))

RemoveAgain ==
  /\ AtCommand("remove") /\ job[Target].removing
  /\ \/ Over(World)
     \/ /\ Becomes(With(World, Target, NoJob))
        /\ pc' = Stop("removed", 0, 0)
        /\ UNCHANGED <<call, lost, moving>>

-----------------------------------------------------------------------------
(* The other requests, and the tick.                                       *)

\* stage_job: a new train, or one that has arrived or been cancelled.
Stage ==
  /\ pc = Receive
  /\ \E s \in Slots :
       /\ Is(s, {"empty", "arrived", "stopped"})
       /\ job' = [job EXCEPT ![s] = [NoJob EXCEPT !.state = "staged"]]
  /\ UNCHANGED <<pc, call, queue, wire, batch, lost, moving>>

\* TC2_DISPATCH_MSG_START_ALL.
StartAll ==
  /\ pc = Receive
  /\ \E s \in Slots : Is(s, {"staged"})
  /\ job' = [s \in Slots |-> IF Is(s, {"staged"}) THEN [job[s] EXCEPT !.state = "waiting"]
                             ELSE job[s]]
  /\ UNCHANGED <<pc, call, queue, wire, batch, lost, moving>>

\* TC2_DISPATCH_MSG_TICK.
Tick ==
  /\ pc = Receive
  /\ \E n \in Positions("tick") : Due(World, "tick", n)
  /\ pc' = Stop("tick", 0, 0)
  /\ UNCHANGED <<job, call, queue, wire, batch, lost, moving>>

\* A tick after the supervisor has intervened, or of a dispatcher that has
\* lost a service.
Trip ==
  /\ pc = Receive /\ "trip" \in Orders
  /\ LET w == WithFailedJobs(World, {s \in Slots : Is(s,
                {"preparing", "ready", "launching", "running", "braking", "reversing",
                 "cancel braking"})})
     IN  Becomes(w) /\ pc' = Stop("tripped", 0, 0)
  /\ UNCHANGED <<call, lost, moving>>

Running(n)   == RunFails(n) \/ RunStops(n) \/ RunHolds(n)
Traffic(n)   == TrafficStops(n) \/ Resume(n) \/ ResumeLater(n)
Launching(n) == LaunchFails(n) \/ LaunchWaits(n) \/ LaunchConfirmed(n) \/ Launched(n)
Brakes(n)    == AwaitStop(n) \/ BrakingFails(n) \/ Arrives(n) \/ Uncertain(n) \/ Corrects(n)
                  \/ Restages(n) \/ HeldForTraffic(n) \/ AtLegEnd(n) \/ CancelSettled(n)
                  \/ Turn(n) \/ Relaunch(n)
Waits(n)     == WaitingFails(n) \/ Prepared(n) \/ PreparingFails(n) \/ Ready(n)
                  \/ ArrivesAtOnce(n) \/ TurnFirst(n) \/ Launch(n)
TakesBack(n) == SurvivorReads(n) \/ SurvivorAgain(n) \/ Reroute(n) \/ Retarget(n)

Pass(n)  == RetryStops(n) \/ Running(n) \/ Traffic(n) \/ Launching(n) \/ Brakes(n)
              \/ Waits(n) \/ TakesBack(n)
Answered == StopAnswered \/ Resumed \/ Corrected \/ Turned \/ Relaunched \/ TurnedFirst
              \/ Retargeted
Command  == Survivor \/ CancelAgain \/ TakeBackReads \/ TakeBack \/ StopFirst
              \/ TakeBackRefused \/ Cancelled \/ Removed \/ RemoveAgain

Work     == (InPass /\ \E n \in Ahead : Pass(n)) \/ EndPass \/ Answered \/ Command
Requests == CancelJob \/ RemoveJob \/ Stage \/ StartAll \/ Trip
Line     == Send \/ Answer \/ Timeout \/ SendAgain

Next == Work \/ Requests \/ Tick \/ Line

Spec == Init /\ [][Next]_vars

\* The dispatcher has something to do, and does not wait for the CAN server.
Working == pc # Receive /\ call.is \in {"idle", "done", "failed"}

\* The kernel's scheduling keeps the tasks going, ticks come, and what is
\* sent is answered, but for the frames that are lost.  (What a step of the
\* dispatcher or of the line leads away from is named, in place of
\* WF_vars(Work) and WF_vars(Line), which are costly to evaluate.)
Fairness ==
  /\ SF_vars(Tick)
  /\ []<>~Working
  /\ []<>(wire = NoWire) /\ []<>(queue = <<>> \/ wire # NoWire) /\ []<>(call.is # "again")

LiveSpec == Spec /\ Fairness

-----------------------------------------------------------------------------

\* has_active_motion_job: what the supervisor looks for.
Watched(s) ==
  \/ Is(s, {"launching", "running", "braking", "reversing", "cancel braking"})
  \/ Is(s, {"failed"}) /\ job[s].retry

MayStart(s) ==
  \/ moving[s]
  \/ wire.frame.train = s /\ wire.frame.speed = "go" /\ ~wire.obeyed
  \/ \E i \in DOMAIN queue : queue[i].train = s /\ queue[i].speed = "go"

\* A train that moves, or that may yet be set in motion by a command that is
\* on its way, has a job that the supervisor watches, or is being started
\* or stopped by the call that the dispatcher waits in.  (A rewound launch is
\* the exception: RewoundTrainsStandStill.)
MovingMeansWatched ==
  \A s \in Slots : MayStart(s) => Watched(s) \/ job[s].rewound \/ call.train = s

\* A job that is held for traffic, has arrived or has settled after a cancel
\* stands on a stop that the box has carried out.
RestingTrainsStand ==
  \A s \in Slots :
    Is(s, {"traffic hold", "arrived", "stopped", "stop unconfirmed"}) /\ call = NoCall =>
      ~MayStart(s)

\* Comment at src/tc2_dispatch.c:23291: trains go back to preparing only as
\* long as no command to start can have reached them.
RewoundTrainsStandStill ==
  \A s \in Slots : job[s].rewound => ~moving[s]

\* Comment at src/tc2_dispatch.c:23398: a remove that fails leaves a
\* tombstone at speed zero; no job is left launching without a launch.
LaunchHasABatch ==
  \A s \in Slots : Is(s, {"launching"}) /\ pc = Receive => job[s].launch # 0

\* The stop of a failed job is repeated until the box has carried it out, if
\* the operator does not keep on stopping the train himself.
StopsAreRepeated ==
  \A s \in Slots :
    Is(s, {"failed"}) /\ job[s].retry
      ~> ~(Is(s, {"failed"}) /\ job[s].retry) \/ call.why \in {"cancel", "remove"}

\* When a launch fails for one train of the wave, it ends for those of them
\* that run already.
RunsInFailedWave(s) ==
  /\ Is(s, {"running"}) /\ job[s].launch # 0 /\ Failed(job[s].launch)
  /\ \E t \in Slots : Is(t, {"launching"}) /\ job[t].launch = job[s].launch

WavesFailTogether ==
  \A s \in Slots : RunsInFailedWave(s) ~> ~(Is(s, {"running"}) /\ job[s].launch # 0)
=============================================================================
