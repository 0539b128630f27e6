------------------------------- MODULE Kernel -------------------------------
(***************************************************************************)
(* The kernel of task.c and kernel.c: descriptors, priority ready queues,  *)
(* Send / Receive / Reply, Exit and AwaitEvent.                            *)
(*                                                                         *)
(* The machine has one core and tasks run with interrupts masked, so       *)
(* user code runs only while kpc = "user" and a system call is one trap.   *)
(* The trap handler's loops are kept as loops: every iteration of an abort,*)
(* of an event release and the final scheduling decision is one step, and  *)
(* kpc says which loop the handler is in.  The handler cannot be preempted;*)
(* only the hardware (timer, UART flags) moves meanwhile.                  *)
(*                                                                         *)
(* An intrusive list (ready_next, send_next, event_next) is the sequence   *)
(* of descriptors it links.  Message bytes and lengths are abstracted: a   *)
(* call's result is what the saved x0 tells its caller.                    *)
(***************************************************************************)
EXTENDS Lists

CONSTANTS
  NumTasks,       \* MAX_TASKS: descriptors (and stacks) there are
  NumPriorities,  \* MAX_PRIORITIES: 0 is the most urgent
  FirstPriority,  \* priority main.c gives the first user task
  MaxTid,         \* bound: no task is created once next_tid exceeds it
  TimerPeriod,    \* AwaitEvent(EVENT_TIMER) sleeps this long (10000 us)
  IoEvents        \* how many UART events there are: 1..IoEvents

ASSUME KernelAssumption ==
  /\ NumTasks \in Nat \ {0}
  /\ NumPriorities \in Nat \ {0}
  /\ FirstPriority \in 0 .. NumPriorities - 1
  /\ MaxTid \in Nat \ {0}
  /\ TimerPeriod \in Nat \ {0}
  /\ IoEvents \in Nat

Slots      == 1 .. NumTasks
Priorities == 0 .. NumPriorities - 1
IoKinds    == 1 .. IoEvents
Timer      == 0
NoTask     == 0
NoEvent    == -1

VARIABLES
  state, tid, parent_tid, priority,  \* fields of each task_descriptor_t
  x0,            \* saved x0: what the task's last call returns to it
  send_to,       \* saved x1 of its open Send: the tid it named, else 0
  ipc_receiver,  \* descriptor owning its Send transaction
  event_type,    \* event it waits for
  wakeup,        \* time left before its timer event is due
  send_queue,    \* send_head .. send_tail of each descriptor
  ready,         \* ready_head .. ready_tail of each priority
  timer_wait,    \* timer_wait_head list
  io_wait,       \* io_event_wait_head lists
  io_ready,      \* the UART flag register, as io_event_ready reads it
  active,        \* active_task
  next_tid,
  kpc            \* where the core is

tcb     == <<state, tid, parent_tid, priority>>
ipc     == <<x0, send_to, ipc_receiver, send_queue>>
events  == <<event_type, wakeup, timer_wait, io_wait>>
vars    == <<tcb, ipc, events, ready, io_ready, active, next_tid, kpc>>

TaskState == {"UNUSED", "READY", "ACTIVE", "EXITED", "SEND_BLOCKED",
              "RECEIVE_BLOCKED", "REPLY_BLOCKED", "EVENT_BLOCKED"}

\* Values x0 can hold; OK stands for every result that is not an error.  A
\* trap arrives with the request number in x0, so a blocked task's x0 is
\* still NoResult until somebody completes its call.
OK          == 0
BadTid      == -1
BadState    == -2
PeerExited  == -3
NoResult    == -9
Results     == {OK, BadTid, BadState, PeerExited, NoResult}

Blocked(t) == state[t] \in {"SEND_BLOCKED", "REPLY_BLOCKED"}
Exists(t)  == state[t] \notin {"UNUSED", "EXITED"}
Free(t)    == state[t] \in {"UNUSED", "EXITED"}

\* Mutant: task_get alone, which still finds a descriptor that has EXITED.
NamedEvenExited(n) == {t \in Slots : state[t] # "UNUSED" /\ tid[t] = n}

\* task_get followed by task_exists_for_message: an EXITED descriptor keeps
\* its tid until it is reused, and messaging it fails like an unknown tid.
Named(n) == {t \in Slots : state[t] # "UNUSED" /\ tid[t] = n /\ Exists(t)}

-----------------------------------------------------------------------------
\* Mutant: to the head, as io_event_wait_insert does with its list.
MakeReadyInFront(t) ==
  ready' = [ready EXCEPT ![priority[t]] = <<t>> \o @]

\* task_make_ready: to the tail of the task's own priority queue.
MakeReady(t) == ready' = [ready EXCEPT ![priority[t]] = Append(@, t)]

-----------------------------------------------------------------------------
(* kernel_run: the first task has been created and switched to.            *)
Init ==
  /\ state        = [t \in Slots |-> IF t = 1 THEN "ACTIVE" ELSE "UNUSED"]
  /\ tid          = [t \in Slots |-> IF t = 1 THEN 1 ELSE 0]
  /\ parent_tid   = [t \in Slots |-> IF t = 1 THEN 0 ELSE -1]
  /\ priority     = [t \in Slots |-> IF t = 1 THEN FirstPriority ELSE -1]
  /\ x0           = [t \in Slots |-> OK]
  /\ send_to      = [t \in Slots |-> 0]
  /\ ipc_receiver = [t \in Slots |-> NoTask]
  /\ event_type   = [t \in Slots |-> NoEvent]
  /\ wakeup       = [t \in Slots |-> 0]
  /\ send_queue   = [t \in Slots |-> <<>>]
  /\ ready        = [p \in Priorities |-> <<>>]
  /\ timer_wait   = <<>>
  /\ io_wait      = [e \in IoKinds |-> <<>>]
  /\ io_ready     = [e \in IoKinds |-> FALSE]
  /\ active       = 1
  /\ next_tid     = 2
  /\ kpc          = "user"

-----------------------------------------------------------------------------
(* System calls.  Each ends with the handler about to requeue the caller.  *)

Return(r) == /\ x0' = [x0 EXCEPT ![active] = r]
             /\ kpc' = "requeue"

PriorityValid(p) == p \in Priorities

\* SYSCALL_CREATE: lowest free descriptor, next tid, ready at once.
Create(p) ==
  /\ kpc = "user"
  /\ next_tid <= MaxTid
  /\ PriorityValid(p)
  /\ \E t \in Slots :
       /\ Free(t)
       /\ \A u \in Slots : Free(u) => t <= u
       /\ tid' = [tid EXCEPT ![t] = next_tid]
       /\ parent_tid' = [parent_tid EXCEPT ![t] = tid[active]]
       /\ priority' = [priority EXCEPT ![t] = p]
       /\ state' = [state EXCEPT ![t] = "READY"]
       /\ ready' = [ready EXCEPT ![p] = Append(@, t)]
       /\ x0' = [x0 EXCEPT ![t] = OK, ![active] = OK]
       /\ ipc_receiver' = [ipc_receiver EXCEPT ![t] = NoTask]
       /\ send_queue' = [send_queue EXCEPT ![t] = <<>>]
       /\ event_type' = [event_type EXCEPT ![t] = NoEvent]
       /\ wakeup' = [wakeup EXCEPT ![t] = 0]
  /\ next_tid' = next_tid + 1
  /\ kpc' = "requeue"
  /\ UNCHANGED <<send_to, timer_wait, io_wait, io_ready, active>>

\* SYSCALL_CREATE refused: a bad priority (-1) or no free descriptor (-2).
CreateFails(p) ==
  /\ kpc = "user"
  /\ \/ ~PriorityValid(p) /\ Return(-1)
     \/ PriorityValid(p) /\ (\A t \in Slots : ~Free(t)) /\ Return(-2)
  /\ UNCHANGED <<tcb, send_to, ipc_receiver, send_queue, events, ready,
                 io_ready, active, next_tid>>

\* MyTid, MyParentTid, Yield and an unknown request only return a value,
\* and like every call they let the scheduler choose again.
Yield ==
  /\ kpc = "user"
  /\ Return(OK)
  /\ UNCHANGED <<tcb, send_to, ipc_receiver, send_queue, events, ready,
                 io_ready, active, next_tid>>

\* SYSCALL_EXIT starts task_exit_descriptor.
Exit ==
  /\ kpc = "user"
  /\ kpc' = "exit"
  /\ UNCHANGED <<tcb, ipc, events, ready, io_ready, active, next_tid>>

\* SYSCALL_SEND to a tid nobody alive has.
SendFails(n) ==
  /\ kpc = "user"
  /\ Named(n) = {}
  /\ Return(BadTid)
  /\ UNCHANGED <<tcb, send_to, ipc_receiver, send_queue, events, ready,
                 io_ready, active, next_tid>>

\* SYSCALL_SEND: delivered at once to a waiting receiver, else queued.
Send(n) ==
  /\ kpc = "user"
  /\ \E r \in Named(n) :
       /\ send_to' = [send_to EXCEPT ![active] = n]
       /\ ipc_receiver' = [ipc_receiver EXCEPT ![active] = r]
       /\ \/ /\ state[r] = "RECEIVE_BLOCKED"
             /\ state' = [state EXCEPT ![active] = "REPLY_BLOCKED",
                                       ![r] = "READY"]
             /\ x0' = [x0 EXCEPT ![r] = OK, ![active] = NoResult]
             /\ MakeReady(r)
             /\ UNCHANGED send_queue
          \/ /\ state[r] # "RECEIVE_BLOCKED"
             /\ state' = [state EXCEPT ![active] = "SEND_BLOCKED"]
             /\ x0' = [x0 EXCEPT ![active] = NoResult]
             /\ send_queue' = [send_queue EXCEPT ![r] = Append(@, active)]
             /\ UNCHANGED ready
  /\ kpc' = "requeue"
  /\ UNCHANGED <<tid, parent_tid, priority, events, io_ready, active,
                 next_tid>>

\* SYSCALL_RECEIVE: take the oldest queued sender, else block.
Receive ==
  /\ kpc = "user"
  /\ \/ /\ send_queue[active] # <<>>
        /\ LET s == Head(send_queue[active])
           IN  state' = [state EXCEPT ![s] = "REPLY_BLOCKED"]
        /\ send_queue' = [send_queue EXCEPT ![active] = Tail(@)]
        /\ x0' = [x0 EXCEPT ![active] = OK]
     \/ /\ send_queue[active] = <<>>
        /\ state' = [state EXCEPT ![active] = "RECEIVE_BLOCKED"]
        /\ x0' = [x0 EXCEPT ![active] = NoResult]
        /\ UNCHANGED send_queue
  /\ kpc' = "requeue"
  /\ UNCHANGED <<tid, parent_tid, priority, send_to, ipc_receiver, events,
                 ready, io_ready, active, next_tid>>

\* Mutant: the receiver alone identifies the transaction, so a caller still
\* in the send queue could be answered.
OwnedBy(s, r) == ipc_receiver[s] = r

AwaitsReplyFrom(s, r) == state[s] = "REPLY_BLOCKED" /\ ipc_receiver[s] = r

\* SYSCALL_REPLY refused: no such task, or not a caller of this task.
ReplyFails(n) ==
  /\ kpc = "user"
  /\ \/ Named(n) = {} /\ Return(BadTid)
     \/ \E s \in Named(n) :
          /\ ~AwaitsReplyFrom(s, active)
          /\ Return(BadState)
  /\ UNCHANGED <<tcb, send_to, ipc_receiver, send_queue, events, ready,
                 io_ready, active, next_tid>>

\* SYSCALL_REPLY: the sender gets its result and runs again.
Reply(n) ==
  /\ kpc = "user"
  /\ \E s \in Named(n) :
       /\ AwaitsReplyFrom(s, active)
       /\ x0' = [x0 EXCEPT ![s] = OK, ![active] = OK]
       /\ ipc_receiver' = [ipc_receiver EXCEPT ![s] = NoTask]
       /\ send_to' = [send_to EXCEPT ![s] = 0]
       /\ state' = [state EXCEPT ![s] = "READY"]
       /\ MakeReady(s)
  /\ kpc' = "requeue"
  /\ UNCHANGED <<tid, parent_tid, priority, send_queue, events, io_ready,
                 active, next_tid>>

\* Mutant: insertion in front, as for the UART events.
InsertInFront(q, t, w) == timer_wait' = <<t>> \o q

\* timer_wait_insert: behind every waiter that is due no later.
InsertByWakeup(q, t, w) ==
  \E k \in 0 .. Len(q) :
    /\ \A i \in 1 .. k : wakeup[q[i]] <= w
    /\ k < Len(q) => wakeup[q[k + 1]] > w
    /\ timer_wait' = SubSeq(q, 1, k) \o <<t>> \o SubSeq(q, k + 1, Len(q))

\* SYSCALL_AWAIT_EVENT(EVENT_TIMER)
AwaitTimer ==
  /\ kpc = "user"
  /\ state' = [state EXCEPT ![active] = "EVENT_BLOCKED"]
  /\ event_type' = [event_type EXCEPT ![active] = Timer]
  /\ InsertByWakeup(timer_wait, active, TimerPeriod)
  /\ wakeup' = [wakeup EXCEPT ![active] = TimerPeriod]
  /\ x0' = [x0 EXCEPT ![active] = NoResult]
  /\ kpc' = "requeue"
  /\ UNCHANGED <<tid, parent_tid, priority, send_to, ipc_receiver,
                 send_queue, ready, io_wait, io_ready, active, next_tid>>

\* SYSCALL_AWAIT_EVENT for a UART event: returns at once if the flag is up,
\* else the task is pushed in front of the event's waiters.
AwaitIo(e) ==
  /\ kpc = "user"
  /\ \/ /\ io_ready[e]
        /\ x0' = [x0 EXCEPT ![active] = OK]
        /\ UNCHANGED <<state, event_type, wakeup, io_wait>>
     \/ /\ ~io_ready[e]
        /\ state' = [state EXCEPT ![active] = "EVENT_BLOCKED"]
        /\ event_type' = [event_type EXCEPT ![active] = e]
        /\ wakeup' = [wakeup EXCEPT ![active] = 0]
        /\ io_wait' = [io_wait EXCEPT ![e] = <<active>> \o @]
        /\ x0' = [x0 EXCEPT ![active] = NoResult]
  /\ kpc' = "requeue"
  /\ UNCHANGED <<tid, parent_tid, priority, send_to, ipc_receiver,
                 send_queue, timer_wait, ready, io_ready, active, next_tid>>

\* SYSCALL_AWAIT_EVENT for anything else.
AwaitFails ==
  /\ kpc = "user"
  /\ Return(-1)
  /\ UNCHANGED <<tcb, send_to, ipc_receiver, send_queue, events, ready,
                 io_ready, active, next_tid>>

-----------------------------------------------------------------------------
(* task_exit_descriptor: wake every waiter, queued ones first.             *)

\* abort_ipc_waiter
Abort(w) ==
  /\ x0' = [x0 EXCEPT ![w] = PeerExited]
  /\ ipc_receiver' = [ipc_receiver EXCEPT ![w] = NoTask]
  /\ send_to' = [send_to EXCEPT ![w] = 0]
  /\ state' = [state EXCEPT ![w] = "READY"]
  /\ MakeReady(w)

ExitAbortQueued ==
  /\ kpc = "exit"
  /\ send_queue[active] # <<>>
  /\ Abort(Head(send_queue[active]))
  /\ send_queue' = [send_queue EXCEPT ![active] = Tail(@)]
  /\ UNCHANGED <<tid, parent_tid, priority, events, io_ready, active,
                 next_tid, kpc>>

\* Mutant: Exit wakes the queued callers and forgets the delivered ones.
OwedQueuedOnly(r) ==
  {w \in Slots : ipc_receiver[w] = r /\ w # r /\ state[w] = "SEND_BLOCKED"}

\* Callers still owed a Reply: found by scanning the descriptors in order.
Owed(r) == {w \in Slots : ipc_receiver[w] = r /\ w # r /\ Blocked(w)}

ExitAbortDelivered ==
  /\ kpc = "exit"
  /\ send_queue[active] = <<>>
  /\ \E w \in Owed(active) :
       /\ \A v \in Owed(active) : w <= v
       /\ Abort(w)
  /\ UNCHANGED <<tid, parent_tid, priority, send_queue, events, io_ready,
                 active, next_tid, kpc>>

ExitFinish ==
  /\ kpc = "exit"
  /\ send_queue[active] = <<>>
  /\ Owed(active) = {}
  /\ state' = [state EXCEPT ![active] = "EXITED"]
  /\ ipc_receiver' = [ipc_receiver EXCEPT ![active] = NoTask]
  /\ event_type' = [event_type EXCEPT ![active] = NoEvent]
  /\ wakeup' = [wakeup EXCEPT ![active] = 0]
  /\ kpc' = "requeue"
  /\ UNCHANGED <<tid, parent_tid, priority, x0, send_to, send_queue,
                 timer_wait, io_wait, ready, io_ready, active, next_tid>>

-----------------------------------------------------------------------------
(* The tail of kernel_handle_exception.                                    *)

\* A caller the request left ACTIVE goes to the back of its queue.
Requeue ==
  /\ kpc = "requeue"
  /\ \/ /\ state[active] = "ACTIVE"
        /\ state' = [state EXCEPT ![active] = "READY"]
        /\ MakeReady(active)
     \/ /\ state[active] # "ACTIVE"
        /\ UNCHANGED <<state, ready>>
  /\ active' = NoTask
  /\ kpc' = "release"
  /\ UNCHANGED <<tid, parent_tid, priority, ipc, events, io_ready, next_tid>>

TimerDue == timer_wait # <<>> /\ wakeup[Head(timer_wait)] = 0
IoDue(e) == io_ready[e] /\ io_wait[e] # <<>>

\* Mutant: the woken task resumes with its request number in x0.
WakeWithoutResult(t) ==
  /\ event_type' = [event_type EXCEPT ![t] = NoEvent]
  /\ state' = [state EXCEPT ![t] = "READY"]
  /\ MakeReady(t)
  /\ UNCHANGED x0

Wake(t) ==
  /\ x0' = [x0 EXCEPT ![t] = OK]
  /\ event_type' = [event_type EXCEPT ![t] = NoEvent]
  /\ state' = [state EXCEPT ![t] = "READY"]
  /\ MakeReady(t)

\* One iteration of timer_release_ready_tasks.
ReleaseTimer ==
  /\ kpc = "release"
  /\ TimerDue
  /\ Wake(Head(timer_wait))
  /\ timer_wait' = Tail(timer_wait)
  /\ UNCHANGED <<tid, parent_tid, priority, send_to, ipc_receiver,
                 send_queue, wakeup, io_wait, io_ready, active, next_tid,
                 kpc>>

\* One iteration of io_release_ready_tasks; events in order.
ReleaseIo(e) ==
  /\ kpc = "release"
  /\ ~TimerDue
  /\ IoDue(e)
  /\ \A d \in IoKinds : IoDue(d) => e <= d
  /\ Wake(Head(io_wait[e]))
  /\ io_wait' = [io_wait EXCEPT ![e] = Tail(@)]
  /\ UNCHANGED <<tid, parent_tid, priority, send_to, ipc_receiver,
                 send_queue, wakeup, timer_wait, io_ready, active, next_tid,
                 kpc>>

SomethingDue == TimerDue \/ \E e \in IoKinds : IoDue(e)

\* Mutant: the idle loop looks at one kind of waiter only.
HasTimerWaiters == timer_wait # <<>>

HasWaiters   == timer_wait # <<>> \/ \E e \in IoKinds : io_wait[e] # <<>>

\* Mutant: the queues are searched from the wrong end.
LeastUrgent(p) ==
  ready[p] # <<>> /\ \A q \in Priorities : ready[q] # <<>> => p >= q

MostUrgent(p) ==
  ready[p] # <<>> /\ \A q \in Priorities : ready[q] # <<>> => p <= q

\* task_schedule picks the head of the most urgent nonempty queue.
Schedule(p) ==
  /\ kpc = "release"
  /\ ~SomethingDue
  /\ MostUrgent(p)
  /\ active' = Head(ready[p])
  /\ state' = [state EXCEPT ![Head(ready[p])] = "ACTIVE"]
  /\ ready' = [ready EXCEPT ![p] = Tail(@)]
  /\ kpc' = "user"
  /\ UNCHANGED <<tid, parent_tid, priority, ipc, events, io_ready, next_tid>>

\* Nothing is ready: kernel_idle_until_timer_event polls while somebody
\* waits for the hardware, and halts the core when nobody does.
NothingReady ==
  /\ kpc = "release"
  /\ ~SomethingDue
  /\ \A p \in Priorities : ready[p] = <<>>
  /\ kpc' = IF HasWaiters THEN "idle" ELSE "halted"
  /\ UNCHANGED <<tcb, ipc, events, ready, io_ready, active, next_tid>>

\* kernel_halt spins for ever.
Halted == kpc = "halted" /\ UNCHANGED vars

IdlePoll ==
  /\ kpc = "idle"
  /\ SomethingDue
  /\ kpc' = "release"
  /\ UNCHANGED <<tcb, ipc, events, ready, io_ready, active, next_tid>>

-----------------------------------------------------------------------------
(* Hardware.  A release pass samples the timer and the UART flags once, so *)
(* a change during the pass is one seen by the next pass.                  *)

\* The free-running counter; only what is left of each sleep matters.
Tick ==
  /\ kpc # "release"
  /\ \E i \in DOMAIN timer_wait : wakeup[timer_wait[i]] > 0
  /\ wakeup' = [t \in Slots |-> IF wakeup[t] > 0 THEN wakeup[t] - 1 ELSE 0]
  /\ UNCHANGED <<tcb, ipc, event_type, timer_wait, io_wait, ready, io_ready,
                 active, next_tid, kpc>>

\* A byte arrives or is read; the transmit FIFO drains or fills.
IoChange(e) ==
  /\ kpc # "release"
  /\ io_ready' = [io_ready EXCEPT ![e] = ~@]
  /\ UNCHANGED <<tcb, ipc, events, ready, active, next_tid, kpc>>

-----------------------------------------------------------------------------
Syscall ==
  \/ \E p \in -1 .. NumPriorities : Create(p) \/ CreateFails(p)
  \/ \E n \in 0 .. MaxTid : Send(n) \/ SendFails(n) \/ Reply(n)
                            \/ ReplyFails(n)
  \/ Yield \/ Exit \/ Receive \/ AwaitTimer \/ AwaitFails
  \/ \E e \in IoKinds : AwaitIo(e)

KernelStep ==
  \/ ExitAbortQueued \/ ExitAbortDelivered \/ ExitFinish
  \/ Requeue \/ ReleaseTimer \/ NothingReady \/ IdlePoll \/ Halted
  \/ \E e \in IoKinds : ReleaseIo(e)
  \/ \E p \in Priorities : Schedule(p)

Hardware == Tick \/ \E e \in IoKinds : IoChange(e)

Next == Syscall \/ KernelStep \/ Hardware

Spec == Init /\ [][Next]_vars

\* The core keeps executing: the handler always finishes, the counter always
\* advances, and the running task traps again (every task of the system
\* calls the kernel in its loop; nothing preempts one that does not).
FairSpec == Spec /\ WF_vars(Syscall) /\ WF_vars(KernelStep) /\ SF_vars(Tick)

-----------------------------------------------------------------------------
(* What the kernel promises.                                               *)

\* Types.
TaskTypes ==
  /\ state \in [Slots -> TaskState]
  /\ tid \in [Slots -> Nat]
  /\ parent_tid \in [Slots -> Nat \cup {-1}]
  /\ priority \in [Slots -> Priorities \cup {-1}]
  /\ x0 \in [Slots -> Results]
  /\ send_to \in [Slots -> Nat]
  /\ ipc_receiver \in [Slots -> Slots \cup {NoTask}]
  /\ event_type \in [Slots -> {NoEvent, Timer} \cup IoKinds]
  /\ wakeup \in [Slots -> Nat]

ListTypes ==
  /\ send_queue \in [Slots -> Seq(Slots)]
  /\ ready \in [Priorities -> Seq(Slots)]
  /\ timer_wait \in Seq(Slots)
  /\ io_wait \in [IoKinds -> Seq(Slots)]

CoreTypes ==
  /\ io_ready \in [IoKinds -> BOOLEAN]
  /\ active \in Slots \cup {NoTask}
  /\ next_tid \in Nat \ {0}
  /\ kpc \in {"user", "exit", "requeue", "release", "idle", "halted"}

TypeOK == TaskTypes /\ ListTypes /\ CoreTypes

\* The intrusive links of a descriptor serve one list at a time: a task is
\* READY exactly when it is in the ready queue of its priority, SEND_BLOCKED
\* exactly when it is in its receiver's send queue, EVENT_BLOCKED exactly
\* when it is in the list of its event, and no list holds a task twice.  A
\* task woken without being unlinked, or unlinked without being woken,
\* corrupts two lists at once.
ReadyListed ==
  \A t \in Slots, p \in Priorities :
    t \in Members(ready[p]) <=> state[t] = "READY" /\ priority[t] = p

SendersListed ==
  \A t, r \in Slots :
    t \in Members(send_queue[r])
      <=> state[t] = "SEND_BLOCKED" /\ ipc_receiver[t] = r

EventsListed ==
  /\ \A t \in Slots :
       t \in Members(timer_wait)
         <=> state[t] = "EVENT_BLOCKED" /\ event_type[t] = Timer
  /\ \A t \in Slots, e \in IoKinds :
       t \in Members(io_wait[e])
         <=> state[t] = "EVENT_BLOCKED" /\ event_type[t] = e

ListedOnce ==
  /\ \A p \in Priorities : InjectiveSeq(ready[p])
  /\ \A r \in Slots : InjectiveSeq(send_queue[r])
  /\ InjectiveSeq(timer_wait)
  /\ \A e \in IoKinds : InjectiveSeq(io_wait[e])

QueueDiscipline ==
  ReadyListed /\ SendersListed /\ EventsListed /\ ListedOnce

\* A task blocked in Send always has somebody who can still answer it: the
\* descriptor that owns its transaction is alive and is still the task the
\* caller named.  Descriptors are reused while callers hold pointers to
\* them, so this is what Exit's two waking loops have to guarantee.
CallersHaveReceiver ==
  \A t \in Slots :
    Blocked(t) =>
      /\ ipc_receiver[t] \in Slots
      /\ Exists(ipc_receiver[t])
      /\ tid[ipc_receiver[t]] = send_to[t]

\* User code runs only when nothing more urgent is ready: whatever a call
\* or an interrupt made ready was seen by the scheduling decision.
HighestPriorityRuns ==
  kpc = "user" =>
    /\ state[active] = "ACTIVE"
    /\ \A t \in Slots : state[t] = "READY" => priority[active] <= priority[t]

\* No task resumes before its blocking call has a result: a woken task whose
\* x0 still held the request number would read it as a return value.
CallsComplete ==
  \A t \in Slots :
    \/ state[t] = "READY"
    \/ kpc = "user" /\ t = active
    => x0[t] # NoResult

\* The kernel halts for good only when no task can ever run again: nobody is
\* ready and nobody waits for the hardware.
HaltsOnlyWhenStuck ==
  kpc = "halted" =>
    \A t \in Slots :
      state[t] \in {"UNUSED", "EXITED", "SEND_BLOCKED", "RECEIVE_BLOCKED",
                    "REPLY_BLOCKED"}

\* When the handler lets a task run, no sleeper whose time has come is left
\* behind: the handler looks at the head of the timer list only, so this
\* needs the list to be sorted at every insertion.
NobodyOversleeps ==
  [][kpc = "release" /\ kpc' = "user" =>
       \A t \in Slots :
         state[t] = "EVENT_BLOCKED" /\ event_type[t] = Timer
           => wakeup[t] > 0]_vars

\* Equal priorities share the core: a task that stays ready for ever can
\* only be kept waiting by strictly more urgent tasks.
RoundRobin ==
  \A t \in Slots :
    \/ []<>(state[t] # "READY")
    \/ <>[](kpc = "user" => priority[active] < priority[t])

\* No caller is left behind by a task that exits: each of them resumes.
CallersReleased ==
  \A t \in Slots :
    Blocked(t) /\ kpc = "exit" /\ ipc_receiver[t] = active
      ~> state[t] = "READY"

-----------------------------------------------------------------------------
(* What else is always true, and makes the invariants above inductive.     *)

\* A task is current exactly while it runs or a call of its is served; only
\* the current task is ACTIVE, and it is until its call blocks it.
OneActive ==
  /\ active # NoTask <=> kpc \in {"user", "exit", "requeue"}
  /\ \A t \in Slots : state[t] = "ACTIVE" => t = active
  /\ kpc \in {"user", "exit"} => state[active] = "ACTIVE"

\* A descriptor in use, or left behind by Exit, has a tid of its own.
TidsUnique ==
  \A t \in Slots :
    state[t] # "UNUSED" =>
      /\ tid[t] < next_tid
      /\ \A u \in Slots : state[u] # "UNUSED" /\ tid[u] = tid[t] => u = t

\* The ready queues have a place for every live task.
PrioritiesKnown ==
  \A t \in Slots : Exists(t) => priority[t] \in Priorities

\* A task that waits for an event waits for one somebody releases.
EventsNamed ==
  \A t \in Slots : state[t] = "EVENT_BLOCKED" => event_type[t] # NoEvent

\* A call that leaves its caller runnable has already stored its result.
ResultHeld ==
  kpc = "requeue" /\ state[active] = "ACTIVE" => x0[active] # NoResult

\* The timer list is in the order of its deadlines.
TimerSorted ==
  \A i, j \in DOMAIN timer_wait :
    i <= j => wakeup[timer_wait[i]] <= wakeup[timer_wait[j]]

KernelInv ==
  /\ TypeOK /\ QueueDiscipline /\ CallersHaveReceiver
  /\ HighestPriorityRuns /\ CallsComplete /\ HaltsOnlyWhenStuck
  /\ OneActive /\ TidsUnique /\ PrioritiesKnown /\ EventsNamed
  /\ ResultHeld
=============================================================================
