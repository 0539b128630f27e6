---------------------------- MODULE KernelProofs ----------------------------
(***************************************************************************)
(* Proofs about Kernel for every number of descriptors, priorities, events *)
(* and tids: KernelInv is inductive, the invariants it is made of, and the *)
(* order of the timer list.                                                *)
(***************************************************************************)
EXTENDS KernelIpc, ListLemmas

-----------------------------------------------------------------------------
(* Steps that several actions share.                                       *)

\* An empty list has no members, so a list with a member is not empty.
LEMMA NoMembers == \A x : x \notin Members(<<>>)
  BY DEF Members

\* task_make_ready on a task that is in no ready queue adds it to the queue
\* of its priority and to no other.
LEMMA ReadyAppend ==
  ASSUME TypeOK, ReadyListed, ListedOnce, NEW t \in Slots,
         state[t] # "READY", priority[t] \in Priorities, MakeReady(t)
  PROVE  /\ ready' \in [Priorities -> Seq(Slots)]
         /\ \A u \in Slots, p \in Priorities :
              u \in Members(ready'[p])
                <=> u \in Members(ready[p]) \/ (u = t /\ p = priority[t])
         /\ \A p \in Priorities : InjectiveSeq(ready'[p])
<1> DEFINE q == ready[priority[t]]
<1>1. q \in Seq(Slots) /\ InjectiveSeq(q) /\ t \notin Members(q)
  BY DEF TypeOK, TaskTypes, ListTypes, CoreTypes, ListedOnce, ReadyListed
<1>2. /\ Append(q, t) \in Seq(Slots)
      /\ \A x : x \in Members(Append(q, t)) <=> x \in Members(q) \/ x = t
      /\ InjectiveSeq(Append(q, t))
  BY <1>1, AppendLine
<1>3. ready' = [ready EXCEPT ![priority[t]] = Append(q, t)]
  BY DEF MakeReady
<1>4. ready \in [Priorities -> Seq(Slots)]
  BY DEF TypeOK, TaskTypes, ListTypes, CoreTypes
<1>5. \A p \in Priorities : InjectiveSeq(ready[p])
  BY DEF ListedOnce
<1> HIDE DEF q
<1>6. \A p \in Priorities :
        ready'[p] = IF p = priority[t] THEN Append(q, t) ELSE ready[p]
  BY <1>3, <1>4
<1>7. ready' \in [Priorities -> Seq(Slots)]
  BY <1>2, <1>3, <1>4
<1> QED BY <1>2, <1>5, <1>6, <1>7 DEF q

\* A call that only stores a result leaves every list as it was.
LEMMA QuietReturn ==
  ASSUME KernelInv, kpc = "user", NEW r \in Results \ {NoResult}, Return(r),
         UNCHANGED <<tcb, send_to, ipc_receiver, send_queue, events, ready,
                     io_ready, active, next_tid>>
  PROVE  KernelInv'
<1> USE DEF KernelInv, QueueDiscipline
<1>0. /\ active \in Slots
      /\ x0' = [x0 EXCEPT ![active] = r]
      /\ kpc' = "requeue"
      /\ UNCHANGED <<state, tid, parent_tid, priority, send_to, ipc_receiver,
           send_queue, events, ready, io_ready, active, next_tid>>
  BY DEF Return, tcb, TypeOK, TaskTypes, ListTypes, CoreTypes, OneActive,
       NoTask
<1>1. \A t \in Slots : x0'[t] = IF t = active THEN r ELSE x0[t]
  BY <1>0 DEF TypeOK, TaskTypes, ListTypes, CoreTypes
<1>2. TypeOK'
  <2>1. TaskTypes'
    BY <1>0, <1>1 DEF TypeOK, TaskTypes, CoreTypes, events, TaskState, Results
  <2>2. ListTypes'
    BY <1>0, <1>1 DEF TypeOK, ListTypes, CoreTypes, events
  <2>3. CoreTypes'
    BY <1>0, <1>1 DEF TypeOK, CoreTypes, events
  <2> QED BY <2>1, <2>2, <2>3 DEF TypeOK
<1>3. ReadyListed'
  <2> SUFFICES ASSUME NEW u \in Slots, NEW a \in Priorities
               PROVE  u \in Members(ready'[a])
                        <=> state'[u] = "READY" /\ priority'[u] = a
    BY DEF ReadyListed
  <2>1. u \in Members(ready[a]) <=> state[u] = "READY" /\ priority[u] = a
    BY DEF ReadyListed
  <2> QED BY <1>0, <1>1, <2>1
<1>4. SendersListed'
  <2> SUFFICES ASSUME NEW u \in Slots, NEW v \in Slots
               PROVE  u \in Members(send_queue'[v])
                        <=> state'[u] = "SEND_BLOCKED" /\ ipc_receiver'[u] = v
    BY DEF SendersListed
  <2>1. u \in Members(send_queue[v])
          <=> state[u] = "SEND_BLOCKED" /\ ipc_receiver[u] = v
    BY DEF SendersListed
  <2> QED BY <1>0, <1>1, <2>1
<1>5. EventsListed'
  <2>1. \A u \in Slots :
          u \in Members(timer_wait')
            <=> state'[u] = "EVENT_BLOCKED" /\ event_type'[u] = Timer
    BY <1>0, <1>1 DEF EventsListed, events
  <2>2. \A u \in Slots, d \in IoKinds :
          u \in Members(io_wait'[d])
            <=> state'[u] = "EVENT_BLOCKED" /\ event_type'[u] = d
    BY <1>0, <1>1 DEF EventsListed, events
  <2> QED BY <2>1, <2>2 DEF EventsListed
<1>6. ListedOnce'
  BY <1>0, <1>1 DEF ListedOnce, events
<1>7. CallersHaveReceiver'
  <2> SUFFICES ASSUME NEW u \in Slots, Blocked(u)'
               PROVE  /\ ipc_receiver'[u] \in Slots
                      /\ Exists(ipc_receiver[u])'
                      /\ tid'[ipc_receiver'[u]] = send_to'[u]
    BY DEF CallersHaveReceiver
  <2>1. Blocked(u) => /\ ipc_receiver[u] \in Slots
                      /\ Exists(ipc_receiver[u])
                      /\ tid[ipc_receiver[u]] = send_to[u]
    BY DEF CallersHaveReceiver
  <2> QED BY <1>0, <1>1, <2>1 DEF Blocked, Exists
<1>8. HighestPriorityRuns' /\ HaltsOnlyWhenStuck'
  BY <1>0, <1>1 DEF HighestPriorityRuns, HaltsOnlyWhenStuck
<1>9. CallsComplete'
  BY <1>0, <1>1 DEF CallsComplete, NoResult, OK, PeerExited
<1>10. ResultHeld'
  BY <1>0, <1>1 DEF ResultHeld, NoResult, OK, PeerExited
<1>11. OneActive'
  BY <1>0, <1>1 DEF OneActive, NoTask
<1>12. TidsUnique'
  BY <1>0, <1>1 DEF TidsUnique
<1>13. PrioritiesKnown'
  BY <1>0, <1>1 DEF PrioritiesKnown, Exists
<1>14. EventsNamed'
  BY <1>0, <1>1 DEF EventsNamed, events
<1> QED BY <1>2, <1>3, <1>4, <1>5, <1>6, <1>7, <1>8, <1>9, <1>10, <1>11,
     <1>12, <1>13, <1>14

-----------------------------------------------------------------------------
(* One lemma per action: it preserves KernelInv.                           *)

\* Every refusal, and Yield, is a quiet return.
LEMMA RefusalInv ==
  ASSUME KernelInv, NEW p \in Int, NEW n \in Nat,
         Yield \/ CreateFails(p) \/ SendFails(n) \/ ReplyFails(n) \/
              AwaitFails
  PROVE  KernelInv'
<1> USE DEF KernelInv, QueueDiscipline
<1>1. {OK, BadTid, BadState, -1, -2} \subseteq Results \ {NoResult}
  BY DEF Results, OK, BadTid, BadState, PeerExited, NoResult
<1>2. CASE Yield
  BY <1>1, <1>2, QuietReturn DEF Yield
<1>3. CASE CreateFails(p)
  BY <1>1, <1>3, QuietReturn DEF CreateFails
<1>4. CASE SendFails(n)
  BY <1>1, <1>4, QuietReturn DEF SendFails
<1>5. CASE ReplyFails(n)
  BY <1>1, <1>5, QuietReturn DEF ReplyFails
<1>6. CASE AwaitFails
  BY <1>1, <1>6, QuietReturn DEF AwaitFails
<1> QED BY <1>2, <1>3, <1>4, <1>5, <1>6

\* Steps that change only where the core is, or only the hardware.
LEMMA CoreInv ==
  ASSUME KernelInv, Exit \/ IdlePoll \/ Halted \/ Tick \/ (\E e \in
       IoKinds : IoChange(e))
  PROVE  KernelInv'
<1> USE DEF KernelInv, QueueDiscipline
<1>1. /\ UNCHANGED <<tcb, ipc, timer_wait, io_wait, event_type, ready, active,
                     next_tid>>
      /\ wakeup' \in [Slots -> Nat]
      /\ io_ready' \in [IoKinds -> BOOLEAN]
      /\ \/ kpc' = kpc
         \/ kpc = "user" /\ kpc' = "exit"
         \/ kpc = "idle" /\ kpc' = "release"
  <2>1. ASSUME Tick PROVE wakeup' \in [Slots -> Nat]
    <3>1. \A t \in Slots :
            (IF wakeup[t] > 0 THEN wakeup[t] - 1 ELSE 0) \in Nat
      BY DEF TypeOK, TaskTypes, ListTypes, CoreTypes
    <3>2. wakeup' = [t \in Slots |-> IF wakeup[t] > 0 THEN wakeup[t] - 1
         ELSE 0]
      BY <2>1 DEF Tick
    <3> QED BY <3>1, <3>2
  <2>2. ASSUME NEW e \in IoKinds, IoChange(e)
        PROVE  io_ready' \in [IoKinds -> BOOLEAN]
    BY <2>2 DEF IoChange, TypeOK, TaskTypes, ListTypes, CoreTypes
  <2> QED BY <2>1, <2>2 DEF Exit, IdlePoll, Halted, Tick, IoChange, vars,
       events, TypeOK, TaskTypes, ListTypes, CoreTypes
<1>2. UNCHANGED <<state, tid, parent_tid, priority, x0, send_to, ipc_receiver,
                  send_queue>>
  BY <1>1 DEF tcb, ipc
<1>3. TypeOK'
  <2>1. TaskTypes'
    BY <1>1, <1>2 DEF TypeOK, TaskTypes, CoreTypes, events, TaskState, Results
  <2>2. ListTypes'
    BY <1>1, <1>2 DEF TypeOK, ListTypes, CoreTypes, events
  <2>3. CoreTypes'
    BY <1>1, <1>2 DEF TypeOK, CoreTypes, events
  <2> QED BY <2>1, <2>2, <2>3 DEF TypeOK
<1>4. ReadyListed'
  <2> SUFFICES ASSUME NEW u \in Slots, NEW a \in Priorities
               PROVE  u \in Members(ready'[a])
                        <=> state'[u] = "READY" /\ priority'[u] = a
    BY DEF ReadyListed
  <2>1. u \in Members(ready[a]) <=> state[u] = "READY" /\ priority[u] = a
    BY DEF ReadyListed
  <2> QED BY <1>1, <1>2, <2>1
<1>5. SendersListed'
  <2> SUFFICES ASSUME NEW u \in Slots, NEW v \in Slots
               PROVE  u \in Members(send_queue'[v])
                        <=> state'[u] = "SEND_BLOCKED" /\ ipc_receiver'[u] = v
    BY DEF SendersListed
  <2>1. u \in Members(send_queue[v])
          <=> state[u] = "SEND_BLOCKED" /\ ipc_receiver[u] = v
    BY DEF SendersListed
  <2> QED BY <1>1, <1>2, <2>1
<1>6. EventsListed'
  <2>1. \A u \in Slots :
          u \in Members(timer_wait')
            <=> state'[u] = "EVENT_BLOCKED" /\ event_type'[u] = Timer
    BY <1>1, <1>2 DEF EventsListed, events
  <2>2. \A u \in Slots, d \in IoKinds :
          u \in Members(io_wait'[d])
            <=> state'[u] = "EVENT_BLOCKED" /\ event_type'[u] = d
    BY <1>1, <1>2 DEF EventsListed, events
  <2> QED BY <2>1, <2>2 DEF EventsListed
<1>7. ListedOnce'
  BY <1>1, <1>2 DEF ListedOnce, events
<1>8. CallersHaveReceiver'
  <2> SUFFICES ASSUME NEW u \in Slots, Blocked(u)'
               PROVE  /\ ipc_receiver'[u] \in Slots
                      /\ Exists(ipc_receiver[u])'
                      /\ tid'[ipc_receiver'[u]] = send_to'[u]
    BY DEF CallersHaveReceiver
  <2>1. Blocked(u) => /\ ipc_receiver[u] \in Slots
                      /\ Exists(ipc_receiver[u])
                      /\ tid[ipc_receiver[u]] = send_to[u]
    BY DEF CallersHaveReceiver
  <2> QED BY <1>1, <1>2, <2>1 DEF Blocked, Exists
<1>9. HighestPriorityRuns' /\ HaltsOnlyWhenStuck'
  BY <1>1, <1>2 DEF HighestPriorityRuns, HaltsOnlyWhenStuck
<1>10. CallsComplete'
  BY <1>1, <1>2 DEF CallsComplete, NoResult, OK, PeerExited
<1>11. ResultHeld'
  BY <1>1, <1>2 DEF ResultHeld, NoResult, OK, PeerExited
<1>12. OneActive'
  BY <1>1, <1>2 DEF OneActive, NoTask
<1>13. TidsUnique'
  BY <1>1, <1>2 DEF TidsUnique
<1>14. PrioritiesKnown'
  BY <1>1, <1>2 DEF PrioritiesKnown, Exists
<1>15. EventsNamed'
  BY <1>1, <1>2 DEF EventsNamed, events
<1> QED BY <1>3, <1>4, <1>5, <1>6, <1>7, <1>8, <1>9, <1>10, <1>11, <1>12,
     <1>13, <1>14, <1>15

\* Receive moves the oldest sender from the queue to REPLY_BLOCKED.
LEMMA ReceiveInv ==
  ASSUME KernelInv, Receive
  PROVE  KernelInv'
<1> USE DEF KernelInv, QueueDiscipline
<1>0. /\ active \in Slots /\ state[active] = "ACTIVE" /\ kpc' = "requeue"
      /\ active' = active /\ ready' = ready /\ kpc = "user"
  BY DEF Receive, TypeOK, TaskTypes, ListTypes, CoreTypes, OneActive, NoTask
<1>1. CASE send_queue[active] = <<>>
  <2>1. /\ state' = [state EXCEPT ![active] = "RECEIVE_BLOCKED"]
        /\ x0' = [x0 EXCEPT ![active] = NoResult]
        /\ UNCHANGED <<send_queue, tid, parent_tid, priority, send_to,
             ipc_receiver, events, ready, io_ready, active, next_tid>>
    BY <1>1 DEF Receive
  <2>p. /\ \A t \in Slots : state'[t] = IF t = active THEN
             "RECEIVE_BLOCKED" ELSE state[t]
        /\ \A t \in Slots : x0'[t] = IF t = active THEN NoResult ELSE x0[t]
    BY <1>0, <2>1 DEF TypeOK, TaskTypes, ListTypes, CoreTypes
  <2>u. UNCHANGED <<send_queue, tid, parent_tid, priority, send_to,
          ipc_receiver, events, ready, io_ready, active, next_tid>>
    BY <2>1
  <2>2. TypeOK'
    <3>1. TaskTypes'
      BY <1>0, <2>1 DEF TypeOK, TaskTypes, CoreTypes, events, TaskState,
           Results
    <3>2. ListTypes'
      BY <1>0, <2>1 DEF TypeOK, ListTypes, CoreTypes, events
    <3>3. CoreTypes'
      BY <1>0, <2>1 DEF TypeOK, CoreTypes, events
    <3> QED BY <3>1, <3>2, <3>3 DEF TypeOK
  <2>3. ReadyListed'
    <3> SUFFICES ASSUME NEW u \in Slots, NEW a \in Priorities
                 PROVE  u \in Members(ready'[a])
                          <=> state'[u] = "READY" /\ priority'[u] = a
      BY DEF ReadyListed
    <3>1. u \in Members(ready[a]) <=> state[u] = "READY" /\ priority[u] = a
      BY DEF ReadyListed
    <3> QED BY <1>0, <2>u, <2>p, <3>1
  <2>4. SendersListed'
    <3> SUFFICES ASSUME NEW u \in Slots, NEW v \in Slots
                 PROVE  u \in Members(send_queue'[v])
                          <=> state'[u] = "SEND_BLOCKED" /\
                               ipc_receiver'[u] = v
      BY DEF SendersListed
    <3>1. u \in Members(send_queue[v])
            <=> state[u] = "SEND_BLOCKED" /\ ipc_receiver[u] = v
      BY DEF SendersListed
    <3> QED BY <1>0, <2>u, <2>p, <3>1
  <2>5. EventsListed'
    <3>1. \A u \in Slots :
            u \in Members(timer_wait')
              <=> state'[u] = "EVENT_BLOCKED" /\ event_type'[u] = Timer
      BY <1>0, <2>u, <2>p DEF EventsListed, events
    <3>2. \A u \in Slots, d \in IoKinds :
            u \in Members(io_wait'[d])
              <=> state'[u] = "EVENT_BLOCKED" /\ event_type'[u] = d
      BY <1>0, <2>u, <2>p DEF EventsListed, events
    <3> QED BY <3>1, <3>2 DEF EventsListed
  <2>6. ListedOnce'
    BY <1>0, <2>u, <2>p DEF ListedOnce, events
  <2>7. CallersHaveReceiver'
    <3> SUFFICES ASSUME NEW u \in Slots, Blocked(u)'
                 PROVE  /\ ipc_receiver'[u] \in Slots
                        /\ Exists(ipc_receiver[u])'
                        /\ tid'[ipc_receiver'[u]] = send_to'[u]
      BY DEF CallersHaveReceiver
    <3>1. Blocked(u) => /\ ipc_receiver[u] \in Slots
                        /\ Exists(ipc_receiver[u])
                        /\ tid[ipc_receiver[u]] = send_to[u]
      BY DEF CallersHaveReceiver
    <3> QED BY <1>0, <2>u, <2>p, <3>1 DEF Blocked, Exists
  <2>8. HighestPriorityRuns' /\ HaltsOnlyWhenStuck'
    BY <1>0, <2>u, <2>p DEF HighestPriorityRuns, HaltsOnlyWhenStuck
  <2>9. CallsComplete'
    BY <1>0, <2>u, <2>p DEF CallsComplete, NoResult, OK, PeerExited
  <2>10. ResultHeld'
    BY <1>0, <2>u, <2>p DEF ResultHeld, NoResult, OK, PeerExited
  <2>11. OneActive'
    BY <1>0, <2>u, <2>p DEF OneActive, NoTask
  <2>12. TidsUnique'
    BY <1>0, <2>u, <2>p DEF TidsUnique
  <2>13. PrioritiesKnown'
    BY <1>0, <2>u, <2>p DEF PrioritiesKnown, Exists
  <2>14. EventsNamed'
    BY <1>0, <2>u, <2>p DEF EventsNamed, events
  <2> QED BY <2>2, <2>3, <2>4, <2>5, <2>6, <2>7, <2>8, <2>9, <2>10,
       <2>11, <2>12, <2>13, <2>14
<1>2. CASE send_queue[active] # <<>>
  <2> DEFINE q == send_queue[active]
             s == Head(q)
  <2>1. /\ state' = [state EXCEPT ![s] = "REPLY_BLOCKED"]
        /\ send_queue' = [send_queue EXCEPT ![active] = Tail(q)]
        /\ x0' = [x0 EXCEPT ![active] = OK]
        /\ UNCHANGED <<tid, parent_tid, priority, send_to,
             ipc_receiver, events, ready, io_ready, active, next_tid>>
    BY <1>2 DEF Receive
  <2>2. /\ Tail(q) \in Seq(Slots)
        /\ s \in Slots
        /\ s \in Members(q)
        /\ \A x : x \in Members(Tail(q)) <=> x \in Members(q) /\ x # s
        /\ InjectiveSeq(Tail(q))
    BY <1>0, <1>2, TailLine DEF TypeOK, TaskTypes, ListTypes, CoreTypes,
         ListedOnce
  <2>3. state[s] = "SEND_BLOCKED" /\ ipc_receiver[s] = active
    BY <1>0, <2>2 DEF SendersListed
  <2> HIDE DEF s
  <2>p. /\ \A t \in Slots : state'[t] = IF t = s THEN
             "REPLY_BLOCKED" ELSE state[t]
        /\ \A r \in Slots : send_queue'[r] = IF r = active THEN Tail(q)
             ELSE send_queue[r]
        /\ \A t \in Slots : x0'[t] = IF t = active THEN OK ELSE x0[t]
    BY <1>0, <2>1, <2>2 DEF TypeOK, TaskTypes, ListTypes, CoreTypes
  <2>u. UNCHANGED <<tid, parent_tid, priority, send_to, ipc_receiver, events,
          ready, io_ready, active, next_tid>>
    BY <2>1
  <2>4. TypeOK'
    <3>1. TaskTypes'
      BY <1>0, <2>1, <2>2 DEF TypeOK, TaskTypes, CoreTypes, events,
           TaskState, Results
    <3>2. ListTypes'
      BY <1>0, <2>1, <2>2 DEF TypeOK, ListTypes, CoreTypes, events
    <3>3. CoreTypes'
      BY <1>0, <2>1, <2>2 DEF TypeOK, CoreTypes, events
    <3> QED BY <3>1, <3>2, <3>3 DEF TypeOK
  <2>5. ReadyListed'
    <3> SUFFICES ASSUME NEW u \in Slots, NEW a \in Priorities
                 PROVE  u \in Members(ready'[a])
                          <=> state'[u] = "READY" /\ priority'[u] = a
      BY DEF ReadyListed
    <3>1. u \in Members(ready[a]) <=> state[u] = "READY" /\ priority[u] = a
      BY DEF ReadyListed
    <3> QED BY <1>0, <2>2, <2>3, <2>p, <2>u, <3>1
  <2>6. SendersListed'
    <3> SUFFICES ASSUME NEW u \in Slots, NEW v \in Slots
                 PROVE  u \in Members(send_queue'[v])
                          <=> state'[u] = "SEND_BLOCKED" /\
                               ipc_receiver'[u] = v
      BY DEF SendersListed
    <3>1. u \in Members(send_queue[v])
            <=> state[u] = "SEND_BLOCKED" /\ ipc_receiver[u] = v
      BY DEF SendersListed
    <3> QED BY <1>0, <2>2, <2>3, <2>p, <2>u, <3>1
  <2>7. EventsListed'
    <3>1. \A u \in Slots :
            u \in Members(timer_wait')
              <=> state'[u] = "EVENT_BLOCKED" /\ event_type'[u] = Timer
      BY <1>0, <2>2, <2>3, <2>p, <2>u DEF EventsListed, events
    <3>2. \A u \in Slots, d \in IoKinds :
            u \in Members(io_wait'[d])
              <=> state'[u] = "EVENT_BLOCKED" /\ event_type'[u] = d
      BY <1>0, <2>2, <2>3, <2>p, <2>u DEF EventsListed, events
    <3> QED BY <3>1, <3>2 DEF EventsListed
  <2>8. ListedOnce'
    BY <1>0, <2>2, <2>3, <2>p, <2>u DEF ListedOnce, events
  <2>9. CallersHaveReceiver'
    <3> SUFFICES ASSUME NEW u \in Slots, Blocked(u)'
                 PROVE  /\ ipc_receiver'[u] \in Slots
                        /\ Exists(ipc_receiver[u])'
                        /\ tid'[ipc_receiver'[u]] = send_to'[u]
      BY DEF CallersHaveReceiver
    <3>1. Blocked(u) => /\ ipc_receiver[u] \in Slots
                        /\ Exists(ipc_receiver[u])
                        /\ tid[ipc_receiver[u]] = send_to[u]
      BY DEF CallersHaveReceiver
    <3> QED BY <1>0, <2>2, <2>3, <2>p, <2>u, <3>1 DEF Blocked, Exists
  <2>10. HighestPriorityRuns' /\ HaltsOnlyWhenStuck'
    BY <1>0, <2>2, <2>3, <2>p, <2>u DEF HighestPriorityRuns,
         HaltsOnlyWhenStuck
  <2>11. CallsComplete'
    BY <1>0, <2>2, <2>3, <2>p, <2>u DEF CallsComplete, NoResult, OK,
         PeerExited
  <2>12. ResultHeld'
    BY <1>0, <2>2, <2>3, <2>p, <2>u DEF ResultHeld, NoResult, OK, PeerExited
  <2>13. OneActive'
    BY <1>0, <2>2, <2>3, <2>p, <2>u DEF OneActive, NoTask
  <2>14. TidsUnique'
    BY <1>0, <2>2, <2>3, <2>p, <2>u DEF TidsUnique
  <2>15. PrioritiesKnown'
    BY <1>0, <2>2, <2>3, <2>p, <2>u DEF PrioritiesKnown, Exists
  <2>16. EventsNamed'
    BY <1>0, <2>2, <2>3, <2>p, <2>u DEF EventsNamed, events
  <2> QED BY <2>4, <2>5, <2>6, <2>7, <2>8, <2>9, <2>10, <2>11, <2>12,
       <2>13, <2>14, <2>15, <2>16
<1> QED BY <1>1, <1>2

\* Create reuses a descriptor nobody points to: no caller owns a transaction
\* with it, and its tid is new.
LEMMA CreateInv ==
  ASSUME KernelInv, NEW p \in Int, Create(p)
  PROVE  KernelInv'
<1> USE DEF KernelInv, QueueDiscipline
<1>0. /\ active \in Slots /\ state[active] = "ACTIVE" /\ kpc = "user"
      /\ kpc' = "requeue" /\ active' = active /\ p \in Priorities
      /\ next_tid' = next_tid + 1 /\ next_tid \in Nat \ {0}
      /\ UNCHANGED <<send_to, timer_wait, io_wait, io_ready>>
  BY DEF Create, PriorityValid, TypeOK, TaskTypes, ListTypes, CoreTypes,
       OneActive, NoTask
<1>1. PICK t \in Slots :
        /\ Free(t)
        /\ tid' = [tid EXCEPT ![t] = next_tid]
        /\ parent_tid' = [parent_tid EXCEPT ![t] = tid[active]]
        /\ priority' = [priority EXCEPT ![t] = p]
        /\ state' = [state EXCEPT ![t] = "READY"]
        /\ ready' = [ready EXCEPT ![p] = Append(@, t)]
        /\ x0' = [x0 EXCEPT ![t] = OK, ![active] = OK]
        /\ ipc_receiver' = [ipc_receiver EXCEPT ![t] = NoTask]
        /\ send_queue' = [send_queue EXCEPT ![t] = <<>>]
        /\ event_type' = [event_type EXCEPT ![t] = NoEvent]
        /\ wakeup' = [wakeup EXCEPT ![t] = 0]
  BY DEF Create
<1>2. state[t] \in {"UNUSED", "EXITED"} /\ t # active
  BY <1>0, <1>1 DEF Free
<1> DEFINE q == ready[p]
<1>3. /\ Append(q, t) \in Seq(Slots)
      /\ \A x : x \in Members(Append(q, t)) <=> x \in Members(q) \/ x = t
      /\ InjectiveSeq(Append(q, t))
  <2>1. q \in Seq(Slots) /\ InjectiveSeq(q) /\ t \notin Members(q)
    BY <1>0, <1>2 DEF TypeOK, TaskTypes, ListTypes, CoreTypes,
         ListedOnce, ReadyListed
  <2> HIDE DEF q
  <2> QED BY <2>1, AppendLine
<1>p. /\ \A u \in Slots : state'[u] = IF u = t THEN "READY" ELSE state[u]
      /\ \A u \in Slots : tid'[u] = IF u = t THEN next_tid ELSE tid[u]
      /\ \A u \in Slots : priority'[u] = IF u = t THEN p ELSE priority[u]
      /\ \A u \in Slots : x0'[u] = IF u \in {t, active} THEN OK ELSE x0[u]
      /\ \A u \in Slots : ipc_receiver'[u] = IF u = t THEN NoTask ELSE
           ipc_receiver[u]
      /\ \A u \in Slots : event_type'[u] = IF u = t THEN NoEvent ELSE
           event_type[u]
      /\ \A u \in Slots : send_queue'[u] = IF u = t THEN <<>> ELSE
           send_queue[u]
      /\ \A a \in Priorities : ready'[a] = IF a = p THEN Append(q, t)
           ELSE ready[a]
  BY <1>0, <1>1 DEF TypeOK, TaskTypes, ListTypes, CoreTypes
<1>s. \A u \in Slots : u \notin Members(send_queue[t])
  BY <1>2 DEF SendersListed, CallersHaveReceiver, Blocked, Exists
<1>c. \A u \in Slots : Blocked(u) => ipc_receiver[u] # t
  BY <1>2 DEF CallersHaveReceiver, Exists
<1>e. /\ <<>> \in Seq(Slots) /\ InjectiveSeq(<<>>)
      /\ \A u \in Slots : u \notin Members(<<>>)
  BY NoMembers DEF InjectiveSeq
<1> HIDE DEF q
<1>4. TypeOK'
  <2>1. /\ state' \in [Slots -> TaskState]
        /\ tid' \in [Slots -> Nat]
        /\ parent_tid' \in [Slots -> Nat \cup {-1}]
        /\ priority' \in [Slots -> Priorities \cup {-1}]
        /\ x0' \in [Slots -> Results]
        /\ ipc_receiver' \in [Slots -> Slots \cup {NoTask}]
        /\ wakeup' \in [Slots -> Nat]
    BY <1>0, <1>1 DEF TypeOK, TaskTypes, ListTypes, CoreTypes, TaskState,
         Results
  <2>2. event_type' \in [Slots -> {NoEvent, Timer} \cup IoKinds]
    BY <1>0, <1>1 DEF TypeOK, TaskTypes, ListTypes, CoreTypes
  <2>3. send_queue' \in [Slots -> Seq(Slots)]
    BY <1>0, <1>1, <1>e DEF TypeOK, TaskTypes, ListTypes, CoreTypes
  <2>4. ready' \in [Priorities -> Seq(Slots)]
    BY <1>0, <1>1, <1>3 DEF TypeOK, TaskTypes, ListTypes, CoreTypes, q
  <2>5. /\ UNCHANGED <<send_to, timer_wait, io_wait, io_ready>>
        /\ active' \in Slots \cup {NoTask}
        /\ next_tid' \in Nat \ {0}
        /\ kpc' \in {"user", "exit", "requeue", "release", "idle", "halted"}
    BY <1>0
  <2>6. TaskTypes'
    BY <2>1, <2>2, <2>5 DEF TypeOK, TaskTypes
  <2>7. ListTypes'
    BY <2>3, <2>4, <2>5 DEF TypeOK, ListTypes
  <2>8. CoreTypes'
    BY <2>5 DEF TypeOK, CoreTypes
  <2> QED BY <2>6, <2>7, <2>8 DEF TypeOK, TaskTypes, ListTypes, CoreTypes
<1>5. ReadyListed'
  <2> SUFFICES ASSUME NEW u \in Slots, NEW a \in Priorities
               PROVE  u \in Members(ready'[a])
                        <=> state'[u] = "READY" /\ priority'[u] = a
    BY DEF ReadyListed
  <2>1. u \in Members(ready'[a])
          <=> u \in Members(ready[a]) \/ (u = t /\ a = p)
    BY <1>3, <1>p DEF q
  <2>2. u \in Members(ready[a]) <=> state[u] = "READY" /\ priority[u] = a
    BY DEF ReadyListed
  <2> QED BY <1>2, <1>p, <2>1, <2>2
<1>6. SendersListed'
  <2> SUFFICES ASSUME NEW u \in Slots, NEW v \in Slots
               PROVE  u \in Members(send_queue'[v])
                        <=> state'[u] = "SEND_BLOCKED" /\ ipc_receiver'[u] = v
    BY DEF SendersListed
  <2>1. u \in Members(send_queue[v])
          <=> state[u] = "SEND_BLOCKED" /\ ipc_receiver[u] = v
    BY DEF SendersListed
  <2> QED BY <1>0, <1>2, <1>3, <1>p, <1>s, <1>c, <1>e, <2>1
<1>7. EventsListed'
  <2>1. \A u \in Slots :
          u \in Members(timer_wait')
            <=> state'[u] = "EVENT_BLOCKED" /\ event_type'[u] = Timer
    BY <1>0, <1>2, <1>3, <1>p, <1>s, <1>c, <1>e DEF EventsListed, events
  <2>2. \A u \in Slots, d \in IoKinds :
          u \in Members(io_wait'[d])
            <=> state'[u] = "EVENT_BLOCKED" /\ event_type'[u] = d
    BY <1>0, <1>2, <1>3, <1>p, <1>s, <1>c, <1>e DEF EventsListed, events
  <2> QED BY <2>1, <2>2 DEF EventsListed
<1>8. ListedOnce'
  BY <1>0, <1>2, <1>3, <1>p, <1>s, <1>c, <1>e DEF ListedOnce, events
<1>9. CallersHaveReceiver'
  <2> SUFFICES ASSUME NEW u \in Slots, Blocked(u)'
               PROVE  /\ ipc_receiver'[u] \in Slots
                      /\ Exists(ipc_receiver[u])'
                      /\ tid'[ipc_receiver'[u]] = send_to'[u]
    BY DEF CallersHaveReceiver
  <2>1. Blocked(u) => /\ ipc_receiver[u] \in Slots
                      /\ Exists(ipc_receiver[u])
                      /\ tid[ipc_receiver[u]] = send_to[u]
    BY DEF CallersHaveReceiver
  <2> QED BY <1>0, <1>2, <1>3, <1>p, <1>s, <1>c, <1>e, <2>1 DEF Blocked,
       Exists
<1>10. HighestPriorityRuns' /\ HaltsOnlyWhenStuck'
  BY <1>0, <1>2, <1>3, <1>p, <1>s, <1>c, <1>e DEF HighestPriorityRuns,
       HaltsOnlyWhenStuck
<1>11. CallsComplete'
  BY <1>0, <1>2, <1>3, <1>p, <1>s, <1>c, <1>e DEF CallsComplete,
       NoResult, OK, PeerExited
<1>12. ResultHeld'
  BY <1>0, <1>2, <1>3, <1>p, <1>s, <1>c, <1>e DEF ResultHeld, NoResult,
       OK, PeerExited
<1>13. OneActive'
  BY <1>0, <1>2, <1>3, <1>p, <1>s, <1>c, <1>e DEF OneActive, NoTask
<1>14. TidsUnique'
  <2> SUFFICES ASSUME NEW u \in Slots, state'[u] # "UNUSED"
               PROVE  /\ tid'[u] < next_tid'
                      /\ \A v \in Slots :
                           state'[v] # "UNUSED" /\ tid'[v] = tid'[u] => v = u
    BY DEF TidsUnique
  <2>1. \A v \in Slots : v # t /\ state'[v] # "UNUSED" => tid'[v] < next_tid
    BY <1>p DEF TidsUnique
  <2>2. tid'[t] = next_tid
    BY <1>p
  <2>3. \A v \in Slots : tid[v] \in Nat
    BY DEF TypeOK, TaskTypes, ListTypes, CoreTypes
  <2>4. tid'[u] < next_tid'
    BY <1>0, <1>p, <2>1, <2>2, <2>3
  <2>5. ASSUME NEW v \in Slots, state'[v] # "UNUSED", tid'[v] = tid'[u]
        PROVE  v = u
    <3>1. CASE u = t
      BY <1>0, <2>1, <2>2, <2>5, <3>1
    <3>2. CASE u # t
      <4>1. v # t
        BY <1>0, <1>p, <2>1, <2>2, <2>3, <2>5, <3>2
      <4> QED BY <1>p, <2>5, <3>2, <4>1 DEF TidsUnique
    <3> QED BY <3>1, <3>2
  <2> QED BY <2>4, <2>5
<1>15. PrioritiesKnown'
  BY <1>0, <1>2, <1>3, <1>p, <1>s, <1>c, <1>e DEF PrioritiesKnown, Exists
<1>16. EventsNamed'
  BY <1>0, <1>2, <1>3, <1>p, <1>s, <1>c, <1>e DEF EventsNamed, events
<1> QED BY <1>4, <1>5, <1>6, <1>7, <1>8, <1>9, <1>10, <1>11, <1>12,
     <1>13, <1>14, <1>15, <1>16

\* Send: to a listening receiver, and to a busy one.
LEMMA SendInv ==
  ASSUME KernelInv, NEW n \in Nat, Send(n)
  PROVE  KernelInv'
<1> USE DEF KernelInv, QueueDiscipline
<1>0. /\ active \in Slots /\ state[active] = "ACTIVE" /\ kpc = "user"
      /\ kpc' = "requeue" /\ active' = active
      /\ UNCHANGED <<tid, parent_tid, priority, events, io_ready, active,
           next_tid>>
  BY DEF Send, TypeOK, TaskTypes, ListTypes, CoreTypes, OneActive, NoTask
<1>1. PICK r \in Named(n) :
        /\ send_to' = [send_to EXCEPT ![active] = n]
        /\ ipc_receiver' = [ipc_receiver EXCEPT ![active] = r]
        /\ \/ /\ state[r] = "RECEIVE_BLOCKED"
              /\ state' = [state EXCEPT ![active] = "REPLY_BLOCKED",
                                        ![r] = "READY"]
              /\ x0' = [x0 EXCEPT ![r] = OK, ![active] = NoResult]
              /\ MakeReady(r)
              /\ UNCHANGED send_queue
           \/ /\ state[r] # "RECEIVE_BLOCKED"
              /\ state' = [state EXCEPT ![active] = "SEND_BLOCKED"]
              /\ x0' = [x0 EXCEPT ![active] = NoResult]
              /\ send_queue' = [send_queue EXCEPT ![r] = Append(@, active)]
              /\ UNCHANGED ready
  BY DEF Send
<1>2. r \in Slots /\ tid[r] = n /\ Exists(r) /\ priority[r] \in Priorities
  BY <1>1 DEF Named, PrioritiesKnown
<1>f. /\ \A u \in Slots : send_to'[u] = IF u = active THEN n ELSE send_to[u]
      /\ \A u \in Slots : ipc_receiver'[u] = IF u = active THEN r ELSE
           ipc_receiver[u]
  BY <1>0, <1>1 DEF TypeOK, TaskTypes, ListTypes, CoreTypes
<1>3. CASE state[r] = "RECEIVE_BLOCKED"
  <2>1. /\ state' = [state EXCEPT ![active] = "REPLY_BLOCKED",
                                  ![r] = "READY"]
        /\ x0' = [x0 EXCEPT ![r] = OK, ![active] = NoResult]
        /\ MakeReady(r)
        /\ UNCHANGED send_queue
        /\ r # active
    BY <1>0, <1>1, <1>3
  <2>2. /\ ready' \in [Priorities -> Seq(Slots)]
        /\ \A u \in Slots, p \in Priorities :
             u \in Members(ready'[p])
               <=> u \in Members(ready[p]) \/ (u = r /\ p = priority[r])
        /\ \A p \in Priorities : InjectiveSeq(ready'[p])
    BY <1>2, <1>3, <2>1, ReadyAppend
  <2>p. /\ \A u \in Slots : state'[u] = IF u = active THEN
             "REPLY_BLOCKED" ELSE IF u = r THEN "READY" ELSE state[u]
        /\ \A u \in Slots : x0'[u] = IF u = active THEN NoResult ELSE IF
             u = r THEN OK ELSE x0[u]
    BY <1>0, <1>2, <2>1 DEF TypeOK, TaskTypes, ListTypes, CoreTypes
  <2>u. send_queue' = send_queue /\ r # active
    BY <2>1
  <2>3. TypeOK'
    <3>1. TaskTypes'
      BY <1>0, <1>1, <1>2, <2>1, <2>2 DEF TypeOK, TaskTypes, CoreTypes,
           events, TaskState, Results
    <3>2. ListTypes'
      BY <1>0, <1>1, <1>2, <2>1, <2>2 DEF TypeOK, ListTypes, CoreTypes, events
    <3>3. CoreTypes'
      BY <1>0, <1>1, <1>2, <2>1, <2>2 DEF TypeOK, CoreTypes, events
    <3> QED BY <3>1, <3>2, <3>3 DEF TypeOK
  <2>4. ReadyListed'
    <3> SUFFICES ASSUME NEW u \in Slots, NEW a \in Priorities
                 PROVE  u \in Members(ready'[a])
                          <=> state'[u] = "READY" /\ priority'[u] = a
      BY DEF ReadyListed
    <3>1. u \in Members(ready[a]) <=> state[u] = "READY" /\ priority[u] = a
      BY DEF ReadyListed
    <3> QED BY <1>0, <1>2, <1>3, <1>f, <2>2, <2>p, <2>u, <3>1
  <2>5. SendersListed'
    <3> SUFFICES ASSUME NEW u \in Slots, NEW v \in Slots
                 PROVE  u \in Members(send_queue'[v])
                          <=> state'[u] = "SEND_BLOCKED" /\
                               ipc_receiver'[u] = v
      BY DEF SendersListed
    <3>1. u \in Members(send_queue[v])
            <=> state[u] = "SEND_BLOCKED" /\ ipc_receiver[u] = v
      BY DEF SendersListed
    <3> QED BY <1>0, <1>2, <1>3, <1>f, <2>2, <2>p, <2>u, <3>1
  <2>6. EventsListed'
    <3>1. \A u \in Slots :
            u \in Members(timer_wait')
              <=> state'[u] = "EVENT_BLOCKED" /\ event_type'[u] = Timer
      BY <1>0, <1>2, <1>3, <1>f, <2>2, <2>p, <2>u DEF EventsListed, events
    <3>2. \A u \in Slots, d \in IoKinds :
            u \in Members(io_wait'[d])
              <=> state'[u] = "EVENT_BLOCKED" /\ event_type'[u] = d
      BY <1>0, <1>2, <1>3, <1>f, <2>2, <2>p, <2>u DEF EventsListed, events
    <3> QED BY <3>1, <3>2 DEF EventsListed
  <2>7. ListedOnce'
    BY <1>0, <1>2, <1>3, <1>f, <2>2, <2>p, <2>u DEF ListedOnce, events
  <2>8. CallersHaveReceiver'
    <3> SUFFICES ASSUME NEW u \in Slots, Blocked(u)'
                 PROVE  /\ ipc_receiver'[u] \in Slots
                        /\ Exists(ipc_receiver[u])'
                        /\ tid'[ipc_receiver'[u]] = send_to'[u]
      BY DEF CallersHaveReceiver
    <3>1. Blocked(u) => /\ ipc_receiver[u] \in Slots
                        /\ Exists(ipc_receiver[u])
                        /\ tid[ipc_receiver[u]] = send_to[u]
      BY DEF CallersHaveReceiver
    <3> QED BY <1>0, <1>2, <1>3, <1>f, <2>2, <2>p, <2>u, <3>1 DEF
         Blocked, Exists
  <2>9. HighestPriorityRuns' /\ HaltsOnlyWhenStuck'
    BY <1>0, <1>2, <1>3, <1>f, <2>2, <2>p, <2>u DEF HighestPriorityRuns,
         HaltsOnlyWhenStuck
  <2>10. CallsComplete'
    BY <1>0, <1>2, <1>3, <1>f, <2>2, <2>p, <2>u DEF CallsComplete,
         NoResult, OK, PeerExited
  <2>11. ResultHeld'
    BY <1>0, <1>2, <1>3, <1>f, <2>2, <2>p, <2>u DEF ResultHeld, NoResult,
         OK, PeerExited
  <2>12. OneActive'
    BY <1>0, <1>2, <1>3, <1>f, <2>2, <2>p, <2>u DEF OneActive, NoTask
  <2>13. TidsUnique'
    BY <1>0, <1>2, <1>3, <1>f, <2>2, <2>p, <2>u DEF TidsUnique
  <2>14. PrioritiesKnown'
    BY <1>0, <1>2, <1>3, <1>f, <2>2, <2>p, <2>u DEF PrioritiesKnown, Exists
  <2>15. EventsNamed'
    BY <1>0, <1>2, <1>3, <1>f, <2>2, <2>p, <2>u DEF EventsNamed, events
  <2> QED BY <2>3, <2>4, <2>5, <2>6, <2>7, <2>8, <2>9, <2>10, <2>11,
       <2>12, <2>13, <2>14, <2>15
<1>4. CASE state[r] # "RECEIVE_BLOCKED"
  <2>1. /\ state' = [state EXCEPT ![active] = "SEND_BLOCKED"]
        /\ x0' = [x0 EXCEPT ![active] = NoResult]
        /\ send_queue' = [send_queue EXCEPT ![r] = Append(@, active)]
        /\ UNCHANGED ready
    BY <1>1, <1>4
  <2> DEFINE q == send_queue[r]
  <2>2. /\ Append(q, active) \in Seq(Slots)
        /\ \A x : x \in Members(Append(q, active)) <=> x \in Members(q)
             \/ x = active
        /\ InjectiveSeq(Append(q, active))
    <3>1. q \in Seq(Slots) /\ InjectiveSeq(q) /\ active \notin Members(q)
      BY <1>0, <1>2 DEF TypeOK, TaskTypes, ListTypes, CoreTypes,
           ListedOnce, SendersListed
    <3> HIDE DEF q
    <3> QED BY <1>0, <3>1, AppendLine
  <2>p. /\ \A u \in Slots : state'[u] = IF u = active THEN
             "SEND_BLOCKED" ELSE state[u]
        /\ \A u \in Slots : x0'[u] = IF u = active THEN NoResult ELSE x0[u]
        /\ \A u \in Slots : send_queue'[u] = IF u = r THEN Append(q,
             active) ELSE send_queue[u]
    BY <1>0, <1>2, <2>1 DEF TypeOK, TaskTypes, ListTypes, CoreTypes
  <2>u. ready' = ready
    BY <2>1
  <2> HIDE DEF q
  <2>3. TypeOK'
    <3>1. TaskTypes'
      BY <1>0, <1>1, <1>2, <2>1, <2>2 DEF TypeOK, TaskTypes, CoreTypes,
           events, TaskState, Results
    <3>2. ListTypes'
      BY <1>0, <1>1, <1>2, <2>1, <2>2 DEF TypeOK, ListTypes, CoreTypes, events
    <3>3. CoreTypes'
      BY <1>0, <1>1, <1>2, <2>1, <2>2 DEF TypeOK, CoreTypes, events
    <3> QED BY <3>1, <3>2, <3>3 DEF TypeOK
  <2>4. ReadyListed'
    <3> SUFFICES ASSUME NEW u \in Slots, NEW a \in Priorities
                 PROVE  u \in Members(ready'[a])
                          <=> state'[u] = "READY" /\ priority'[u] = a
      BY DEF ReadyListed
    <3>1. u \in Members(ready[a]) <=> state[u] = "READY" /\ priority[u] = a
      BY DEF ReadyListed
    <3> QED BY <1>0, <1>2, <1>4, <1>f, <2>2, <2>p, <2>u, <3>1
  <2>5. SendersListed'
    <3> SUFFICES ASSUME NEW u \in Slots, NEW v \in Slots
                 PROVE  u \in Members(send_queue'[v])
                          <=> state'[u] = "SEND_BLOCKED" /\
                               ipc_receiver'[u] = v
      BY DEF SendersListed
    <3>1. u \in Members(send_queue'[v])
            <=> u \in Members(send_queue[v]) \/ (v = r /\ u = active)
      BY <2>2, <2>p DEF q
    <3>2. u \in Members(send_queue[v])
            <=> state[u] = "SEND_BLOCKED" /\ ipc_receiver[u] = v
      BY DEF SendersListed
    <3> QED BY <1>0, <1>f, <2>p, <3>1, <3>2
  <2>6. EventsListed'
    <3>1. \A u \in Slots :
            u \in Members(timer_wait')
              <=> state'[u] = "EVENT_BLOCKED" /\ event_type'[u] = Timer
      BY <1>0, <1>2, <1>4, <1>f, <2>2, <2>p, <2>u DEF EventsListed, events
    <3>2. \A u \in Slots, d \in IoKinds :
            u \in Members(io_wait'[d])
              <=> state'[u] = "EVENT_BLOCKED" /\ event_type'[u] = d
      BY <1>0, <1>2, <1>4, <1>f, <2>2, <2>p, <2>u DEF EventsListed, events
    <3> QED BY <3>1, <3>2 DEF EventsListed
  <2>7. ListedOnce'
    BY <1>0, <1>2, <1>4, <1>f, <2>2, <2>p, <2>u DEF ListedOnce, events
  <2>8. CallersHaveReceiver'
    <3> SUFFICES ASSUME NEW u \in Slots, Blocked(u)'
                 PROVE  /\ ipc_receiver'[u] \in Slots
                        /\ Exists(ipc_receiver[u])'
                        /\ tid'[ipc_receiver'[u]] = send_to'[u]
      BY DEF CallersHaveReceiver
    <3>1. Blocked(u) => /\ ipc_receiver[u] \in Slots
                        /\ Exists(ipc_receiver[u])
                        /\ tid[ipc_receiver[u]] = send_to[u]
      BY DEF CallersHaveReceiver
    <3> QED BY <1>0, <1>2, <1>4, <1>f, <2>2, <2>p, <2>u, <3>1 DEF
         Blocked, Exists
  <2>9. HighestPriorityRuns' /\ HaltsOnlyWhenStuck'
    BY <1>0, <1>2, <1>4, <1>f, <2>2, <2>p, <2>u DEF HighestPriorityRuns,
         HaltsOnlyWhenStuck
  <2>10. CallsComplete'
    BY <1>0, <1>2, <1>4, <1>f, <2>2, <2>p, <2>u DEF CallsComplete,
         NoResult, OK, PeerExited
  <2>11. ResultHeld'
    BY <1>0, <1>2, <1>4, <1>f, <2>2, <2>p, <2>u DEF ResultHeld, NoResult,
         OK, PeerExited
  <2>12. OneActive'
    BY <1>0, <1>2, <1>4, <1>f, <2>2, <2>p, <2>u DEF OneActive, NoTask
  <2>13. TidsUnique'
    BY <1>0, <1>2, <1>4, <1>f, <2>2, <2>p, <2>u DEF TidsUnique
  <2>14. PrioritiesKnown'
    BY <1>0, <1>2, <1>4, <1>f, <2>2, <2>p, <2>u DEF PrioritiesKnown, Exists
  <2>15. EventsNamed'
    BY <1>0, <1>2, <1>4, <1>f, <2>2, <2>p, <2>u DEF EventsNamed, events
  <2> QED BY <2>3, <2>4, <2>5, <2>6, <2>7, <2>8, <2>9, <2>10, <2>11,
       <2>12, <2>13, <2>14, <2>15
<1> QED BY <1>3, <1>4

\* Reply wakes a caller that is in no queue.
LEMMA ReplyInv ==
  ASSUME KernelInv, NEW n \in Nat, Reply(n)
  PROVE  KernelInv'
<1> USE DEF KernelInv, QueueDiscipline
<1>0. /\ active \in Slots /\ state[active] = "ACTIVE" /\ kpc = "user"
      /\ kpc' = "requeue" /\ active' = active
      /\ UNCHANGED <<tid, parent_tid, priority, send_queue, events, io_ready,
           active, next_tid>>
  BY DEF Reply, TypeOK, TaskTypes, ListTypes, CoreTypes, OneActive, NoTask
<1>1. PICK s \in Named(n) :
        /\ AwaitsReplyFrom(s, active)
        /\ x0' = [x0 EXCEPT ![s] = OK, ![active] = OK]
        /\ ipc_receiver' = [ipc_receiver EXCEPT ![s] = NoTask]
        /\ send_to' = [send_to EXCEPT ![s] = 0]
        /\ state' = [state EXCEPT ![s] = "READY"]
        /\ MakeReady(s)
  BY DEF Reply
<1>2. /\ s \in Slots /\ priority[s] \in Priorities
      /\ state[s] = "REPLY_BLOCKED" /\ s # active
  BY <1>0, <1>1 DEF Named, AwaitsReplyFrom, PrioritiesKnown
<1>3. /\ ready' \in [Priorities -> Seq(Slots)]
      /\ \A u \in Slots, p \in Priorities :
           u \in Members(ready'[p])
             <=> u \in Members(ready[p]) \/ (u = s /\ p = priority[s])
      /\ \A p \in Priorities : InjectiveSeq(ready'[p])
  BY <1>1, <1>2, ReadyAppend
<1>p. /\ \A u \in Slots : state'[u] = IF u = s THEN "READY" ELSE state[u]
      /\ \A u \in Slots : x0'[u] = IF u \in {s, active} THEN OK ELSE x0[u]
      /\ \A u \in Slots : ipc_receiver'[u] = IF u = s THEN NoTask ELSE
           ipc_receiver[u]
      /\ \A u \in Slots : send_to'[u] = IF u = s THEN 0 ELSE send_to[u]
  BY <1>0, <1>1, <1>2 DEF TypeOK, TaskTypes, ListTypes, CoreTypes
<1>4. TypeOK'
  <2>1. TaskTypes'
    BY <1>0, <1>1, <1>2, <1>3 DEF TypeOK, TaskTypes, CoreTypes, events,
         TaskState, Results
  <2>2. ListTypes'
    BY <1>0, <1>1, <1>2, <1>3 DEF TypeOK, ListTypes, CoreTypes, events
  <2>3. CoreTypes'
    BY <1>0, <1>1, <1>2, <1>3 DEF TypeOK, CoreTypes, events
  <2> QED BY <2>1, <2>2, <2>3 DEF TypeOK
<1>5. ReadyListed'
  <2> SUFFICES ASSUME NEW u \in Slots, NEW a \in Priorities
               PROVE  u \in Members(ready'[a])
                        <=> state'[u] = "READY" /\ priority'[u] = a
    BY DEF ReadyListed
  <2>1. u \in Members(ready[a]) <=> state[u] = "READY" /\ priority[u] = a
    BY DEF ReadyListed
  <2> QED BY <1>0, <1>2, <1>3, <1>p, <2>1
<1>6. SendersListed'
  <2> SUFFICES ASSUME NEW u \in Slots, NEW v \in Slots
               PROVE  u \in Members(send_queue'[v])
                        <=> state'[u] = "SEND_BLOCKED" /\ ipc_receiver'[u] = v
    BY DEF SendersListed
  <2>1. u \in Members(send_queue[v])
          <=> state[u] = "SEND_BLOCKED" /\ ipc_receiver[u] = v
    BY DEF SendersListed
  <2> QED BY <1>0, <1>2, <1>3, <1>p, <2>1
<1>7. EventsListed'
  <2>1. \A u \in Slots :
          u \in Members(timer_wait')
            <=> state'[u] = "EVENT_BLOCKED" /\ event_type'[u] = Timer
    BY <1>0, <1>2, <1>3, <1>p DEF EventsListed, events
  <2>2. \A u \in Slots, d \in IoKinds :
          u \in Members(io_wait'[d])
            <=> state'[u] = "EVENT_BLOCKED" /\ event_type'[u] = d
    BY <1>0, <1>2, <1>3, <1>p DEF EventsListed, events
  <2> QED BY <2>1, <2>2 DEF EventsListed
<1>8. ListedOnce'
  BY <1>0, <1>2, <1>3, <1>p DEF ListedOnce, events
<1>9. CallersHaveReceiver'
  <2> SUFFICES ASSUME NEW u \in Slots, Blocked(u)'
               PROVE  /\ ipc_receiver'[u] \in Slots
                      /\ Exists(ipc_receiver[u])'
                      /\ tid'[ipc_receiver'[u]] = send_to'[u]
    BY DEF CallersHaveReceiver
  <2>1. Blocked(u) => /\ ipc_receiver[u] \in Slots
                      /\ Exists(ipc_receiver[u])
                      /\ tid[ipc_receiver[u]] = send_to[u]
    BY DEF CallersHaveReceiver
  <2> QED BY <1>0, <1>2, <1>3, <1>p, <2>1 DEF Blocked, Exists
<1>10. HighestPriorityRuns' /\ HaltsOnlyWhenStuck'
  BY <1>0, <1>2, <1>3, <1>p DEF HighestPriorityRuns, HaltsOnlyWhenStuck
<1>11. CallsComplete'
  BY <1>0, <1>2, <1>3, <1>p DEF CallsComplete, NoResult, OK, PeerExited
<1>12. ResultHeld'
  BY <1>0, <1>2, <1>3, <1>p DEF ResultHeld, NoResult, OK, PeerExited
<1>13. OneActive'
  BY <1>0, <1>2, <1>3, <1>p DEF OneActive, NoTask
<1>14. TidsUnique'
  BY <1>0, <1>2, <1>3, <1>p DEF TidsUnique
<1>15. PrioritiesKnown'
  BY <1>0, <1>2, <1>3, <1>p DEF PrioritiesKnown, Exists
<1>16. EventsNamed'
  BY <1>0, <1>2, <1>3, <1>p DEF EventsNamed, events
<1> QED BY <1>4, <1>5, <1>6, <1>7, <1>8, <1>9, <1>10, <1>11, <1>12,
     <1>13, <1>14, <1>15, <1>16

\* AwaitEvent(EVENT_TIMER) inserts the caller somewhere in the timer list.
LEMMA AwaitTimerInv ==
  ASSUME KernelInv, AwaitTimer
  PROVE  KernelInv'
<1> USE DEF KernelInv, QueueDiscipline
<1>0. /\ active \in Slots /\ state[active] = "ACTIVE" /\ kpc = "user"
      /\ kpc' = "requeue" /\ active' = active
      /\ UNCHANGED <<tid, parent_tid, priority, send_to, ipc_receiver,
           send_queue, ready, io_wait, io_ready, next_tid>>
  BY DEF AwaitTimer, TypeOK, TaskTypes, ListTypes, CoreTypes, OneActive,
       NoTask
<1>1. /\ state' = [state EXCEPT ![active] = "EVENT_BLOCKED"]
      /\ event_type' = [event_type EXCEPT ![active] = Timer]
      /\ wakeup' = [wakeup EXCEPT ![active] = TimerPeriod]
      /\ x0' = [x0 EXCEPT ![active] = NoResult]
  BY DEF AwaitTimer
<1>2. /\ timer_wait' \in Seq(Slots)
      /\ \A x : x \in Members(timer_wait')
                  <=> x \in Members(timer_wait) \/ x = active
      /\ InjectiveSeq(timer_wait')
  <2>1. PICK k \in 0 .. Len(timer_wait) :
          timer_wait' = SubSeq(timer_wait, 1, k) \o <<active>>
                          \o SubSeq(timer_wait, k + 1, Len(timer_wait))
    BY DEF AwaitTimer, InsertByWakeup
  <2>2. /\ timer_wait \in Seq(Slots) /\ InjectiveSeq(timer_wait)
        /\ active \notin Members(timer_wait)
    BY <1>0 DEF TypeOK, TaskTypes, ListTypes, CoreTypes, ListedOnce,
         EventsListed
  <2> QED BY <1>0, <2>1, <2>2, InsertLine
<1>p. /\ \A u \in Slots : state'[u] = IF u = active THEN
           "EVENT_BLOCKED" ELSE state[u]
      /\ \A u \in Slots : event_type'[u] = IF u = active THEN Timer ELSE
           event_type[u]
      /\ \A u \in Slots : x0'[u] = IF u = active THEN NoResult ELSE x0[u]
  BY <1>0, <1>1 DEF TypeOK, TaskTypes, ListTypes, CoreTypes
<1>t. Timer \notin IoKinds /\ Timer # NoEvent
  BY DEF Timer, IoKinds, NoEvent
<1>3. TypeOK'
  <2>1. TaskTypes'
    BY <1>0, <1>1, <1>2, KernelAssumption DEF TypeOK, TaskTypes,
         CoreTypes, events, TaskState, Results
  <2>2. ListTypes'
    BY <1>0, <1>1, <1>2, KernelAssumption DEF TypeOK, ListTypes,
         CoreTypes, events
  <2>3. CoreTypes'
    BY <1>0, <1>1, <1>2, KernelAssumption DEF TypeOK, CoreTypes, events
  <2> QED BY <2>1, <2>2, <2>3 DEF TypeOK
<1>4. ReadyListed'
  <2> SUFFICES ASSUME NEW u \in Slots, NEW a \in Priorities
               PROVE  u \in Members(ready'[a])
                        <=> state'[u] = "READY" /\ priority'[u] = a
    BY DEF ReadyListed
  <2>1. u \in Members(ready[a]) <=> state[u] = "READY" /\ priority[u] = a
    BY DEF ReadyListed
  <2> QED BY <1>0, <1>2, <1>p, <1>t, <2>1
<1>5. SendersListed'
  <2> SUFFICES ASSUME NEW u \in Slots, NEW v \in Slots
               PROVE  u \in Members(send_queue'[v])
                        <=> state'[u] = "SEND_BLOCKED" /\ ipc_receiver'[u] = v
    BY DEF SendersListed
  <2>1. u \in Members(send_queue[v])
          <=> state[u] = "SEND_BLOCKED" /\ ipc_receiver[u] = v
    BY DEF SendersListed
  <2> QED BY <1>0, <1>2, <1>p, <1>t, <2>1
<1>6. EventsListed'
  <2>1. \A u \in Slots :
          u \in Members(timer_wait')
            <=> state'[u] = "EVENT_BLOCKED" /\ event_type'[u] = Timer
    BY <1>0, <1>2, <1>p, <1>t DEF EventsListed, events
  <2>2. \A u \in Slots, d \in IoKinds :
          u \in Members(io_wait'[d])
            <=> state'[u] = "EVENT_BLOCKED" /\ event_type'[u] = d
    BY <1>0, <1>2, <1>p, <1>t DEF EventsListed, events
  <2> QED BY <2>1, <2>2 DEF EventsListed
<1>7. ListedOnce'
  BY <1>0, <1>2, <1>p, <1>t DEF ListedOnce, events
<1>8. CallersHaveReceiver'
  <2> SUFFICES ASSUME NEW u \in Slots, Blocked(u)'
               PROVE  /\ ipc_receiver'[u] \in Slots
                      /\ Exists(ipc_receiver[u])'
                      /\ tid'[ipc_receiver'[u]] = send_to'[u]
    BY DEF CallersHaveReceiver
  <2>1. Blocked(u) => /\ ipc_receiver[u] \in Slots
                      /\ Exists(ipc_receiver[u])
                      /\ tid[ipc_receiver[u]] = send_to[u]
    BY DEF CallersHaveReceiver
  <2> QED BY <1>0, <1>2, <1>p, <1>t, <2>1 DEF Blocked, Exists
<1>9. HighestPriorityRuns' /\ HaltsOnlyWhenStuck'
  BY <1>0, <1>2, <1>p, <1>t DEF HighestPriorityRuns, HaltsOnlyWhenStuck
<1>10. CallsComplete'
  BY <1>0, <1>2, <1>p, <1>t DEF CallsComplete, NoResult, OK, PeerExited
<1>11. ResultHeld'
  BY <1>0, <1>2, <1>p, <1>t DEF ResultHeld, NoResult, OK, PeerExited
<1>12. OneActive'
  BY <1>0, <1>2, <1>p, <1>t DEF OneActive, NoTask
<1>13. TidsUnique'
  BY <1>0, <1>2, <1>p, <1>t DEF TidsUnique
<1>14. PrioritiesKnown'
  BY <1>0, <1>2, <1>p, <1>t DEF PrioritiesKnown, Exists
<1>15. EventsNamed'
  BY <1>0, <1>2, <1>p, <1>t DEF EventsNamed, events
<1> QED BY <1>3, <1>4, <1>5, <1>6, <1>7, <1>8, <1>9, <1>10, <1>11, <1>12,
     <1>13, <1>14, <1>15

\* AwaitEvent for a UART event returns, or pushes the caller in front.
LEMMA AwaitIoInv ==
  ASSUME KernelInv, NEW e \in IoKinds, AwaitIo(e)
  PROVE  KernelInv'
<1> USE DEF KernelInv, QueueDiscipline
<1>0. /\ active \in Slots /\ state[active] = "ACTIVE" /\ kpc = "user"
      /\ kpc' = "requeue" /\ active' = active
      /\ UNCHANGED <<tid, parent_tid, priority, send_to, ipc_receiver,
           send_queue, ready, timer_wait, io_ready, next_tid>>
  BY DEF AwaitIo, TypeOK, TaskTypes, ListTypes, CoreTypes, OneActive, NoTask
<1>1. CASE io_ready[e]
  <2>1. /\ OK \in Results \ {NoResult} /\ Return(OK)
        /\ UNCHANGED <<tcb, send_to, ipc_receiver, send_queue, events, ready,
                       io_ready, active, next_tid>>
    BY <1>0, <1>1 DEF AwaitIo, Return, tcb, events, Results, OK, NoResult
  <2> QED BY <1>0, <2>1, QuietReturn
<1>2. CASE ~io_ready[e]
  <2>1. /\ state' = [state EXCEPT ![active] = "EVENT_BLOCKED"]
        /\ event_type' = [event_type EXCEPT ![active] = e]
        /\ wakeup' = [wakeup EXCEPT ![active] = 0]
        /\ io_wait' = [io_wait EXCEPT ![e] = <<active>> \o @]
        /\ x0' = [x0 EXCEPT ![active] = NoResult]
    BY <1>2 DEF AwaitIo
  <2> DEFINE q == io_wait[e]
             r == <<active>> \o q
  <2>2. /\ r \in Seq(Slots)
        /\ \A x : x \in Members(r) <=> x \in Members(q) \/ x = active
        /\ InjectiveSeq(r)
    <3>1. q \in Seq(Slots) /\ InjectiveSeq(q) /\ active \notin Members(q)
      BY <1>0 DEF TypeOK, TaskTypes, ListTypes, CoreTypes, ListedOnce,
           EventsListed
    <3>2. r = SubSeq(q, 1, 0) \o <<active>> \o SubSeq(q, 0 + 1, Len(q))
      BY <3>1, SubSeqEmpty, SubSeqFull, <1>0, ConcatEmptySeq
    <3>3. 0 \in 0 .. Len(q)
      BY <3>1, LenProperties
    <3> HIDE DEF q, r
    <3> QED BY <1>0, <3>1, <3>2, <3>3, InsertLine
  <2>p. /\ \A u \in Slots : state'[u] = IF u = active THEN
             "EVENT_BLOCKED" ELSE state[u]
        /\ \A u \in Slots : event_type'[u] = IF u = active THEN e ELSE
             event_type[u]
        /\ \A u \in Slots : x0'[u] = IF u = active THEN NoResult ELSE x0[u]
        /\ \A d \in IoKinds : io_wait'[d] = IF d = e THEN r ELSE io_wait[d]
    BY <1>0, <2>1 DEF TypeOK, TaskTypes, ListTypes, CoreTypes
  <2>t. e # Timer /\ e # NoEvent
    BY DEF Timer, IoKinds, NoEvent
  <2>i. io_wait' = [io_wait EXCEPT ![e] = r]
    BY <2>1
  <2> HIDE DEF r
  <2>3. TypeOK'
    <3>1. TaskTypes'
      BY <1>0, <2>1, <2>2, <2>i DEF TypeOK, TaskTypes, CoreTypes, events,
           TaskState, Results
    <3>2. ListTypes'
      BY <1>0, <2>1, <2>2, <2>i DEF TypeOK, ListTypes, CoreTypes, events
    <3>3. CoreTypes'
      BY <1>0, <2>1, <2>2, <2>i DEF TypeOK, CoreTypes, events
    <3> QED BY <3>1, <3>2, <3>3 DEF TypeOK
  <2>4. ReadyListed'
    <3> SUFFICES ASSUME NEW u \in Slots, NEW a \in Priorities
                 PROVE  u \in Members(ready'[a])
                          <=> state'[u] = "READY" /\ priority'[u] = a
      BY DEF ReadyListed
    <3>1. u \in Members(ready[a]) <=> state[u] = "READY" /\ priority[u] = a
      BY DEF ReadyListed
    <3> QED BY <1>0, <2>2, <2>p, <2>t, <3>1
  <2>5. SendersListed'
    <3> SUFFICES ASSUME NEW u \in Slots, NEW v \in Slots
                 PROVE  u \in Members(send_queue'[v])
                          <=> state'[u] = "SEND_BLOCKED" /\
                               ipc_receiver'[u] = v
      BY DEF SendersListed
    <3>1. u \in Members(send_queue[v])
            <=> state[u] = "SEND_BLOCKED" /\ ipc_receiver[u] = v
      BY DEF SendersListed
    <3> QED BY <1>0, <2>2, <2>p, <2>t, <3>1
  <2>6. EventsListed'
    <3>1. \A u \in Slots :
            u \in Members(timer_wait')
              <=> state'[u] = "EVENT_BLOCKED" /\ event_type'[u] = Timer
      BY <1>0, <2>2, <2>p, <2>t DEF EventsListed, events
    <3>2. \A u \in Slots, d \in IoKinds :
            u \in Members(io_wait'[d])
              <=> state'[u] = "EVENT_BLOCKED" /\ event_type'[u] = d
      BY <1>0, <2>2, <2>p, <2>t DEF EventsListed, events
    <3> QED BY <3>1, <3>2 DEF EventsListed
  <2>7. ListedOnce'
    BY <1>0, <2>2, <2>p, <2>t DEF ListedOnce, events
  <2>8. CallersHaveReceiver'
    <3> SUFFICES ASSUME NEW u \in Slots, Blocked(u)'
                 PROVE  /\ ipc_receiver'[u] \in Slots
                        /\ Exists(ipc_receiver[u])'
                        /\ tid'[ipc_receiver'[u]] = send_to'[u]
      BY DEF CallersHaveReceiver
    <3>1. Blocked(u) => /\ ipc_receiver[u] \in Slots
                        /\ Exists(ipc_receiver[u])
                        /\ tid[ipc_receiver[u]] = send_to[u]
      BY DEF CallersHaveReceiver
    <3> QED BY <1>0, <2>2, <2>p, <2>t, <3>1 DEF Blocked, Exists
  <2>9. HighestPriorityRuns' /\ HaltsOnlyWhenStuck'
    BY <1>0, <2>2, <2>p, <2>t DEF HighestPriorityRuns, HaltsOnlyWhenStuck
  <2>10. CallsComplete'
    BY <1>0, <2>2, <2>p, <2>t DEF CallsComplete, NoResult, OK, PeerExited
  <2>11. ResultHeld'
    BY <1>0, <2>2, <2>p, <2>t DEF ResultHeld, NoResult, OK, PeerExited
  <2>12. OneActive'
    BY <1>0, <2>2, <2>p, <2>t DEF OneActive, NoTask
  <2>13. TidsUnique'
    BY <1>0, <2>2, <2>p, <2>t DEF TidsUnique
  <2>14. PrioritiesKnown'
    BY <1>0, <2>2, <2>p, <2>t DEF PrioritiesKnown, Exists
  <2>15. EventsNamed'
    BY <1>0, <2>2, <2>p, <2>t DEF EventsNamed, events
  <2> QED BY <2>3, <2>4, <2>5, <2>6, <2>7, <2>8, <2>9, <2>10, <2>11,
       <2>12, <2>13, <2>14, <2>15
<1> QED BY <1>1, <1>2

\* One caller leaves the send queue of the exiting task.
LEMMA ExitAbortQueuedInv ==
  ASSUME KernelInv, ExitAbortQueued
  PROVE  KernelInv'
<1> USE DEF KernelInv, QueueDiscipline
<1> DEFINE q == send_queue[active]
           w == Head(q)
<1>0. /\ active \in Slots /\ state[active] = "ACTIVE" /\ kpc = "exit"
      /\ kpc' = "exit" /\ active' = active /\ q # <<>>
      /\ UNCHANGED <<tid, parent_tid, priority, events, io_ready, next_tid>>
  BY DEF ExitAbortQueued, TypeOK, TaskTypes, ListTypes, CoreTypes,
       OneActive, NoTask
<1>1. /\ x0' = [x0 EXCEPT ![w] = PeerExited]
      /\ ipc_receiver' = [ipc_receiver EXCEPT ![w] = NoTask]
      /\ send_to' = [send_to EXCEPT ![w] = 0]
      /\ state' = [state EXCEPT ![w] = "READY"]
      /\ MakeReady(w)
      /\ send_queue' = [send_queue EXCEPT ![active] = Tail(q)]
  BY DEF ExitAbortQueued, Abort
<1>2. /\ Tail(q) \in Seq(Slots)
      /\ w \in Slots
      /\ w \in Members(q)
      /\ \A x : x \in Members(Tail(q)) <=> x \in Members(q) /\ x # w
      /\ InjectiveSeq(Tail(q))
  BY <1>0, TailLine DEF TypeOK, TaskTypes, ListTypes, CoreTypes, ListedOnce
<1>3. /\ state[w] = "SEND_BLOCKED" /\ ipc_receiver[w] = active
      /\ priority[w] \in Priorities /\ w # active
  BY <1>0, <1>2 DEF SendersListed, PrioritiesKnown, Exists
<1> HIDE DEF w
<1>4. /\ ready' \in [Priorities -> Seq(Slots)]
      /\ \A u \in Slots, p \in Priorities :
           u \in Members(ready'[p])
             <=> u \in Members(ready[p]) \/ (u = w /\ p = priority[w])
      /\ \A p \in Priorities : InjectiveSeq(ready'[p])
  BY <1>1, <1>2, <1>3, ReadyAppend
<1>p. /\ \A u \in Slots : state'[u] = IF u = w THEN "READY" ELSE state[u]
      /\ \A u \in Slots : x0'[u] = IF u = w THEN PeerExited ELSE x0[u]
      /\ \A u \in Slots : ipc_receiver'[u] = IF u = w THEN NoTask ELSE
           ipc_receiver[u]
      /\ \A u \in Slots : send_to'[u] = IF u = w THEN 0 ELSE send_to[u]
      /\ \A u \in Slots : send_queue'[u] = IF u = active THEN Tail(q)
           ELSE send_queue[u]
  BY <1>0, <1>1, <1>2 DEF TypeOK, TaskTypes, ListTypes, CoreTypes
<1>5. TypeOK'
  <2>1. TaskTypes'
    BY <1>0, <1>1, <1>2, <1>4 DEF TypeOK, TaskTypes, CoreTypes, events,
         TaskState, Results
  <2>2. ListTypes'
    BY <1>0, <1>1, <1>2, <1>4 DEF TypeOK, ListTypes, CoreTypes, events
  <2>3. CoreTypes'
    BY <1>0, <1>1, <1>2, <1>4 DEF TypeOK, CoreTypes, events
  <2> QED BY <2>1, <2>2, <2>3 DEF TypeOK
<1>6. ReadyListed'
  <2> SUFFICES ASSUME NEW u \in Slots, NEW a \in Priorities
               PROVE  u \in Members(ready'[a])
                        <=> state'[u] = "READY" /\ priority'[u] = a
    BY DEF ReadyListed
  <2>1. u \in Members(ready[a]) <=> state[u] = "READY" /\ priority[u] = a
    BY DEF ReadyListed
  <2> QED BY <1>0, <1>2, <1>3, <1>4, <1>p, <2>1
<1>7. SendersListed'
  <2> SUFFICES ASSUME NEW u \in Slots, NEW v \in Slots
               PROVE  u \in Members(send_queue'[v])
                        <=> state'[u] = "SEND_BLOCKED" /\ ipc_receiver'[u] = v
    BY DEF SendersListed
  <2>1. u \in Members(send_queue[v])
          <=> state[u] = "SEND_BLOCKED" /\ ipc_receiver[u] = v
    BY DEF SendersListed
  <2> QED BY <1>0, <1>2, <1>3, <1>4, <1>p, <2>1
<1>8. EventsListed'
  <2>1. \A u \in Slots :
          u \in Members(timer_wait')
            <=> state'[u] = "EVENT_BLOCKED" /\ event_type'[u] = Timer
    BY <1>0, <1>2, <1>3, <1>4, <1>p DEF EventsListed, events
  <2>2. \A u \in Slots, d \in IoKinds :
          u \in Members(io_wait'[d])
            <=> state'[u] = "EVENT_BLOCKED" /\ event_type'[u] = d
    BY <1>0, <1>2, <1>3, <1>4, <1>p DEF EventsListed, events
  <2> QED BY <2>1, <2>2 DEF EventsListed
<1>9. ListedOnce'
  BY <1>0, <1>2, <1>3, <1>4, <1>p DEF ListedOnce, events
<1>10. CallersHaveReceiver'
  <2> SUFFICES ASSUME NEW u \in Slots, Blocked(u)'
               PROVE  /\ ipc_receiver'[u] \in Slots
                      /\ Exists(ipc_receiver[u])'
                      /\ tid'[ipc_receiver'[u]] = send_to'[u]
    BY DEF CallersHaveReceiver
  <2>1. Blocked(u) => /\ ipc_receiver[u] \in Slots
                      /\ Exists(ipc_receiver[u])
                      /\ tid[ipc_receiver[u]] = send_to[u]
    BY DEF CallersHaveReceiver
  <2> QED BY <1>0, <1>2, <1>3, <1>4, <1>p, <2>1 DEF Blocked, Exists
<1>11. HighestPriorityRuns' /\ HaltsOnlyWhenStuck'
  BY <1>0, <1>2, <1>3, <1>4, <1>p DEF HighestPriorityRuns, HaltsOnlyWhenStuck
<1>12. CallsComplete'
  BY <1>0, <1>2, <1>3, <1>4, <1>p DEF CallsComplete, NoResult, OK, PeerExited
<1>13. ResultHeld'
  BY <1>0, <1>2, <1>3, <1>4, <1>p DEF ResultHeld, NoResult, OK, PeerExited
<1>14. OneActive'
  BY <1>0, <1>2, <1>3, <1>4, <1>p DEF OneActive, NoTask
<1>15. TidsUnique'
  BY <1>0, <1>2, <1>3, <1>4, <1>p DEF TidsUnique
<1>16. PrioritiesKnown'
  BY <1>0, <1>2, <1>3, <1>4, <1>p DEF PrioritiesKnown, Exists
<1>17. EventsNamed'
  BY <1>0, <1>2, <1>3, <1>4, <1>p DEF EventsNamed, events
<1> QED BY <1>5, <1>6, <1>7, <1>8, <1>9, <1>10, <1>11, <1>12, <1>13,
     <1>14, <1>15, <1>16, <1>17

\* One caller the exiting task had received from.
LEMMA ExitAbortDeliveredInv ==
  ASSUME KernelInv, ExitAbortDelivered
  PROVE  KernelInv'
<1> USE DEF KernelInv, QueueDiscipline
<1>0. /\ active \in Slots /\ state[active] = "ACTIVE" /\ kpc = "exit"
      /\ kpc' = "exit" /\ active' = active /\ send_queue[active] = <<>>
      /\ UNCHANGED <<tid, parent_tid, priority, send_queue, events, io_ready,
           next_tid>>
  BY DEF ExitAbortDelivered, TypeOK, TaskTypes, ListTypes, CoreTypes,
       OneActive, NoTask
<1>1. PICK w \in Owed(active) :
        /\ x0' = [x0 EXCEPT ![w] = PeerExited]
        /\ ipc_receiver' = [ipc_receiver EXCEPT ![w] = NoTask]
        /\ send_to' = [send_to EXCEPT ![w] = 0]
        /\ state' = [state EXCEPT ![w] = "READY"]
        /\ MakeReady(w)
  BY DEF ExitAbortDelivered, Abort
<1>2. /\ w \in Slots /\ w # active /\ Blocked(w) /\ ipc_receiver[w] = active
      /\ priority[w] \in Priorities
  BY <1>1 DEF Owed, PrioritiesKnown, Exists, Blocked
<1>3. state[w] = "REPLY_BLOCKED"
  BY <1>0, <1>2, NoMembers DEF SendersListed, Blocked
<1>4. /\ ready' \in [Priorities -> Seq(Slots)]
      /\ \A u \in Slots, p \in Priorities :
           u \in Members(ready'[p])
             <=> u \in Members(ready[p]) \/ (u = w /\ p = priority[w])
      /\ \A p \in Priorities : InjectiveSeq(ready'[p])
  BY <1>1, <1>2, <1>3, ReadyAppend
<1>p. /\ \A u \in Slots : state'[u] = IF u = w THEN "READY" ELSE state[u]
      /\ \A u \in Slots : x0'[u] = IF u = w THEN PeerExited ELSE x0[u]
      /\ \A u \in Slots : ipc_receiver'[u] = IF u = w THEN NoTask ELSE
           ipc_receiver[u]
      /\ \A u \in Slots : send_to'[u] = IF u = w THEN 0 ELSE send_to[u]
  BY <1>0, <1>1, <1>2 DEF TypeOK, TaskTypes, ListTypes, CoreTypes
<1>5. TypeOK'
  <2>1. TaskTypes'
    BY <1>0, <1>1, <1>2, <1>4 DEF TypeOK, TaskTypes, CoreTypes, events,
         TaskState, Results
  <2>2. ListTypes'
    BY <1>0, <1>1, <1>2, <1>4 DEF TypeOK, ListTypes, CoreTypes, events
  <2>3. CoreTypes'
    BY <1>0, <1>1, <1>2, <1>4 DEF TypeOK, CoreTypes, events
  <2> QED BY <2>1, <2>2, <2>3 DEF TypeOK
<1>6. ReadyListed'
  <2> SUFFICES ASSUME NEW u \in Slots, NEW a \in Priorities
               PROVE  u \in Members(ready'[a])
                        <=> state'[u] = "READY" /\ priority'[u] = a
    BY DEF ReadyListed
  <2>1. u \in Members(ready[a]) <=> state[u] = "READY" /\ priority[u] = a
    BY DEF ReadyListed
  <2> QED BY <1>0, <1>2, <1>3, <1>4, <1>p, <2>1
<1>7. SendersListed'
  <2> SUFFICES ASSUME NEW u \in Slots, NEW v \in Slots
               PROVE  u \in Members(send_queue'[v])
                        <=> state'[u] = "SEND_BLOCKED" /\ ipc_receiver'[u] = v
    BY DEF SendersListed
  <2>1. u \in Members(send_queue[v])
          <=> state[u] = "SEND_BLOCKED" /\ ipc_receiver[u] = v
    BY DEF SendersListed
  <2> QED BY <1>0, <1>2, <1>3, <1>4, <1>p, <2>1
<1>8. EventsListed'
  <2>1. \A u \in Slots :
          u \in Members(timer_wait')
            <=> state'[u] = "EVENT_BLOCKED" /\ event_type'[u] = Timer
    BY <1>0, <1>2, <1>3, <1>4, <1>p DEF EventsListed, events
  <2>2. \A u \in Slots, d \in IoKinds :
          u \in Members(io_wait'[d])
            <=> state'[u] = "EVENT_BLOCKED" /\ event_type'[u] = d
    BY <1>0, <1>2, <1>3, <1>4, <1>p DEF EventsListed, events
  <2> QED BY <2>1, <2>2 DEF EventsListed
<1>9. ListedOnce'
  BY <1>0, <1>2, <1>3, <1>4, <1>p DEF ListedOnce, events
<1>10. CallersHaveReceiver'
  <2> SUFFICES ASSUME NEW u \in Slots, Blocked(u)'
               PROVE  /\ ipc_receiver'[u] \in Slots
                      /\ Exists(ipc_receiver[u])'
                      /\ tid'[ipc_receiver'[u]] = send_to'[u]
    BY DEF CallersHaveReceiver
  <2>1. Blocked(u) => /\ ipc_receiver[u] \in Slots
                      /\ Exists(ipc_receiver[u])
                      /\ tid[ipc_receiver[u]] = send_to[u]
    BY DEF CallersHaveReceiver
  <2> QED BY <1>0, <1>2, <1>3, <1>4, <1>p, <2>1 DEF Blocked, Exists
<1>11. HighestPriorityRuns' /\ HaltsOnlyWhenStuck'
  BY <1>0, <1>2, <1>3, <1>4, <1>p DEF HighestPriorityRuns, HaltsOnlyWhenStuck
<1>12. CallsComplete'
  BY <1>0, <1>2, <1>3, <1>4, <1>p DEF CallsComplete, NoResult, OK, PeerExited
<1>13. ResultHeld'
  BY <1>0, <1>2, <1>3, <1>4, <1>p DEF ResultHeld, NoResult, OK, PeerExited
<1>14. OneActive'
  BY <1>0, <1>2, <1>3, <1>4, <1>p DEF OneActive, NoTask
<1>15. TidsUnique'
  BY <1>0, <1>2, <1>3, <1>4, <1>p DEF TidsUnique
<1>16. PrioritiesKnown'
  BY <1>0, <1>2, <1>3, <1>4, <1>p DEF PrioritiesKnown, Exists
<1>17. EventsNamed'
  BY <1>0, <1>2, <1>3, <1>4, <1>p DEF EventsNamed, events
<1> QED BY <1>5, <1>6, <1>7, <1>8, <1>9, <1>10, <1>11, <1>12, <1>13,
     <1>14, <1>15, <1>16, <1>17

\* Exit frees a descriptor that owns no transaction.
LEMMA ExitFinishInv ==
  ASSUME KernelInv, ExitFinish
  PROVE  KernelInv'
<1> USE DEF KernelInv, QueueDiscipline
<1>0. /\ active \in Slots /\ state[active] = "ACTIVE" /\ kpc = "exit"
      /\ kpc' = "requeue" /\ active' = active
      /\ UNCHANGED <<tid, parent_tid, priority, x0, send_to, send_queue,
           timer_wait, io_wait, ready, io_ready, next_tid>>
  BY DEF ExitFinish, TypeOK, TaskTypes, ListTypes, CoreTypes, OneActive,
       NoTask
<1>1. /\ state' = [state EXCEPT ![active] = "EXITED"]
      /\ ipc_receiver' = [ipc_receiver EXCEPT ![active] = NoTask]
      /\ event_type' = [event_type EXCEPT ![active] = NoEvent]
      /\ wakeup' = [wakeup EXCEPT ![active] = 0]
  BY DEF ExitFinish
<1>2. \A w \in Slots : Blocked(w) => ipc_receiver[w] # active
  BY <1>0 DEF ExitFinish, Owed, Blocked
<1>p. /\ \A u \in Slots : state'[u] = IF u = active THEN "EXITED"
           ELSE state[u]
      /\ \A u \in Slots : ipc_receiver'[u] = IF u = active THEN NoTask
           ELSE ipc_receiver[u]
      /\ \A u \in Slots : event_type'[u] = IF u = active THEN NoEvent
           ELSE event_type[u]
  BY <1>0, <1>1 DEF TypeOK, TaskTypes, ListTypes, CoreTypes
<1>3. TypeOK'
  <2>1. TaskTypes'
    BY <1>0, <1>1 DEF TypeOK, TaskTypes, CoreTypes, events, TaskState, Results
  <2>2. ListTypes'
    BY <1>0, <1>1 DEF TypeOK, ListTypes, CoreTypes, events
  <2>3. CoreTypes'
    BY <1>0, <1>1 DEF TypeOK, CoreTypes, events
  <2> QED BY <2>1, <2>2, <2>3 DEF TypeOK
<1>4. ReadyListed'
  <2> SUFFICES ASSUME NEW u \in Slots, NEW a \in Priorities
               PROVE  u \in Members(ready'[a])
                        <=> state'[u] = "READY" /\ priority'[u] = a
    BY DEF ReadyListed
  <2>1. u \in Members(ready[a]) <=> state[u] = "READY" /\ priority[u] = a
    BY DEF ReadyListed
  <2> QED BY <1>0, <1>2, <1>p, <2>1
<1>5. SendersListed'
  <2> SUFFICES ASSUME NEW u \in Slots, NEW v \in Slots
               PROVE  u \in Members(send_queue'[v])
                        <=> state'[u] = "SEND_BLOCKED" /\ ipc_receiver'[u] = v
    BY DEF SendersListed
  <2>1. u \in Members(send_queue[v])
          <=> state[u] = "SEND_BLOCKED" /\ ipc_receiver[u] = v
    BY DEF SendersListed
  <2> QED BY <1>0, <1>2, <1>p, <2>1
<1>6. EventsListed'
  <2>1. \A u \in Slots :
          u \in Members(timer_wait')
            <=> state'[u] = "EVENT_BLOCKED" /\ event_type'[u] = Timer
    BY <1>0, <1>2, <1>p DEF EventsListed, events
  <2>2. \A u \in Slots, d \in IoKinds :
          u \in Members(io_wait'[d])
            <=> state'[u] = "EVENT_BLOCKED" /\ event_type'[u] = d
    BY <1>0, <1>2, <1>p DEF EventsListed, events
  <2> QED BY <2>1, <2>2 DEF EventsListed
<1>7. ListedOnce'
  BY <1>0, <1>2, <1>p DEF ListedOnce, events
<1>8. CallersHaveReceiver'
  <2> SUFFICES ASSUME NEW u \in Slots, Blocked(u)'
               PROVE  /\ ipc_receiver'[u] \in Slots
                      /\ Exists(ipc_receiver[u])'
                      /\ tid'[ipc_receiver'[u]] = send_to'[u]
    BY DEF CallersHaveReceiver
  <2>1. Blocked(u) => /\ ipc_receiver[u] \in Slots
                      /\ Exists(ipc_receiver[u])
                      /\ tid[ipc_receiver[u]] = send_to[u]
    BY DEF CallersHaveReceiver
  <2> QED BY <1>0, <1>2, <1>p, <2>1 DEF Blocked, Exists
<1>9. HighestPriorityRuns' /\ HaltsOnlyWhenStuck'
  BY <1>0, <1>2, <1>p DEF HighestPriorityRuns, HaltsOnlyWhenStuck
<1>10. CallsComplete'
  BY <1>0, <1>2, <1>p DEF CallsComplete, NoResult, OK, PeerExited
<1>11. ResultHeld'
  BY <1>0, <1>2, <1>p DEF ResultHeld, NoResult, OK, PeerExited
<1>12. OneActive'
  BY <1>0, <1>2, <1>p DEF OneActive, NoTask
<1>13. TidsUnique'
  BY <1>0, <1>2, <1>p DEF TidsUnique
<1>14. PrioritiesKnown'
  BY <1>0, <1>2, <1>p DEF PrioritiesKnown, Exists
<1>15. EventsNamed'
  BY <1>0, <1>2, <1>p DEF EventsNamed, events
<1> QED BY <1>3, <1>4, <1>5, <1>6, <1>7, <1>8, <1>9, <1>10, <1>11, <1>12,
     <1>13, <1>14, <1>15

\* The caller goes back to its ready queue, if its call did not block it.
LEMMA RequeueInv ==
  ASSUME KernelInv, Requeue
  PROVE  KernelInv'
<1> USE DEF KernelInv, QueueDiscipline
<1>0. /\ active \in Slots /\ kpc = "requeue" /\ kpc' = "release"
      /\ active' = NoTask
      /\ UNCHANGED <<tid, parent_tid, priority, x0, send_to, ipc_receiver,
           send_queue, events, io_ready, next_tid>>
  BY DEF Requeue, TypeOK, TaskTypes, ListTypes, CoreTypes, OneActive,
       NoTask, ipc
<1>1. CASE state[active] # "ACTIVE"
  <2>1. UNCHANGED <<state, ready>>
    BY <1>1 DEF Requeue
  <2>2. TypeOK'
    <3>1. TaskTypes'
      BY <1>0, <1>1, <2>1 DEF TypeOK, TaskTypes, CoreTypes, events,
           TaskState, Results
    <3>2. ListTypes'
      BY <1>0, <1>1, <2>1 DEF TypeOK, ListTypes, CoreTypes, events
    <3>3. CoreTypes'
      BY <1>0, <1>1, <2>1 DEF TypeOK, CoreTypes, events
    <3> QED BY <3>1, <3>2, <3>3 DEF TypeOK
  <2>3. ReadyListed'
    <3> SUFFICES ASSUME NEW u \in Slots, NEW a \in Priorities
                 PROVE  u \in Members(ready'[a])
                          <=> state'[u] = "READY" /\ priority'[u] = a
      BY DEF ReadyListed
    <3>1. u \in Members(ready[a]) <=> state[u] = "READY" /\ priority[u] = a
      BY DEF ReadyListed
    <3> QED BY <1>0, <1>1, <2>1, <3>1
  <2>4. SendersListed'
    <3> SUFFICES ASSUME NEW u \in Slots, NEW v \in Slots
                 PROVE  u \in Members(send_queue'[v])
                          <=> state'[u] = "SEND_BLOCKED" /\
                               ipc_receiver'[u] = v
      BY DEF SendersListed
    <3>1. u \in Members(send_queue[v])
            <=> state[u] = "SEND_BLOCKED" /\ ipc_receiver[u] = v
      BY DEF SendersListed
    <3> QED BY <1>0, <1>1, <2>1, <3>1
  <2>5. EventsListed'
    <3>1. \A u \in Slots :
            u \in Members(timer_wait')
              <=> state'[u] = "EVENT_BLOCKED" /\ event_type'[u] = Timer
      BY <1>0, <1>1, <2>1 DEF EventsListed, events
    <3>2. \A u \in Slots, d \in IoKinds :
            u \in Members(io_wait'[d])
              <=> state'[u] = "EVENT_BLOCKED" /\ event_type'[u] = d
      BY <1>0, <1>1, <2>1 DEF EventsListed, events
    <3> QED BY <3>1, <3>2 DEF EventsListed
  <2>6. ListedOnce'
    BY <1>0, <1>1, <2>1 DEF ListedOnce, events
  <2>7. CallersHaveReceiver'
    <3> SUFFICES ASSUME NEW u \in Slots, Blocked(u)'
                 PROVE  /\ ipc_receiver'[u] \in Slots
                        /\ Exists(ipc_receiver[u])'
                        /\ tid'[ipc_receiver'[u]] = send_to'[u]
      BY DEF CallersHaveReceiver
    <3>1. Blocked(u) => /\ ipc_receiver[u] \in Slots
                        /\ Exists(ipc_receiver[u])
                        /\ tid[ipc_receiver[u]] = send_to[u]
      BY DEF CallersHaveReceiver
    <3> QED BY <1>0, <1>1, <2>1, <3>1 DEF Blocked, Exists
  <2>8. HighestPriorityRuns' /\ HaltsOnlyWhenStuck'
    BY <1>0, <1>1, <2>1 DEF HighestPriorityRuns, HaltsOnlyWhenStuck
  <2>9. CallsComplete'
    BY <1>0, <1>1, <2>1 DEF CallsComplete, NoResult, OK, PeerExited
  <2>10. ResultHeld'
    BY <1>0, <1>1, <2>1 DEF ResultHeld, NoResult, OK, PeerExited
  <2>11. OneActive'
    BY <1>0, <1>1, <2>1 DEF OneActive, NoTask
  <2>12. TidsUnique'
    BY <1>0, <1>1, <2>1 DEF TidsUnique
  <2>13. PrioritiesKnown'
    BY <1>0, <1>1, <2>1 DEF PrioritiesKnown, Exists
  <2>14. EventsNamed'
    BY <1>0, <1>1, <2>1 DEF EventsNamed, events
  <2> QED BY <2>2, <2>3, <2>4, <2>5, <2>6, <2>7, <2>8, <2>9, <2>10,
       <2>11, <2>12, <2>13, <2>14
<1>2. CASE state[active] = "ACTIVE"
  <2>1. state' = [state EXCEPT ![active] = "READY"] /\ MakeReady(active)
    BY <1>2 DEF Requeue
  <2>2. priority[active] \in Priorities
    BY <1>0, <1>2 DEF PrioritiesKnown, Exists
  <2>3. /\ ready' \in [Priorities -> Seq(Slots)]
        /\ \A u \in Slots, p \in Priorities :
             u \in Members(ready'[p])
               <=> u \in Members(ready[p]) \/ (u = active /\ p =
                    priority[active])
        /\ \A p \in Priorities : InjectiveSeq(ready'[p])
    BY <1>0, <1>2, <2>1, <2>2, ReadyAppend
  <2>p. \A u \in Slots : state'[u] = IF u = active THEN "READY" ELSE state[u]
    BY <1>0, <2>1 DEF TypeOK, TaskTypes, ListTypes, CoreTypes
  <2>4. TypeOK'
    <3>1. TaskTypes'
      BY <1>0, <2>1, <2>3 DEF TypeOK, TaskTypes, CoreTypes, events,
           TaskState, Results
    <3>2. ListTypes'
      BY <1>0, <2>1, <2>3 DEF TypeOK, ListTypes, CoreTypes, events
    <3>3. CoreTypes'
      BY <1>0, <2>1, <2>3 DEF TypeOK, CoreTypes, events
    <3> QED BY <3>1, <3>2, <3>3 DEF TypeOK
  <2>5. ReadyListed'
    <3> SUFFICES ASSUME NEW u \in Slots, NEW a \in Priorities
                 PROVE  u \in Members(ready'[a])
                          <=> state'[u] = "READY" /\ priority'[u] = a
      BY DEF ReadyListed
    <3>1. u \in Members(ready[a]) <=> state[u] = "READY" /\ priority[u] = a
      BY DEF ReadyListed
    <3> QED BY <1>0, <1>2, <2>2, <2>3, <2>p, <3>1
  <2>6. SendersListed'
    <3> SUFFICES ASSUME NEW u \in Slots, NEW v \in Slots
                 PROVE  u \in Members(send_queue'[v])
                          <=> state'[u] = "SEND_BLOCKED" /\
                               ipc_receiver'[u] = v
      BY DEF SendersListed
    <3>1. u \in Members(send_queue[v])
            <=> state[u] = "SEND_BLOCKED" /\ ipc_receiver[u] = v
      BY DEF SendersListed
    <3> QED BY <1>0, <1>2, <2>2, <2>3, <2>p, <3>1
  <2>7. EventsListed'
    <3>1. \A u \in Slots :
            u \in Members(timer_wait')
              <=> state'[u] = "EVENT_BLOCKED" /\ event_type'[u] = Timer
      BY <1>0, <1>2, <2>2, <2>3, <2>p DEF EventsListed, events
    <3>2. \A u \in Slots, d \in IoKinds :
            u \in Members(io_wait'[d])
              <=> state'[u] = "EVENT_BLOCKED" /\ event_type'[u] = d
      BY <1>0, <1>2, <2>2, <2>3, <2>p DEF EventsListed, events
    <3> QED BY <3>1, <3>2 DEF EventsListed
  <2>8. ListedOnce'
    BY <1>0, <1>2, <2>2, <2>3, <2>p DEF ListedOnce, events
  <2>9. CallersHaveReceiver'
    <3> SUFFICES ASSUME NEW u \in Slots, Blocked(u)'
                 PROVE  /\ ipc_receiver'[u] \in Slots
                        /\ Exists(ipc_receiver[u])'
                        /\ tid'[ipc_receiver'[u]] = send_to'[u]
      BY DEF CallersHaveReceiver
    <3>1. Blocked(u) => /\ ipc_receiver[u] \in Slots
                        /\ Exists(ipc_receiver[u])
                        /\ tid[ipc_receiver[u]] = send_to[u]
      BY DEF CallersHaveReceiver
    <3> QED BY <1>0, <1>2, <2>2, <2>3, <2>p, <3>1 DEF Blocked, Exists
  <2>10. HighestPriorityRuns' /\ HaltsOnlyWhenStuck'
    BY <1>0, <1>2, <2>2, <2>3, <2>p DEF HighestPriorityRuns,
         HaltsOnlyWhenStuck
  <2>11. CallsComplete'
    BY <1>0, <1>2, <2>p DEF CallsComplete, ResultHeld
  <2>12. ResultHeld'
    BY <1>0, <1>2, <2>2, <2>3, <2>p DEF ResultHeld, NoResult, OK, PeerExited
  <2>13. OneActive'
    BY <1>0, <1>2, <2>2, <2>3, <2>p DEF OneActive, NoTask
  <2>14. TidsUnique'
    BY <1>0, <1>2, <2>2, <2>3, <2>p DEF TidsUnique
  <2>15. PrioritiesKnown'
    BY <1>0, <1>2, <2>2, <2>3, <2>p DEF PrioritiesKnown, Exists
  <2>16. EventsNamed'
    BY <1>0, <1>2, <2>2, <2>3, <2>p DEF EventsNamed, events
  <2> QED BY <2>4, <2>5, <2>6, <2>7, <2>8, <2>9, <2>10, <2>11, <2>12,
       <2>13, <2>14, <2>15, <2>16
<1> QED BY <1>1, <1>2

\* A timer wakeup releases the head of the timer list.
LEMMA ReleaseTimerInv ==
  ASSUME KernelInv, ReleaseTimer
  PROVE  KernelInv'
<1> USE DEF KernelInv, QueueDiscipline
<1> DEFINE q == timer_wait
           t == Head(q)
<1>0. /\ kpc = "release" /\ kpc' = "release" /\ q # <<>> /\ active = NoTask
      /\ UNCHANGED <<tid, parent_tid, priority, send_to, ipc_receiver,
           send_queue, wakeup, io_wait, io_ready, active, next_tid>>
  BY DEF ReleaseTimer, TimerDue, IoDue, OneActive
<1>1. /\ x0' = [x0 EXCEPT ![t] = OK]
      /\ event_type' = [event_type EXCEPT ![t] = NoEvent]
      /\ state' = [state EXCEPT ![t] = "READY"]
      /\ MakeReady(t)
      /\ timer_wait' = Tail(q)
  BY DEF ReleaseTimer, Wake
<1>2. /\ Tail(q) \in Seq(Slots)
      /\ t \in Slots
      /\ t \in Members(q)
      /\ \A x : x \in Members(Tail(q)) <=> x \in Members(q) /\ x # t
      /\ InjectiveSeq(Tail(q))
  BY <1>0, TailLine DEF TypeOK, TaskTypes, ListTypes, CoreTypes, ListedOnce
<1>3. /\ state[t] = "EVENT_BLOCKED" /\ event_type[t] = Timer
      /\ priority[t] \in Priorities
  BY <1>2 DEF EventsListed, PrioritiesKnown, Exists
<1> HIDE DEF t
<1>4. /\ ready' \in [Priorities -> Seq(Slots)]
      /\ \A u \in Slots, p \in Priorities :
           u \in Members(ready'[p])
             <=> u \in Members(ready[p]) \/ (u = t /\ p = priority[t])
      /\ \A p \in Priorities : InjectiveSeq(ready'[p])
  BY <1>1, <1>2, <1>3, ReadyAppend
<1>p. /\ \A u \in Slots : state'[u] = IF u = t THEN "READY" ELSE state[u]
      /\ \A u \in Slots : x0'[u] = IF u = t THEN OK ELSE x0[u]
      /\ \A u \in Slots : event_type'[u] = IF u = t THEN NoEvent ELSE
           event_type[u]
      /\ timer_wait' = Tail(q)
  BY <1>1, <1>2 DEF TypeOK, TaskTypes, ListTypes, CoreTypes
<1>t. Timer \notin IoKinds /\ NoEvent \notin IoKinds /\ Timer # NoEvent
  BY DEF Timer, IoKinds, NoEvent
<1>5. TypeOK'
  <2>1. TaskTypes'
    BY <1>0, <1>1, <1>2, <1>4 DEF TypeOK, TaskTypes, CoreTypes, events,
         TaskState, Results
  <2>2. ListTypes'
    BY <1>0, <1>1, <1>2, <1>4 DEF TypeOK, ListTypes, CoreTypes, events
  <2>3. CoreTypes'
    BY <1>0, <1>1, <1>2, <1>4 DEF TypeOK, CoreTypes, events
  <2> QED BY <2>1, <2>2, <2>3 DEF TypeOK
<1>6. ReadyListed'
  <2> SUFFICES ASSUME NEW u \in Slots, NEW a \in Priorities
               PROVE  u \in Members(ready'[a])
                        <=> state'[u] = "READY" /\ priority'[u] = a
    BY DEF ReadyListed
  <2>1. u \in Members(ready[a]) <=> state[u] = "READY" /\ priority[u] = a
    BY DEF ReadyListed
  <2> QED BY <1>0, <1>2, <1>3, <1>4, <1>p, <1>t, <2>1
<1>7. SendersListed'
  <2> SUFFICES ASSUME NEW u \in Slots, NEW v \in Slots
               PROVE  u \in Members(send_queue'[v])
                        <=> state'[u] = "SEND_BLOCKED" /\ ipc_receiver'[u] = v
    BY DEF SendersListed
  <2>1. u \in Members(send_queue[v])
          <=> state[u] = "SEND_BLOCKED" /\ ipc_receiver[u] = v
    BY DEF SendersListed
  <2> QED BY <1>0, <1>2, <1>3, <1>4, <1>p, <1>t, <2>1
<1>8. EventsListed'
  <2>1. ASSUME NEW u \in Slots
        PROVE  u \in Members(timer_wait')
                 <=> state'[u] = "EVENT_BLOCKED" /\ event_type'[u] = Timer
    <3>1. u \in Members(timer_wait)
            <=> state[u] = "EVENT_BLOCKED" /\ event_type[u] = Timer
      BY DEF EventsListed
    <3> QED BY <1>2, <1>p, <3>1
  <2>2. ASSUME NEW u \in Slots, NEW e \in IoKinds
        PROVE  u \in Members(io_wait'[e])
                 <=> state'[u] = "EVENT_BLOCKED" /\ event_type'[u] = e
    <3>1. u \in Members(io_wait[e])
            <=> state[u] = "EVENT_BLOCKED" /\ event_type[u] = e
      BY DEF EventsListed
    <3> QED BY <1>0, <1>3, <1>p, <1>t, <3>1
  <2> QED BY <2>1, <2>2 DEF EventsListed
<1>9. ListedOnce'
  BY <1>0, <1>2, <1>3, <1>4, <1>p, <1>t DEF ListedOnce, events
<1>10. CallersHaveReceiver'
  <2> SUFFICES ASSUME NEW u \in Slots, Blocked(u)'
               PROVE  /\ ipc_receiver'[u] \in Slots
                      /\ Exists(ipc_receiver[u])'
                      /\ tid'[ipc_receiver'[u]] = send_to'[u]
    BY DEF CallersHaveReceiver
  <2>1. Blocked(u) => /\ ipc_receiver[u] \in Slots
                      /\ Exists(ipc_receiver[u])
                      /\ tid[ipc_receiver[u]] = send_to[u]
    BY DEF CallersHaveReceiver
  <2> QED BY <1>0, <1>2, <1>3, <1>4, <1>p, <1>t, <2>1 DEF Blocked, Exists
<1>11. HighestPriorityRuns' /\ HaltsOnlyWhenStuck'
  BY <1>0, <1>2, <1>3, <1>4, <1>p, <1>t DEF HighestPriorityRuns,
       HaltsOnlyWhenStuck
<1>12. CallsComplete'
  BY <1>0, <1>p DEF CallsComplete, NoResult, OK
<1>13. ResultHeld'
  BY <1>0, <1>2, <1>3, <1>4, <1>p, <1>t DEF ResultHeld, NoResult, OK,
       PeerExited
<1>14. OneActive'
  BY <1>0, <1>2, <1>3, <1>4, <1>p, <1>t DEF OneActive, NoTask
<1>15. TidsUnique'
  BY <1>0, <1>2, <1>3, <1>4, <1>p, <1>t DEF TidsUnique
<1>16. PrioritiesKnown'
  BY <1>0, <1>2, <1>3, <1>4, <1>p, <1>t DEF PrioritiesKnown, Exists
<1>17. EventsNamed'
  BY <1>0, <1>2, <1>3, <1>4, <1>p, <1>t DEF EventsNamed, events
<1> QED BY <1>5, <1>6, <1>7, <1>8, <1>9, <1>10, <1>11, <1>12, <1>13,
     <1>14, <1>15, <1>16, <1>17

\* A UART event releases a waiter.
LEMMA ReleaseIoInv ==
  ASSUME KernelInv, NEW e \in IoKinds, ReleaseIo(e)
  PROVE  KernelInv'
<1> USE DEF KernelInv, QueueDiscipline
<1> DEFINE q == io_wait[e]
           t == Head(q)
<1>0. /\ kpc = "release" /\ kpc' = "release" /\ q # <<>> /\ active = NoTask
      /\ UNCHANGED <<tid, parent_tid, priority, send_to, ipc_receiver,
           send_queue, wakeup, timer_wait, io_ready, active, next_tid>>
  BY DEF ReleaseIo, TimerDue, IoDue, OneActive
<1>1. /\ x0' = [x0 EXCEPT ![t] = OK]
      /\ event_type' = [event_type EXCEPT ![t] = NoEvent]
      /\ state' = [state EXCEPT ![t] = "READY"]
      /\ MakeReady(t)
      /\ io_wait' = [io_wait EXCEPT ![e] = Tail(q)]
  BY DEF ReleaseIo, Wake
<1>2. /\ Tail(q) \in Seq(Slots)
      /\ t \in Slots
      /\ t \in Members(q)
      /\ \A x : x \in Members(Tail(q)) <=> x \in Members(q) /\ x # t
      /\ InjectiveSeq(Tail(q))
  BY <1>0, TailLine DEF TypeOK, TaskTypes, ListTypes, CoreTypes, ListedOnce
<1>3. /\ state[t] = "EVENT_BLOCKED" /\ event_type[t] = e
      /\ priority[t] \in Priorities
  BY <1>2 DEF EventsListed, PrioritiesKnown, Exists
<1> HIDE DEF t
<1>4. /\ ready' \in [Priorities -> Seq(Slots)]
      /\ \A u \in Slots, p \in Priorities :
           u \in Members(ready'[p])
             <=> u \in Members(ready[p]) \/ (u = t /\ p = priority[t])
      /\ \A p \in Priorities : InjectiveSeq(ready'[p])
  BY <1>1, <1>2, <1>3, ReadyAppend
<1>p. /\ \A u \in Slots : state'[u] = IF u = t THEN "READY" ELSE state[u]
      /\ \A u \in Slots : x0'[u] = IF u = t THEN OK ELSE x0[u]
      /\ \A u \in Slots : event_type'[u] = IF u = t THEN NoEvent ELSE
           event_type[u]
      /\ \A d \in IoKinds : io_wait'[d] = IF d = e THEN Tail(q) ELSE
           io_wait[d]
  BY <1>1, <1>2 DEF TypeOK, TaskTypes, ListTypes, CoreTypes
<1>t. Timer \notin IoKinds /\ NoEvent \notin IoKinds /\ Timer # NoEvent
  BY DEF Timer, IoKinds, NoEvent
<1>5. TypeOK'
  <2>1. TaskTypes'
    BY <1>0, <1>1, <1>2, <1>4 DEF TypeOK, TaskTypes, CoreTypes, events,
         TaskState, Results
  <2>2. ListTypes'
    BY <1>0, <1>1, <1>2, <1>4 DEF TypeOK, ListTypes, CoreTypes, events
  <2>3. CoreTypes'
    BY <1>0, <1>1, <1>2, <1>4 DEF TypeOK, CoreTypes, events
  <2> QED BY <2>1, <2>2, <2>3 DEF TypeOK
<1>6. ReadyListed'
  <2> SUFFICES ASSUME NEW u \in Slots, NEW a \in Priorities
               PROVE  u \in Members(ready'[a])
                        <=> state'[u] = "READY" /\ priority'[u] = a
    BY DEF ReadyListed
  <2>1. u \in Members(ready[a]) <=> state[u] = "READY" /\ priority[u] = a
    BY DEF ReadyListed
  <2> QED BY <1>0, <1>2, <1>3, <1>4, <1>p, <1>t, <2>1
<1>7. SendersListed'
  <2> SUFFICES ASSUME NEW u \in Slots, NEW v \in Slots
               PROVE  u \in Members(send_queue'[v])
                        <=> state'[u] = "SEND_BLOCKED" /\ ipc_receiver'[u] = v
    BY DEF SendersListed
  <2>1. u \in Members(send_queue[v])
          <=> state[u] = "SEND_BLOCKED" /\ ipc_receiver[u] = v
    BY DEF SendersListed
  <2> QED BY <1>0, <1>2, <1>3, <1>4, <1>p, <1>t, <2>1
<1>8. EventsListed'
  <2>1. \A u \in Slots :
          u \in Members(timer_wait')
            <=> state'[u] = "EVENT_BLOCKED" /\ event_type'[u] = Timer
    BY <1>0, <1>2, <1>3, <1>4, <1>p, <1>t DEF EventsListed, events
  <2>2. \A u \in Slots, d \in IoKinds :
          u \in Members(io_wait'[d])
            <=> state'[u] = "EVENT_BLOCKED" /\ event_type'[u] = d
    BY <1>0, <1>2, <1>3, <1>4, <1>p, <1>t DEF EventsListed, events
  <2> QED BY <2>1, <2>2 DEF EventsListed
<1>9. ListedOnce'
  BY <1>0, <1>2, <1>3, <1>4, <1>p, <1>t DEF ListedOnce, events
<1>10. CallersHaveReceiver'
  <2> SUFFICES ASSUME NEW u \in Slots, Blocked(u)'
               PROVE  /\ ipc_receiver'[u] \in Slots
                      /\ Exists(ipc_receiver[u])'
                      /\ tid'[ipc_receiver'[u]] = send_to'[u]
    BY DEF CallersHaveReceiver
  <2>1. Blocked(u) => /\ ipc_receiver[u] \in Slots
                      /\ Exists(ipc_receiver[u])
                      /\ tid[ipc_receiver[u]] = send_to[u]
    BY DEF CallersHaveReceiver
  <2> QED BY <1>0, <1>2, <1>3, <1>4, <1>p, <1>t, <2>1 DEF Blocked, Exists
<1>11. HighestPriorityRuns' /\ HaltsOnlyWhenStuck'
  BY <1>0, <1>2, <1>3, <1>4, <1>p, <1>t DEF HighestPriorityRuns,
       HaltsOnlyWhenStuck
<1>12. CallsComplete'
  BY <1>0, <1>2, <1>3, <1>4, <1>p, <1>t DEF CallsComplete, NoResult, OK,
       PeerExited
<1>13. ResultHeld'
  BY <1>0, <1>2, <1>3, <1>4, <1>p, <1>t DEF ResultHeld, NoResult, OK,
       PeerExited
<1>14. OneActive'
  BY <1>0, <1>2, <1>3, <1>4, <1>p, <1>t DEF OneActive, NoTask
<1>15. TidsUnique'
  BY <1>0, <1>2, <1>3, <1>4, <1>p, <1>t DEF TidsUnique
<1>16. PrioritiesKnown'
  BY <1>0, <1>2, <1>3, <1>4, <1>p, <1>t DEF PrioritiesKnown, Exists
<1>17. EventsNamed'
  BY <1>0, <1>2, <1>3, <1>4, <1>p, <1>t DEF EventsNamed, events
<1> QED BY <1>5, <1>6, <1>7, <1>8, <1>9, <1>10, <1>11, <1>12, <1>13,
     <1>14, <1>15, <1>16, <1>17

\* The scheduler takes the head of the most urgent queue.
LEMMA ScheduleInv ==
  ASSUME KernelInv, NEW p \in Priorities, Schedule(p)
  PROVE  KernelInv'
<1> USE DEF KernelInv, QueueDiscipline
<1> DEFINE q == ready[p]
           t == Head(q)
<1>0. /\ kpc = "release" /\ kpc' = "user" /\ active = NoTask /\ active' = t
      /\ q # <<>> /\ (\A a \in Priorities : ready[a] # <<>> => p <= a)
      /\ UNCHANGED <<tid, parent_tid, priority, x0, send_to, ipc_receiver,
           send_queue, events, io_ready, next_tid>>
  BY DEF Schedule, MostUrgent, OneActive, ipc
<1>1. /\ state' = [state EXCEPT ![t] = "ACTIVE"]
      /\ ready' = [ready EXCEPT ![p] = Tail(q)]
  BY DEF Schedule
<1>2. /\ Tail(q) \in Seq(Slots)
      /\ t \in Slots
      /\ t \in Members(q)
      /\ \A x : x \in Members(Tail(q)) <=> x \in Members(q) /\ x # t
      /\ InjectiveSeq(Tail(q))
  BY <1>0, TailLine DEF TypeOK, TaskTypes, ListTypes, CoreTypes, ListedOnce
<1>3. state[t] = "READY" /\ priority[t] = p
  BY <1>2 DEF ReadyListed
<1>n. NoTask \notin Slots
  BY DEF NoTask, Slots
<1> HIDE DEF t
<1>p. /\ \A u \in Slots : state'[u] = IF u = t THEN "ACTIVE" ELSE state[u]
      /\ \A a \in Priorities : ready'[a] = IF a = p THEN Tail(q) ELSE ready[a]
  BY <1>1, <1>2 DEF TypeOK, TaskTypes, ListTypes, CoreTypes
<1>4. TypeOK'
  <2>1. TaskTypes'
    BY <1>0, <1>1, <1>2 DEF TypeOK, TaskTypes, CoreTypes, events,
         TaskState, Results
  <2>2. ListTypes'
    BY <1>0, <1>1, <1>2 DEF TypeOK, ListTypes, CoreTypes, events
  <2>3. CoreTypes'
    BY <1>0, <1>1, <1>2 DEF TypeOK, CoreTypes, events
  <2> QED BY <2>1, <2>2, <2>3 DEF TypeOK
<1>5. ReadyListed'
  <2> SUFFICES ASSUME NEW u \in Slots, NEW a \in Priorities
               PROVE  u \in Members(ready'[a])
                        <=> state'[u] = "READY" /\ priority'[u] = a
    BY DEF ReadyListed
  <2>1. u \in Members(ready[a]) <=> state[u] = "READY" /\ priority[u] = a
    BY DEF ReadyListed
  <2> QED BY <1>0, <1>2, <1>3, <1>p, <1>n, <2>1
<1>6. SendersListed'
  <2> SUFFICES ASSUME NEW u \in Slots, NEW v \in Slots
               PROVE  u \in Members(send_queue'[v])
                        <=> state'[u] = "SEND_BLOCKED" /\ ipc_receiver'[u] = v
    BY DEF SendersListed
  <2>1. u \in Members(send_queue[v])
          <=> state[u] = "SEND_BLOCKED" /\ ipc_receiver[u] = v
    BY DEF SendersListed
  <2> QED BY <1>0, <1>2, <1>3, <1>p, <1>n, <2>1
<1>7. EventsListed'
  <2>1. \A u \in Slots :
          u \in Members(timer_wait')
            <=> state'[u] = "EVENT_BLOCKED" /\ event_type'[u] = Timer
    BY <1>0, <1>2, <1>3, <1>p, <1>n DEF EventsListed, events
  <2>2. \A u \in Slots, d \in IoKinds :
          u \in Members(io_wait'[d])
            <=> state'[u] = "EVENT_BLOCKED" /\ event_type'[u] = d
    BY <1>0, <1>2, <1>3, <1>p, <1>n DEF EventsListed, events
  <2> QED BY <2>1, <2>2 DEF EventsListed
<1>8. ListedOnce'
  BY <1>0, <1>2, <1>3, <1>p, <1>n DEF ListedOnce, events
<1>9. CallersHaveReceiver'
  <2> SUFFICES ASSUME NEW u \in Slots, Blocked(u)'
               PROVE  /\ ipc_receiver'[u] \in Slots
                      /\ Exists(ipc_receiver[u])'
                      /\ tid'[ipc_receiver'[u]] = send_to'[u]
    BY DEF CallersHaveReceiver
  <2>1. Blocked(u) => /\ ipc_receiver[u] \in Slots
                      /\ Exists(ipc_receiver[u])
                      /\ tid[ipc_receiver[u]] = send_to[u]
    BY DEF CallersHaveReceiver
  <2> QED BY <1>0, <1>2, <1>3, <1>p, <1>n, <2>1 DEF Blocked, Exists
<1>10. HighestPriorityRuns' /\ HaltsOnlyWhenStuck'
  <2>1. ASSUME NEW u \in Slots, state'[u] = "READY"
        PROVE  p <= priority[u]
    <3>1. state[u] = "READY" /\ priority[u] \in Priorities
      BY <1>p, <2>1 DEF PrioritiesKnown, Exists
    <3>2. u \in Members(ready[priority[u]])
      BY <3>1 DEF ReadyListed
    <3> QED BY <1>0, <3>1, <3>2, NoMembers
  <2> QED BY <1>0, <1>2, <1>3, <1>p, <2>1 DEF HighestPriorityRuns,
       HaltsOnlyWhenStuck
<1>11. CallsComplete'
  BY <1>0, <1>2, <1>3, <1>p, <1>n DEF CallsComplete, NoResult, OK, PeerExited
<1>12. ResultHeld'
  BY <1>0, <1>2, <1>3, <1>p, <1>n DEF ResultHeld, NoResult, OK, PeerExited
<1>13. OneActive'
  BY <1>0, <1>2, <1>3, <1>p, <1>n DEF OneActive, NoTask
<1>14. TidsUnique'
  BY <1>0, <1>2, <1>3, <1>p, <1>n DEF TidsUnique
<1>15. PrioritiesKnown'
  BY <1>0, <1>2, <1>3, <1>p, <1>n DEF PrioritiesKnown, Exists
<1>16. EventsNamed'
  BY <1>0, <1>2, <1>3, <1>p, <1>n DEF EventsNamed, events
<1> QED BY <1>4, <1>5, <1>6, <1>7, <1>8, <1>9, <1>10, <1>11, <1>12,
     <1>13, <1>14, <1>15, <1>16

\* Nothing is ready: the core idles, or halts when nobody waits.
LEMMA NothingReadyInv ==
  ASSUME KernelInv, NothingReady
  PROVE  KernelInv'
<1> USE DEF KernelInv, QueueDiscipline
<1>0. /\ kpc = "release" /\ active = NoTask
      /\ kpc' = (IF HasWaiters THEN "idle" ELSE "halted")
      /\ \A p \in Priorities : ready[p] = <<>>
      /\ UNCHANGED <<state, tid, parent_tid, priority, x0, send_to,
           ipc_receiver, send_queue, events, ready, io_ready, active,
                next_tid>>
  BY DEF NothingReady, OneActive, tcb, ipc
<1>n. NoTask \notin Slots
  BY DEF NoTask, Slots
<1>1. TypeOK'
  <2>1. TaskTypes'
    BY <1>0, <1>n DEF TypeOK, TaskTypes, CoreTypes, events, TaskState, Results
  <2>2. ListTypes'
    BY <1>0, <1>n DEF TypeOK, ListTypes, CoreTypes, events
  <2>3. CoreTypes'
    BY <1>0, <1>n DEF TypeOK, CoreTypes, events
  <2> QED BY <2>1, <2>2, <2>3 DEF TypeOK
<1>2. ReadyListed'
  <2> SUFFICES ASSUME NEW u \in Slots, NEW a \in Priorities
               PROVE  u \in Members(ready'[a])
                        <=> state'[u] = "READY" /\ priority'[u] = a
    BY DEF ReadyListed
  <2>1. u \in Members(ready[a]) <=> state[u] = "READY" /\ priority[u] = a
    BY DEF ReadyListed
  <2> QED BY <1>0, <1>n, <2>1
<1>3. SendersListed'
  <2> SUFFICES ASSUME NEW u \in Slots, NEW v \in Slots
               PROVE  u \in Members(send_queue'[v])
                        <=> state'[u] = "SEND_BLOCKED" /\ ipc_receiver'[u] = v
    BY DEF SendersListed
  <2>1. u \in Members(send_queue[v])
          <=> state[u] = "SEND_BLOCKED" /\ ipc_receiver[u] = v
    BY DEF SendersListed
  <2> QED BY <1>0, <1>n, <2>1
<1>4. EventsListed'
  <2>1. \A u \in Slots :
          u \in Members(timer_wait')
            <=> state'[u] = "EVENT_BLOCKED" /\ event_type'[u] = Timer
    BY <1>0, <1>n DEF EventsListed, events
  <2>2. \A u \in Slots, d \in IoKinds :
          u \in Members(io_wait'[d])
            <=> state'[u] = "EVENT_BLOCKED" /\ event_type'[u] = d
    BY <1>0, <1>n DEF EventsListed, events
  <2> QED BY <2>1, <2>2 DEF EventsListed
<1>5. ListedOnce'
  BY <1>0, <1>n DEF ListedOnce, events
<1>6. CallersHaveReceiver'
  <2> SUFFICES ASSUME NEW u \in Slots, Blocked(u)'
               PROVE  /\ ipc_receiver'[u] \in Slots
                      /\ Exists(ipc_receiver[u])'
                      /\ tid'[ipc_receiver'[u]] = send_to'[u]
    BY DEF CallersHaveReceiver
  <2>1. Blocked(u) => /\ ipc_receiver[u] \in Slots
                      /\ Exists(ipc_receiver[u])
                      /\ tid[ipc_receiver[u]] = send_to[u]
    BY DEF CallersHaveReceiver
  <2> QED BY <1>0, <1>n, <2>1 DEF Blocked, Exists
<1>7. HighestPriorityRuns' /\ HaltsOnlyWhenStuck'
  <2>1. ASSUME ~HasWaiters, NEW t \in Slots
        PROVE  state[t] \notin {"READY", "ACTIVE", "EVENT_BLOCKED"}
    <3>1. state[t] # "READY"
      <4>1. state[t] = "READY" => t \in Members(ready[priority[t]])
        BY DEF ReadyListed, PrioritiesKnown, Exists
      <4>2. state[t] = "READY" => priority[t] \in Priorities
        BY DEF PrioritiesKnown, Exists
      <4> QED BY <1>0, <4>1, <4>2, NoMembers
    <3>2. state[t] # "ACTIVE"
      BY <1>0, <1>n DEF OneActive
    <3>3. state[t] # "EVENT_BLOCKED"
      <4>1. /\ timer_wait = <<>>
            /\ \A e \in IoKinds : io_wait[e] = <<>>
        BY <2>1 DEF HasWaiters
      <4>2. event_type[t] \in {NoEvent, Timer} \cup IoKinds
        BY DEF TypeOK, TaskTypes, ListTypes, CoreTypes
      <4> QED BY <4>1, <4>2, NoMembers DEF EventsListed, EventsNamed
    <3> QED BY <3>1, <3>2, <3>3
  <2>2. \A t \in Slots : state[t] \in TaskState
    BY DEF TypeOK, TaskTypes, ListTypes, CoreTypes
  <2> QED BY <1>0, <2>1, <2>2 DEF HighestPriorityRuns, HaltsOnlyWhenStuck,
       TaskState
<1>8. CallsComplete'
  BY <1>0, <1>n DEF CallsComplete, NoResult, OK, PeerExited
<1>9. ResultHeld'
  BY <1>0, <1>n DEF ResultHeld, NoResult, OK, PeerExited
<1>10. OneActive'
  BY <1>0, <1>n DEF OneActive, NoTask
<1>11. TidsUnique'
  BY <1>0, <1>n DEF TidsUnique
<1>12. PrioritiesKnown'
  BY <1>0, <1>n DEF PrioritiesKnown, Exists
<1>13. EventsNamed'
  BY <1>0, <1>n DEF EventsNamed, events
<1> QED BY <1>1, <1>2, <1>3, <1>4, <1>5, <1>6, <1>7, <1>8, <1>9, <1>10,
     <1>11, <1>12, <1>13

-----------------------------------------------------------------------------
(* The invariant holds initially and is preserved by every step.           *)

LEMMA InitInv == ASSUME Init PROVE KernelInv
<1> USE KernelAssumption
<1>0. 1 \in Slots /\ NoTask \notin Slots /\ FirstPriority \in Priorities
  BY DEF Slots, NoTask, Priorities
<1>p. /\ \A t \in Slots : state[t] = IF t = 1 THEN "ACTIVE" ELSE "UNUSED"
      /\ \A t \in Slots : tid[t] = IF t = 1 THEN 1 ELSE 0
      /\ \A t \in Slots : priority[t] = IF t = 1 THEN FirstPriority ELSE -1
      /\ \A t \in Slots : x0[t] = OK /\ send_queue[t] = <<>>
      /\ \A p \in Priorities : ready[p] = <<>>
      /\ \A e \in IoKinds : io_wait[e] = <<>>
      /\ timer_wait = <<>> /\ active = 1 /\ next_tid = 2 /\ kpc = "user"
  BY DEF Init
<1>e. <<>> \in Seq(Slots) /\ InjectiveSeq(<<>>)
  BY DEF InjectiveSeq
<1>1. TypeOK
  BY <1>0, <1>e DEF Init, TypeOK, TaskTypes, ListTypes, CoreTypes,
       TaskState, Results, NoTask, NoEvent
<1>2. QueueDiscipline
  BY <1>0, <1>p, <1>e, NoMembers DEF QueueDiscipline, ReadyListed,
     SendersListed, EventsListed, ListedOnce
<1>3. CallersHaveReceiver /\ HighestPriorityRuns /\ HaltsOnlyWhenStuck
  BY <1>0, <1>p DEF CallersHaveReceiver, Blocked, HighestPriorityRuns,
     HaltsOnlyWhenStuck
<1>4. CallsComplete /\ ResultHeld
  BY <1>0, <1>p DEF CallsComplete, ResultHeld, OK, NoResult
<1>5. OneActive /\ TidsUnique /\ PrioritiesKnown /\ EventsNamed
  BY <1>0, <1>p DEF OneActive, TidsUnique, PrioritiesKnown, EventsNamed,
     Exists, NoTask
<1> QED BY <1>1, <1>2, <1>3, <1>4, <1>5 DEF KernelInv

LEMMA NextInv == ASSUME KernelInv, [Next]_vars PROVE KernelInv'
<1>1. CASE Syscall
  <2>1. ASSUME NEW p \in -1 .. NumPriorities, Create(p) \/ CreateFails(p)
        PROVE  KernelInv'
    <3>1. p \in Int /\ 0 \in Nat
      OBVIOUS
    <3> QED BY <2>1, <3>1, CreateInv, RefusalInv
  <2>2. ASSUME NEW n \in 0 .. MaxTid,
               Send(n) \/ SendFails(n) \/ Reply(n) \/ ReplyFails(n)
        PROVE  KernelInv'
    <3>1. n \in Nat /\ 0 \in Int
      BY KernelAssumption
    <3> QED BY <2>2, <3>1, SendInv, RefusalInv, ReplyInv
  <2>3. ASSUME Yield \/ AwaitFails PROVE KernelInv'
    <3>1. 0 \in Nat /\ 0 \in Int
      OBVIOUS
    <3> QED BY <2>3, <3>1, RefusalInv
  <2>4. ASSUME Exit \/ Receive \/ AwaitTimer PROVE KernelInv'
    BY <2>4, CoreInv, ReceiveInv, AwaitTimerInv
  <2>5. ASSUME NEW e \in IoKinds, AwaitIo(e) PROVE KernelInv'
    BY <2>5, AwaitIoInv
  <2> QED BY <1>1, <2>1, <2>2, <2>3, <2>4, <2>5 DEF Syscall
<1>2. CASE KernelStep
  <2>1. ASSUME NEW e \in IoKinds, ReleaseIo(e) PROVE KernelInv'
    BY <2>1, ReleaseIoInv
  <2>2. ASSUME NEW p \in Priorities, Schedule(p) PROVE KernelInv'
    BY <2>2, ScheduleInv
  <2> QED BY <1>2, <2>1, <2>2, ExitAbortQueuedInv, ExitAbortDeliveredInv,
          ExitFinishInv, RequeueInv, ReleaseTimerInv, NothingReadyInv,
          CoreInv DEF KernelStep
<1>3. CASE Hardware
  BY <1>3, CoreInv DEF Hardware
<1>4. CASE UNCHANGED vars
  <2>1. UNCHANGED <<state, tid, parent_tid, priority, x0, send_to,
          ipc_receiver, send_queue, event_type, wakeup, timer_wait, io_wait,
          ready, io_ready, active, next_tid, kpc>>
    BY <1>4 DEF vars, tcb, ipc, events
  <2> QED BY <2>1 DEF KernelInv, TypeOK, TaskTypes, ListTypes, CoreTypes,
       QueueDiscipline, ReadyListed,
       SendersListed, EventsListed, ListedOnce, CallersHaveReceiver, Blocked,
       HighestPriorityRuns, CallsComplete, HaltsOnlyWhenStuck, OneActive,
       TidsUnique, PrioritiesKnown, Exists, EventsNamed, ResultHeld
<1> QED BY <1>1, <1>2, <1>3, <1>4 DEF Next

THEOREM KernelInvariant == Spec => []KernelInv
<1>1. Init => KernelInv
  BY InitInv
<1>2. KernelInv /\ [Next]_vars => KernelInv'
  BY NextInv
<1> QED BY <1>1, <1>2, PTL DEF Spec

-----------------------------------------------------------------------------
(* What follows for the properties the runs check.                         *)

\* Type correctness, for every number of tasks, priorities and events.
THEOREM TypeCorrect == Spec => []TypeOK
<1>1. KernelInv => TypeOK
  BY DEF KernelInv
<1> QED BY <1>1, KernelInvariant, PTL

\* The intrusive lists of task.c and kernel.c stay consistent.
THEOREM QueuesConsistent == Spec => []QueueDiscipline
<1>1. KernelInv => QueueDiscipline
  BY DEF KernelInv
<1> QED BY <1>1, KernelInvariant, PTL

\* No caller is ever left with a receiver that exited or was replaced.
THEOREM CallersNeverOrphaned == Spec => []CallersHaveReceiver
<1>1. KernelInv => CallersHaveReceiver
  BY DEF KernelInv
<1> QED BY <1>1, KernelInvariant, PTL

\* User code never runs while something more urgent is ready.
THEOREM PrioritiesRespected == Spec => []HighestPriorityRuns
<1>1. KernelInv => HighestPriorityRuns
  BY DEF KernelInv
<1> QED BY <1>1, KernelInvariant, PTL

\* No task resumes without a result.
THEOREM ResultsDelivered == Spec => []CallsComplete
<1>1. KernelInv => CallsComplete
  BY DEF KernelInv
<1> QED BY <1>1, KernelInvariant, PTL

\* The machine halts only when no task can run again.
THEOREM HaltIsFinal == Spec => []HaltsOnlyWhenStuck
<1>1. KernelInv => HaltsOnlyWhenStuck
  BY DEF KernelInv
<1> QED BY <1>1, KernelInvariant, PTL

-----------------------------------------------------------------------------
(* The order of the timer list.                                            *)

\* timer_wait_insert keeps the list sorted: the new deadline is behind all
\* that are due no later, and nobody else's changes.
LEMMA AwaitTimerSorted ==
  ASSUME KernelInv, TimerSorted, AwaitTimer
  PROVE  TimerSorted'
<1> DEFINE q == timer_wait
<1>1. /\ q \in Seq(Slots) /\ wakeup \in [Slots -> Nat] /\ active \in Slots
      /\ \A i \in DOMAIN q : q[i] \in Slots /\ q[i] # active
  <2>1. q \in Seq(Slots) /\ wakeup \in [Slots -> Nat] /\ active \in Slots
    BY DEF KernelInv, TypeOK, TaskTypes, ListTypes, CoreTypes, OneActive,
         AwaitTimer, NoTask
  <2>2. active \notin Members(q)
    BY <2>1 DEF KernelInv, QueueDiscipline, EventsListed, OneActive, AwaitTimer
  <2> QED BY <2>1, <2>2, ElementOfSeq, LenProperties DEF Members
<1>2. PICK k \in 0 .. Len(q) :
        /\ \A i \in 1 .. k : wakeup[q[i]] <= TimerPeriod
        /\ k < Len(q) => wakeup[q[k + 1]] > TimerPeriod
        /\ timer_wait' = SubSeq(q, 1, k) \o <<active>> \o SubSeq(q, k + 1, Len(q))
  BY DEF AwaitTimer, InsertByWakeup
<1> DEFINE r == timer_wait'
<1>3. /\ r \in Seq(Slots) /\ Len(r) = Len(q) + 1
      /\ \A i \in 1 .. Len(q) + 1 :
           r[i] = IF i <= k THEN q[i] ELSE IF i = k + 1 THEN active ELSE q[i - 1]
  <2>1. r = Inserted(q, k, active)
    BY <1>2 DEF Inserted
  <2>2. Inserted(q, k, active) \in Seq(Slots) /\ HasInserted(Inserted(q, k, active), q, k, active)
    <3>1. k \in 0 .. Len(q)
      OBVIOUS
    <3> HIDE DEF q
    <3> QED BY <3>1, <1>1, InsertPositions
  <2> HIDE DEF q, r
  <2> QED BY <2>1, <2>2 DEF HasInserted
<1>4. /\ DOMAIN q = 1 .. Len(q) /\ DOMAIN r = 1 .. Len(q) + 1 /\ Len(q) \in Nat
  BY <1>1, <1>3, LenProperties
<1>5. \A i, j \in 1 .. Len(q) : i <= j => wakeup[q[i]] <= wakeup[q[j]]
  BY <1>4 DEF TimerSorted
<1>6. /\ \A t \in Slots : t # active => wakeup'[t] = wakeup[t]
      /\ wakeup'[active] = TimerPeriod
  BY <1>1 DEF AwaitTimer
<1>7. \A i \in 1 .. Len(q) : wakeup'[q[i]] = wakeup[q[i]] /\ wakeup[q[i]] \in Nat
  BY <1>1, <1>4, <1>6
<1>8. TimerPeriod \in Nat
  BY KernelAssumption
<1> HIDE DEF q, r
<1>9. ASSUME NEW i \in 1 .. Len(q) + 1, NEW j \in 1 .. Len(q) + 1, i <= j
      PROVE  wakeup'[r[i]] <= wakeup'[r[j]]
  <2>1. CASE j <= k
    BY <2>1, <1>3, <1>4, <1>5, <1>7, <1>9
  <2>2. CASE j = k + 1
    BY <2>2, <1>2, <1>3, <1>4, <1>6, <1>7, <1>8, <1>9
  <2>3. CASE j > k + 1
    <3>1. /\ j - 1 \in 1 .. Len(q) /\ r[j] = q[j - 1] /\ k + 1 \in 1 .. Len(q)
          /\ k + 1 <= j - 1 /\ k < Len(q)
      BY <2>3, <1>3, <1>4
    <3>2. wakeup[q[k + 1]] <= wakeup[q[j - 1]] /\ wakeup[q[k + 1]] > TimerPeriod
      BY <3>1, <1>2, <1>5
    <3>3. CASE i <= k
      <4>1. i \in 1 .. Len(q) /\ i <= j - 1 /\ r[i] = q[i]
        BY <3>1, <3>3, <1>3, <1>4
      <4> QED BY <4>1, <3>1, <1>5, <1>7
    <3>4. CASE i = k + 1
      <4>1. r[i] = active
        BY <3>4, <1>3, <1>4
      <4>2. wakeup[q[j - 1]] >= TimerPeriod
        BY <3>1, <3>2, <1>7, <1>8
      <4> QED BY <4>1, <4>2, <3>1, <1>6, <1>7
    <3>5. CASE i > k + 1
      <4>1. i - 1 \in 1 .. Len(q) /\ i - 1 <= j - 1 /\ r[i] = q[i - 1]
        BY <3>5, <1>3, <1>4, <1>9
      <4> QED BY <4>1, <3>1, <1>5, <1>7
    <3> QED BY <3>3, <3>4, <3>5, <1>4
  <2> QED BY <2>1, <2>2, <2>3, <1>4
<1> QED BY <1>4, <1>9 DEF TimerSorted, r

\* A step that leaves the list and its members' deadlines alone keeps it sorted.
LEMMA SameTimers ==
  ASSUME KernelInv, TimerSorted, timer_wait' = timer_wait,
         \A t \in Slots : state[t] = "EVENT_BLOCKED" /\ event_type[t] = Timer
                           => wakeup'[t] = wakeup[t]
  PROVE  TimerSorted'
<1>1. timer_wait \in Seq(Slots)
  BY DEF KernelInv, TypeOK, ListTypes
<1>2. \A i \in DOMAIN timer_wait : wakeup'[timer_wait[i]] = wakeup[timer_wait[i]]
  <2> SUFFICES ASSUME NEW i \in DOMAIN timer_wait
               PROVE  wakeup'[timer_wait[i]] = wakeup[timer_wait[i]]
    OBVIOUS
  <2>1. timer_wait[i] \in Slots /\ timer_wait[i] \in Members(timer_wait)
    BY <1>1, ElementOfSeq, LenProperties DEF Members
  <2> QED BY <2>1 DEF KernelInv, QueueDiscipline, EventsListed
<1> QED BY <1>2 DEF TimerSorted

\* Time passes for everybody alike, and stops at zero.
LEMMA TickSorted ==
  ASSUME KernelInv, TimerSorted, Tick
  PROVE  TimerSorted'
<1>1. timer_wait \in Seq(Slots) /\ wakeup \in [Slots -> Nat]
  BY DEF KernelInv, TypeOK, TaskTypes, ListTypes
<1>2. \A i \in DOMAIN timer_wait : timer_wait[i] \in Slots
  BY <1>1, ElementOfSeq, LenProperties
<1>3. /\ timer_wait' = timer_wait
      /\ \A t \in Slots : wakeup'[t] = IF wakeup[t] > 0 THEN wakeup[t] - 1 ELSE 0
  BY DEF Tick
<1>4. \A i \in DOMAIN timer_wait : wakeup[timer_wait[i]] \in Nat
  BY <1>1, <1>2
<1> QED BY <1>2, <1>3, <1>4 DEF TimerSorted

LEMMA ReleaseTimerSorted ==
  ASSUME KernelInv, TimerSorted, ReleaseTimer
  PROVE  TimerSorted'
<1> DEFINE q == timer_wait
           r == timer_wait'
<1>1. q \in Seq(Slots) /\ q # <<>> /\ r = Tail(q) /\ wakeup' = wakeup
  BY DEF KernelInv, TypeOK, ListTypes, ReleaseTimer, TimerDue
<1>2. /\ r \in Seq(Slots) /\ Len(r) = Len(q) - 1 /\ Len(q) \in Nat
      /\ \A i \in 1 .. Len(r) : r[i] = q[i + 1]
      /\ DOMAIN q = 1 .. Len(q) /\ DOMAIN r = 1 .. Len(r)
  BY <1>1, HeadTailProperties, LenProperties
<1>3. \A i, j \in 1 .. Len(q) : i <= j => wakeup[q[i]] <= wakeup[q[j]]
  BY <1>2 DEF TimerSorted
<1> HIDE DEF q, r
<1>4. \A i, j \in 1 .. Len(r) : i <= j => wakeup[r[i]] <= wakeup[r[j]]
  BY <1>2, <1>3
<1> QED BY <1>1, <1>2, <1>4 DEF TimerSorted, r

LEMMA TimersStaySorted ==
  ASSUME KernelInv, TimerSorted, [Next]_vars
  PROVE  TimerSorted'
<1>0. /\ wakeup \in [Slots -> Nat] /\ active \in Slots \cup {NoTask}
      /\ kpc \in {"user", "exit"} => active \in Slots /\ state[active] = "ACTIVE"
  BY DEF KernelInv, TypeOK, TaskTypes, CoreTypes, OneActive
<1>1. ASSUME NEW p \in Int, Create(p) PROVE TimerSorted'
  <2>1. PICK t \in Slots : Free(t) /\ wakeup' = [wakeup EXCEPT ![t] = 0]
    BY <1>1 DEF Create
  <2>2. timer_wait' = timer_wait
    BY <1>1 DEF Create
  <2> QED BY <2>1, <2>2, <1>0, SameTimers DEF Free
<1>2. CASE AwaitTimer
  BY <1>2, AwaitTimerSorted
<1>3. ASSUME NEW e \in IoKinds, AwaitIo(e) PROVE TimerSorted'
  <2>1. timer_wait' = timer_wait /\ kpc = "user"
        /\ (wakeup' = wakeup \/ wakeup' = [wakeup EXCEPT ![active] = 0])
    BY <1>3 DEF AwaitIo
  <2> QED BY <2>1, <1>0, SameTimers
<1>4. CASE ExitFinish
  <2>1. timer_wait' = timer_wait /\ kpc = "exit"
        /\ wakeup' = [wakeup EXCEPT ![active] = 0]
    BY <1>4 DEF ExitFinish
  <2> QED BY <2>1, <1>0, SameTimers
<1>5. CASE Tick
  BY <1>5, TickSorted
<1>6. CASE ReleaseTimer
  BY <1>6, ReleaseTimerSorted
<1>7. CASE UNCHANGED <<timer_wait, wakeup>>
  BY <1>7, SameTimers
<1>8. ASSUME NEW p \in -1 .. NumPriorities, CreateFails(p) PROVE UNCHANGED <<timer_wait, wakeup>>
  BY <1>8 DEF CreateFails, events
<1>9. ASSUME NEW n \in 0 .. MaxTid, Send(n) \/ SendFails(n) \/ Reply(n) \/ ReplyFails(n)
      PROVE  UNCHANGED <<timer_wait, wakeup>>
  BY <1>9 DEF Send, SendFails, Reply, ReplyFails, events
<1>10. CASE Yield \/ Exit \/ Receive \/ AwaitFails
  BY <1>7, <1>10 DEF Yield, Exit, Receive, AwaitFails, events
<1>11. CASE ExitAbortQueued \/ ExitAbortDelivered \/ Requeue \/ NothingReady \/ IdlePoll
  BY <1>7, <1>11 DEF ExitAbortQueued, ExitAbortDelivered, Requeue, NothingReady, IdlePoll, events
<1>12. CASE Halted \/ UNCHANGED vars
  BY <1>7, <1>12 DEF Halted, vars, events
<1>13. ASSUME NEW e \in IoKinds, ReleaseIo(e) \/ IoChange(e)
       PROVE  UNCHANGED <<timer_wait, wakeup>>
  BY <1>13 DEF ReleaseIo, IoChange, events
<1>14. ASSUME NEW p \in Priorities, Schedule(p) PROVE UNCHANGED <<timer_wait, wakeup>>
  BY <1>14 DEF Schedule, events
<1>15. CASE Syscall
  <2>1. \A p \in -1 .. NumPriorities : p \in Int
    OBVIOUS
  <2> QED BY <1>1, <1>2, <1>3, <1>7, <1>8, <1>9, <1>10, <1>15, <2>1 DEF Syscall
<1>16. CASE KernelStep
  BY <1>4, <1>6, <1>7, <1>11, <1>12, <1>13, <1>14, <1>16 DEF KernelStep
<1>17. CASE Hardware
  BY <1>5, <1>7, <1>13, <1>17 DEF Hardware
<1> QED BY <1>12, <1>15, <1>16, <1>17 DEF Next

\* The scheduling decision leaves no sleeper behind: it is taken when the head
\* of the timer list is not due, and nobody behind the head is due earlier.
LEMMA NobodyDueIsLeft ==
  ASSUME KernelInv, TimerSorted, [Next]_vars, kpc = "release", kpc' = "user",
         NEW t \in Slots, state[t] = "EVENT_BLOCKED", event_type[t] = Timer
  PROVE  wakeup[t] > 0
<1>1. ~TimerDue
  <2>1. ASSUME Syscall PROVE FALSE
    BY <2>1 DEF Syscall, Create, CreateFails, Send, SendFails, Reply, ReplyFails,
         Yield, Exit, Receive, AwaitTimer, AwaitFails, AwaitIo
  <2>2. ASSUME Hardware PROVE FALSE
    BY <2>2 DEF Hardware, Tick, IoChange
  <2>3. ASSUME UNCHANGED vars PROVE FALSE
    BY <2>3 DEF vars
  <2>4. CASE KernelStep
    <3>1. ASSUME NEW e \in IoKinds, ReleaseIo(e) PROVE FALSE
      BY <3>1 DEF ReleaseIo
    <3>2. ASSUME ReleaseTimer \/ NothingReady PROVE FALSE
      BY <3>2 DEF ReleaseTimer, NothingReady
    <3>3. ASSUME \/ ExitAbortQueued \/ ExitAbortDelivered \/ ExitFinish
                 \/ Requeue \/ IdlePoll \/ Halted
          PROVE  FALSE
      BY <3>3 DEF ExitAbortQueued, ExitAbortDelivered, ExitFinish, Requeue,
           IdlePoll, Halted
    <3>4. ASSUME NEW p \in Priorities, Schedule(p) PROVE ~TimerDue
      BY <3>4 DEF Schedule, SomethingDue
    <3> QED BY <2>4, <3>1, <3>2, <3>3, <3>4 DEF KernelStep
  <2> QED BY <2>1, <2>2, <2>3, <2>4 DEF Next
<1>2. PICK i \in DOMAIN timer_wait : timer_wait[i] = t
  BY DEF KernelInv, QueueDiscipline, EventsListed, Members
<1>3. timer_wait \in Seq(Slots) /\ wakeup \in [Slots -> Nat]
  BY DEF KernelInv, TypeOK, TaskTypes, ListTypes
<1>4. 1 \in DOMAIN timer_wait /\ 1 <= i /\ timer_wait # <<>>
      /\ Head(timer_wait) = timer_wait[1] /\ timer_wait[1] \in Slots
  BY <1>2, <1>3, LenProperties, ElementOfSeq, EmptySeq
<1>5. wakeup[timer_wait[1]] <= wakeup[t]
  BY <1>2, <1>4 DEF TimerSorted
<1>6. wakeup[timer_wait[1]] # 0
  BY <1>1, <1>4 DEF TimerDue
<1>7. wakeup[timer_wait[1]] \in Nat /\ wakeup[t] \in Nat
  BY <1>3, <1>4
<1> QED BY <1>5, <1>6, <1>7

\* No sleeper whose time has come is passed over when the handler lets a task
\* run (timer_release_ready_tasks looks at the head of its list only).
THEOREM SleepersAreNotPassedOver == Spec => NobodyOversleeps
<1>1. Init => TimerSorted
  BY DEF Init, TimerSorted
<1>2. KernelInv /\ TimerSorted /\ [Next]_vars => TimerSorted'
  BY TimersStaySorted
<1>3. KernelInv /\ TimerSorted /\ [Next]_vars
        => [kpc = "release" /\ kpc' = "user" =>
              \A t \in Slots :
                state[t] = "EVENT_BLOCKED" /\ event_type[t] = Timer
                  => wakeup[t] > 0]_vars
  BY NobodyDueIsLeft
<1> QED BY <1>1, <1>2, <1>3, KernelInvariant, PTL DEF Spec, NobodyOversleeps

-----------------------------------------------------------------------------
(***************************************************************************)
(* The kernel's message passing implements Rendezvous, for every number of *)
(* descriptors, priorities, events and tids.                               *)
(*                                                                         *)
(* A tid that is carried by a live descriptor shows that descriptor, any   *)
(* other shows a task that is idle, named nobody and has an empty inbox    *)
(* (Represents).  Because no two descriptors in use carry the same tid     *)
(* (KernelInv), a step that changes one descriptor changes what is seen of *)
(* one task, and every step is followed from descriptors to tids that way. *)
(***************************************************************************)
Live == {t \in Slots : Exists(t)}

Represents ==
  /\ DOMAIN Phase = IpcTids /\ DOMAIN Target = IpcTids /\ DOMAIN Inbox = IpcTids
  /\ Phase = [n \in IpcTids |-> Phase[n]]
  /\ Target = [n \in IpcTids |-> Target[n]]
  /\ Inbox = [n \in IpcTids |-> Inbox[n]]
  /\ \A t \in Live : /\ tid[t] \in IpcTids
                     /\ Phase[tid[t]] = PhaseOf(t)
                     /\ Target[tid[t]] = send_to[t]
                     /\ Inbox[tid[t]] = InboxOf(t)
  /\ \A n \in IpcTids :
       (\A t \in Live : tid[t] # n)
         => Phase[n] = "idle" /\ Target[n] = 0 /\ Inbox[n] = <<>>

\* The mapping shows each live descriptor under its tid.
LEMMA MappingRepresents == KernelInv /\ CallsNamed => Represents
<1> SUFFICES ASSUME KernelInv, CallsNamed PROVE Represents
  OBVIOUS
<1>1. ASSUME NEW t \in Live
      PROVE  tid[t] \in IpcTids /\ Carriers(tid[t]) = {t}
  <2>1. t \in Slots /\ state[t] # "UNUSED" /\ Exists(t)
    BY DEF Live, Exists
  <2>2. tid[t] \in Nat /\ tid[t] # 0 /\ tid[t] < next_tid /\ next_tid <= MaxTid + 1
    BY <2>1 DEF CallsNamed, KernelInv, TidsUnique, TypeOK, TaskTypes
  <2>3. tid[t] \in IpcTids
    BY <2>2, KernelAssumption DEF IpcTids, KernelInv, TypeOK, CoreTypes
  <2>4. \A u \in Slots : tid[u] = tid[t] /\ Exists(u) => u = t
    BY <2>1 DEF KernelInv, TidsUnique, Exists
  <2> QED BY <2>1, <2>3, <2>4 DEF Carriers
<1>2. ASSUME NEW n \in IpcTids, \A t \in Live : tid[t] # n
      PROVE  Carriers(n) = {}
  BY <1>2 DEF Carriers, Live
<1>3. \A t \in Live : (CHOOSE u \in {t} : TRUE) = t
  OBVIOUS
<1>4. /\ Phase = [n \in IpcTids |-> IF Carriers(n) = {} THEN "idle"
                                    ELSE PhaseOf(CHOOSE t \in Carriers(n) : TRUE)]
      /\ Target = [n \in IpcTids |-> IF Carriers(n) = {} THEN 0
                                     ELSE TargetOf(CHOOSE t \in Carriers(n) : TRUE)]
      /\ Inbox = [n \in IpcTids |-> IF Carriers(n) = {} THEN <<>>
                                    ELSE InboxOf(CHOOSE t \in Carriers(n) : TRUE)]
  BY DEF Phase, Target, Inbox, OfTask
<1>5. /\ DOMAIN Phase = IpcTids /\ DOMAIN Target = IpcTids /\ DOMAIN Inbox = IpcTids
      /\ Phase = [n \in IpcTids |-> Phase[n]]
      /\ Target = [n \in IpcTids |-> Target[n]]
      /\ Inbox = [n \in IpcTids |-> Inbox[n]]
  BY <1>4
<1>6. ASSUME NEW t \in Live
      PROVE  /\ Phase[tid[t]] = PhaseOf(t)
             /\ Target[tid[t]] = send_to[t]
             /\ Inbox[tid[t]] = InboxOf(t)
  <2>1. Carriers(tid[t]) # {} /\ (CHOOSE u \in Carriers(tid[t]) : TRUE) = t
    BY <1>1, <1>3
  <2>2. /\ Phase[tid[t]] = PhaseOf(CHOOSE u \in Carriers(tid[t]) : TRUE)
        /\ Target[tid[t]] = TargetOf(CHOOSE u \in Carriers(tid[t]) : TRUE)
        /\ Inbox[tid[t]] = InboxOf(CHOOSE u \in Carriers(tid[t]) : TRUE)
    BY <2>1, <1>1, <1>4
  <2> QED BY <2>1, <2>2 DEF TargetOf
<1>7. ASSUME NEW n \in IpcTids, \A t \in Live : tid[t] # n
      PROVE  Phase[n] = "idle" /\ Target[n] = 0 /\ Inbox[n] = <<>>
  BY <1>2, <1>4, <1>7
<1> QED BY <1>1, <1>5, <1>6, <1>7 DEF Represents

-----------------------------------------------------------------------------
(* CallsNamed holds all along.                                             *)

LEMMA CallsNamedInit == ASSUME Init PROVE CallsNamed
  BY KernelAssumption DEF Init, CallsNamed, Blocked, Slots

\* A step in which no descriptor enters or leaves use, and no call opens or closes.
LEMMA CallsNamedKept ==
  ASSUME CallsNamed, UNCHANGED <<tid, send_to, next_tid>>,
         \A t \in Slots : (state'[t] = "UNUSED") = (state[t] = "UNUSED"),
         \A t \in Slots : Blocked(t) => Blocked(t)'
  PROVE  CallsNamed'
  BY DEF CallsNamed

LEMMA CallsNamedStep ==
  ASSUME KernelInv, CallsNamed, [Next]_vars
  PROVE  CallsNamed'
<1>0. /\ state \in [Slots -> TaskState] /\ tid \in [Slots -> Nat]
      /\ send_to \in [Slots -> Nat] /\ active \in Slots \cup {NoTask}
      /\ next_tid \in Nat \ {0}
      /\ kpc \in {"user", "exit"} => active \in Slots /\ state[active] = "ACTIVE"
  BY DEF KernelInv, TypeOK, TaskTypes, CoreTypes, OneActive
<1>1. ASSUME NEW p \in -1 .. NumPriorities, Create(p) PROVE CallsNamed'
  <2>1. PICK t \in Slots :
          /\ Free(t)
          /\ tid' = [tid EXCEPT ![t] = next_tid]
          /\ state' = [state EXCEPT ![t] = "READY"]
    BY <1>1 DEF Create
  <2>2. next_tid <= MaxTid /\ next_tid' = next_tid + 1 /\ send_to' = send_to
    BY <1>1 DEF Create
  <2>3. MaxTid \in Nat
    BY KernelAssumption
  <2> QED BY <2>1, <2>2, <2>3, <1>0 DEF CallsNamed, Blocked, Free
<1>2. ASSUME NEW n \in 0 .. MaxTid, Send(n) PROVE CallsNamed'
  <2>1. PICK r \in Named(n) :
          /\ send_to' = [send_to EXCEPT ![active] = n]
          /\ \/ /\ state[r] = "RECEIVE_BLOCKED"
                /\ state' = [state EXCEPT ![active] = "REPLY_BLOCKED", ![r] = "READY"]
             \/ state' = [state EXCEPT ![active] = "SEND_BLOCKED"]
    BY <1>2 DEF Send
  <2>2. r \in Slots /\ state[r] # "UNUSED"
    BY DEF Named
  <2>3. UNCHANGED <<tid, next_tid>> /\ kpc = "user"
    BY <1>2 DEF Send
  <2> QED BY <2>1, <2>2, <2>3, <1>0 DEF CallsNamed, Blocked
<1>3. ASSUME NEW n \in 0 .. MaxTid, Reply(n) PROVE CallsNamed'
  <2>1. PICK s \in Named(n) :
          /\ state[s] = "REPLY_BLOCKED"
          /\ send_to' = [send_to EXCEPT ![s] = 0]
          /\ state' = [state EXCEPT ![s] = "READY"]
    BY <1>3 DEF Reply, AwaitsReplyFrom
  <2>2. s \in Slots /\ UNCHANGED <<tid, next_tid>>
    BY <1>3 DEF Named, Reply
  <2> QED BY <2>1, <2>2, <1>0 DEF CallsNamed, Blocked
<1>4. CASE Receive
  <2>1. UNCHANGED <<tid, send_to, next_tid>> /\ kpc = "user"
    BY <1>4 DEF Receive
  <2>2. CASE send_queue[active] = <<>>
    <3>1. state' = [state EXCEPT ![active] = "RECEIVE_BLOCKED"]
      BY <1>4, <2>2 DEF Receive
    <3> QED BY <3>1, <2>1, <1>0, CallsNamedKept DEF Blocked
  <2>3. CASE send_queue[active] # <<>>
    <3>1. state' = [state EXCEPT ![Head(send_queue[active])] = "REPLY_BLOCKED"]
      BY <1>4, <2>3 DEF Receive
    <3>2. /\ Head(send_queue[active]) \in Slots
          /\ state[Head(send_queue[active])] = "SEND_BLOCKED"
      BY <2>1, <2>3, <1>0, TailLine DEF KernelInv, QueueDiscipline, TypeOK, ListTypes,
           ListedOnce, SendersListed
    <3> QED BY <3>1, <3>2, <2>1, <1>0, CallsNamedKept DEF Blocked
  <2> QED BY <2>2, <2>3
<1>5. ASSUME NEW w \in Slots, Abort(w), Blocked(w), UNCHANGED <<tid, next_tid>>
      PROVE  CallsNamed'
  BY <1>5, <1>0 DEF Abort, CallsNamed, Blocked
<1>6. CASE ExitAbortQueued
  <2>1. /\ Head(send_queue[active]) \in Slots
        /\ state[Head(send_queue[active])] = "SEND_BLOCKED"
    BY <1>6, <1>0, TailLine DEF ExitAbortQueued, KernelInv, QueueDiscipline, TypeOK, ListTypes,
         ListedOnce, SendersListed
  <2> QED BY <2>1, <1>5, <1>6 DEF ExitAbortQueued, Blocked
<1>7. CASE ExitAbortDelivered
  <2>1. PICK w \in Owed(active) : Abort(w)
    BY <1>7 DEF ExitAbortDelivered
  <2> QED BY <2>1, <1>5, <1>7 DEF ExitAbortDelivered, Owed
<1>8. ASSUME NEW t \in Slots, NEW s \in TaskState \ {"UNUSED"},
             state' = [state EXCEPT ![t] = s], state[t] # "UNUSED", ~Blocked(t),
             UNCHANGED <<tid, send_to, next_tid>>
      PROVE  CallsNamed'
  BY <1>8, <1>0, CallsNamedKept DEF Blocked
<1>9. CASE AwaitTimer \/ ExitFinish
  BY <1>8, <1>9, <1>0 DEF AwaitTimer, ExitFinish, TaskState, Blocked
<1>10. CASE UNCHANGED <<state, tid, send_to, next_tid>>
  BY <1>10, CallsNamedKept DEF Blocked
<1>11. ASSUME NEW e \in IoKinds, AwaitIo(e) PROVE CallsNamed'
  BY <1>8, <1>10, <1>11, <1>0 DEF AwaitIo, TaskState, Blocked
<1>12. CASE Requeue
  <2>1. active \in Slots
    BY <1>12, <1>0 DEF KernelInv, OneActive, Requeue
  <2> QED BY <2>1, <1>8, <1>10, <1>12 DEF Requeue, TaskState, Blocked, ipc
<1>13. CASE ReleaseTimer
  <2>1. Head(timer_wait) \in Slots /\ state[Head(timer_wait)] = "EVENT_BLOCKED"
    BY <1>13, TailLine DEF ReleaseTimer, TimerDue, KernelInv, QueueDiscipline, TypeOK,
         ListTypes, ListedOnce, EventsListed
  <2> QED BY <2>1, <1>8, <1>13 DEF ReleaseTimer, Wake, TaskState, Blocked
<1>14. ASSUME NEW e \in IoKinds, ReleaseIo(e) PROVE CallsNamed'
  <2>1. Head(io_wait[e]) \in Slots /\ state[Head(io_wait[e])] = "EVENT_BLOCKED"
    BY <1>14, TailLine DEF ReleaseIo, IoDue, KernelInv, QueueDiscipline, TypeOK,
         ListTypes, ListedOnce, EventsListed
  <2> QED BY <2>1, <1>8, <1>14 DEF ReleaseIo, Wake, TaskState, Blocked
<1>15. ASSUME NEW p \in Priorities, Schedule(p) PROVE CallsNamed'
  <2>1. Head(ready[p]) \in Slots /\ state[Head(ready[p])] = "READY"
    BY <1>15, TailLine DEF Schedule, MostUrgent, KernelInv, QueueDiscipline, TypeOK,
         ListTypes, ListedOnce, ReadyListed
  <2> QED BY <2>1, <1>8, <1>15 DEF Schedule, TaskState, Blocked, ipc
<1>16. ASSUME NEW p \in -1 .. NumPriorities, CreateFails(p)
       PROVE  UNCHANGED <<state, tid, send_to, next_tid>>
  BY <1>16 DEF CreateFails, tcb
<1>17. ASSUME NEW n \in 0 .. MaxTid, SendFails(n) \/ ReplyFails(n)
       PROVE  UNCHANGED <<state, tid, send_to, next_tid>>
  BY <1>17 DEF SendFails, ReplyFails, tcb
<1>18. CASE Yield \/ Exit \/ AwaitFails \/ NothingReady \/ IdlePoll \/ Halted \/ Tick
            \/ UNCHANGED vars
  BY <1>10, <1>18 DEF Yield, Exit, AwaitFails, NothingReady, IdlePoll, Halted, Tick, vars, tcb, ipc
<1>19. ASSUME NEW e \in IoKinds, IoChange(e)
       PROVE  UNCHANGED <<state, tid, send_to, next_tid>>
  BY <1>19 DEF IoChange, tcb, ipc
<1>20. CASE Syscall
  BY <1>1, <1>2, <1>3, <1>4, <1>9, <1>10, <1>11, <1>16, <1>17, <1>18, <1>20 DEF Syscall
<1>21. CASE KernelStep
  BY <1>6, <1>7, <1>9, <1>12, <1>13, <1>14, <1>15, <1>18, <1>21 DEF KernelStep
<1>22. CASE Hardware
  BY <1>10, <1>18, <1>19, <1>22 DEF Hardware
<1> QED BY <1>18, <1>20, <1>21, <1>22 DEF Next

\* Only Receive blocks in Receive, and it does when its queue is empty; Send
\* queues with a task that is not blocked there.
LEMMA NoneKeptWaitingStep ==
  ASSUME KernelInv, NoneKeptWaiting, [Next]_vars
  PROVE  NoneKeptWaiting'
<1>0. /\ state \in [Slots -> TaskState] /\ send_queue \in [Slots -> Seq(Slots)]
      /\ active \in Slots \cup {NoTask}
      /\ kpc \in {"user", "exit"} => active \in Slots /\ state[active] = "ACTIVE"
  BY DEF KernelInv, TypeOK, TaskTypes, ListTypes, CoreTypes, OneActive
<1>1. ASSUME \A t \in Slots : state'[t] = "RECEIVE_BLOCKED" =>
                                state[t] = "RECEIVE_BLOCKED" /\ send_queue'[t] = send_queue[t]
      PROVE  NoneKeptWaiting'
  BY <1>1 DEF NoneKeptWaiting
<1>2. ASSUME NEW p \in -1 .. NumPriorities, Create(p) PROVE NoneKeptWaiting'
  <2>1. PICK t \in Slots : /\ state' = [state EXCEPT ![t] = "READY"]
                           /\ send_queue' = [send_queue EXCEPT ![t] = <<>>]
    BY <1>2 DEF Create
  <2> QED BY <2>1, <1>0, <1>1
<1>3. ASSUME NEW n \in 0 .. MaxTid, Send(n) PROVE NoneKeptWaiting'
  <2>1. PICK r \in Named(n) :
          \/ /\ state' = [state EXCEPT ![active] = "REPLY_BLOCKED", ![r] = "READY"]
             /\ send_queue' = send_queue
          \/ /\ state[r] # "RECEIVE_BLOCKED"
             /\ state' = [state EXCEPT ![active] = "SEND_BLOCKED"]
             /\ send_queue' = [send_queue EXCEPT ![r] = Append(@, active)]
    BY <1>3 DEF Send
  <2>2. r \in Slots /\ kpc = "user"
    BY <1>3 DEF Named, Send
  <2> QED BY <2>1, <2>2, <1>0, <1>1
<1>4. ASSUME NEW n \in 0 .. MaxTid, Reply(n) PROVE NoneKeptWaiting'
  <2>1. PICK s \in Named(n) : state' = [state EXCEPT ![s] = "READY"]
    BY <1>4 DEF Reply
  <2>2. s \in Slots /\ send_queue' = send_queue
    BY <1>4 DEF Named, Reply
  <2> QED BY <2>1, <2>2, <1>0, <1>1
<1>5. CASE Receive
  <2>1. kpc = "user"
    BY <1>5 DEF Receive
  <2>2. CASE send_queue[active] = <<>>
    <3>1. state' = [state EXCEPT ![active] = "RECEIVE_BLOCKED"] /\ send_queue' = send_queue
      BY <1>5, <2>2 DEF Receive
    <3> QED BY <3>1, <2>2, <1>0 DEF NoneKeptWaiting
  <2>3. CASE send_queue[active] # <<>>
    <3>1. /\ state' = [state EXCEPT ![Head(send_queue[active])] = "REPLY_BLOCKED"]
          /\ send_queue' = [send_queue EXCEPT ![active] = Tail(@)]
      BY <1>5, <2>3 DEF Receive
    <3>2. /\ Head(send_queue[active]) \in Slots
          /\ state[Head(send_queue[active])] = "SEND_BLOCKED"
      BY <2>1, <2>3, <1>0, TailLine DEF KernelInv, QueueDiscipline, TypeOK, ListTypes,
           ListedOnce, SendersListed
    <3> QED BY <3>1, <3>2, <2>1, <1>0, <1>1
  <2> QED BY <2>2, <2>3
<1>6. CASE ExitAbortQueued
  <2>1. /\ kpc = "exit"
        /\ state' = [state EXCEPT ![Head(send_queue[active])] = "READY"]
        /\ send_queue' = [send_queue EXCEPT ![active] = Tail(@)]
    BY <1>6 DEF ExitAbortQueued, Abort
  <2>2. Head(send_queue[active]) \in Slots /\ Head(send_queue[active]) # active
    BY <1>6, <2>1, <1>0, TailLine DEF ExitAbortQueued, KernelInv, QueueDiscipline, TypeOK,
         ListTypes, ListedOnce, SendersListed
  <2> QED BY <2>1, <2>2, <1>0, <1>1
<1>7. CASE ExitAbortDelivered
  <2>1. PICK w \in Slots : state' = [state EXCEPT ![w] = "READY"]
    BY <1>7 DEF ExitAbortDelivered, Abort, Owed
  <2>2. send_queue' = send_queue
    BY <1>7 DEF ExitAbortDelivered
  <2> QED BY <2>1, <2>2, <1>0, <1>1
<1>8. ASSUME NEW t \in Slots, NEW s \in TaskState \ {"RECEIVE_BLOCKED"},
             state' = [state EXCEPT ![t] = s], send_queue' = send_queue
      PROVE  NoneKeptWaiting'
  BY <1>8, <1>0, <1>1
<1>9. CASE AwaitTimer \/ ExitFinish
  BY <1>8, <1>9, <1>0 DEF AwaitTimer, ExitFinish, TaskState
<1>10. CASE UNCHANGED <<state, send_queue>>
  BY <1>10, <1>1
<1>11. ASSUME NEW e \in IoKinds, AwaitIo(e) PROVE NoneKeptWaiting'
  BY <1>8, <1>10, <1>11, <1>0 DEF AwaitIo, TaskState
<1>12. CASE Requeue
  <2>1. active \in Slots
    BY <1>12, <1>0 DEF KernelInv, OneActive, Requeue
  <2> QED BY <2>1, <1>8, <1>10, <1>12 DEF Requeue, TaskState, ipc
<1>13. CASE ReleaseTimer
  <2>1. Head(timer_wait) \in Slots
    BY <1>13, TailLine DEF ReleaseTimer, TimerDue, KernelInv, QueueDiscipline, TypeOK,
         ListTypes, ListedOnce
  <2> QED BY <2>1, <1>8, <1>13 DEF ReleaseTimer, Wake, TaskState
<1>14. ASSUME NEW e \in IoKinds, ReleaseIo(e) PROVE NoneKeptWaiting'
  <2>1. Head(io_wait[e]) \in Slots
    BY <1>14, TailLine DEF ReleaseIo, IoDue, KernelInv, QueueDiscipline, TypeOK,
         ListTypes, ListedOnce
  <2> QED BY <2>1, <1>8, <1>14 DEF ReleaseIo, Wake, TaskState
<1>15. ASSUME NEW p \in Priorities, Schedule(p) PROVE NoneKeptWaiting'
  <2>1. Head(ready[p]) \in Slots
    BY <1>15, TailLine DEF Schedule, MostUrgent, KernelInv, QueueDiscipline, TypeOK,
         ListTypes, ListedOnce
  <2> QED BY <2>1, <1>8, <1>15 DEF Schedule, TaskState, ipc
<1>16. ASSUME NEW p \in -1 .. NumPriorities, CreateFails(p) PROVE NoneKeptWaiting'
  BY <1>10, <1>16 DEF CreateFails, tcb
<1>17. ASSUME NEW n \in 0 .. MaxTid, SendFails(n) \/ ReplyFails(n) PROVE NoneKeptWaiting'
  BY <1>10, <1>17 DEF SendFails, ReplyFails, tcb
<1>18. CASE Yield \/ Exit \/ AwaitFails \/ NothingReady \/ IdlePoll \/ Halted \/ Tick
            \/ UNCHANGED vars
  BY <1>10, <1>18 DEF Yield, Exit, AwaitFails, NothingReady, IdlePoll, Halted, Tick, vars, tcb, ipc
<1>19. ASSUME NEW e \in IoKinds, IoChange(e) PROVE NoneKeptWaiting'
  BY <1>10, <1>19 DEF IoChange, tcb, ipc
<1>20. CASE Syscall
  BY <1>2, <1>3, <1>4, <1>5, <1>9, <1>11, <1>16, <1>17, <1>18, <1>20 DEF Syscall
<1>21. CASE KernelStep
  BY <1>6, <1>7, <1>9, <1>12, <1>13, <1>14, <1>15, <1>18, <1>21 DEF KernelStep
<1>22. CASE Hardware
  BY <1>18, <1>19, <1>22 DEF Hardware
<1> QED BY <1>18, <1>20, <1>21, <1>22 DEF Next

-----------------------------------------------------------------------------
(* From descriptors to tids.                                               *)

\* What a list of descriptors shows: the tids they carry, in the same order.
LEMMA ShownLists ==
  ASSUME NEW num \in [Slots -> Nat], NEW q \in Seq(Slots), NEW c \in Slots
  PROVE  /\ [i \in DOMAIN Append(q, c) |-> num[Append(q, c)[i]]]
              = Append([i \in DOMAIN q |-> num[q[i]]], num[c])
         /\ q = <<>> => [i \in DOMAIN q |-> num[q[i]]] = <<>>
         /\ q # <<>> =>
              /\ [i \in DOMAIN q |-> num[q[i]]] # <<>>
              /\ Head([i \in DOMAIN q |-> num[q[i]]]) = num[Head(q)]
              /\ [i \in DOMAIN Tail(q) |-> num[Tail(q)[i]]]
                   = Tail([i \in DOMAIN q |-> num[q[i]]])
<1> DEFINE s == [i \in DOMAIN q |-> num[q[i]]]
<1>1. /\ DOMAIN q = 1 .. Len(q) /\ Len(q) \in Nat
      /\ \A i \in 1 .. Len(q) : q[i] \in Slots
  BY LenProperties, ElementOfSeq
<1>2. /\ s \in Seq(Nat) /\ Len(s) = Len(q)
      /\ \A i \in 1 .. Len(q) : s[i] = num[q[i]]
  <2>1. s \in [1 .. Len(q) -> Nat]
    BY <1>1
  <2>2. s \in Seq(Nat) /\ DOMAIN s = 1 .. Len(q)
    BY <1>1, <2>1
  <2>3. Len(s) = Len(q)
    BY <1>1, <2>2, LenProperties
  <2> QED BY <1>1, <2>2, <2>3
<1>3. [i \in DOMAIN Append(q, c) |-> num[Append(q, c)[i]]] = Append(s, num[c])
  <2> DEFINE a == Append(q, c)
             b == Append(s, num[c])
             f == [i \in DOMAIN a |-> num[a[i]]]
  <2>1. /\ DOMAIN a = 1 .. Len(q) + 1
        /\ \A i \in 1 .. Len(q) : a[i] = q[i]
        /\ a[Len(q) + 1] = c
    BY AppendProperties, LenProperties
  <2>2. /\ b \in Seq(Nat) /\ Len(b) = Len(q) + 1
        /\ \A i \in 1 .. Len(q) : b[i] = s[i]
        /\ b[Len(q) + 1] = num[c]
    <3>1. num[c] \in Nat
      OBVIOUS
    <3> HIDE DEF s
    <3> QED BY <3>1, <1>2, AppendProperties
  <2>3. DOMAIN b = 1 .. Len(q) + 1 /\ b = [i \in 1 .. Len(q) + 1 |-> b[i]]
    <3> HIDE DEF b
    <3> QED BY <2>2, LenProperties
  <2> HIDE DEF a, b, s
  <2>4. ASSUME NEW i \in 1 .. Len(q) + 1 PROVE num[a[i]] = b[i]
    <3>1. CASE i = Len(q) + 1
      BY <3>1, <2>1, <2>2
    <3>2. CASE i # Len(q) + 1
      <4>1. i \in 1 .. Len(q)
        BY <3>2, <1>1
      <4>2. b[i] = s[i] /\ s[i] = num[q[i]] /\ a[i] = q[i]
        BY <4>1, <2>1, <2>2, <1>2
      <4> QED BY <4>2
    <3> QED BY <3>1, <3>2
  <2> QED BY <2>1, <2>3, <2>4 DEF a, b
<1>4. q = <<>> => s = <<>>
  BY <1>2, EmptySeq
<1>5. ASSUME q # <<>>
      PROVE  /\ s # <<>> /\ Head(s) = num[Head(q)]
             /\ [i \in DOMAIN Tail(q) |-> num[Tail(q)[i]]] = Tail(s)
  <2> DEFINE a == Tail(q)
             b == Tail(s)
             f == [i \in DOMAIN a |-> num[a[i]]]
  <2>1. Len(q) > 0 /\ Head(q) = q[1] /\ 1 \in 1 .. Len(q)
    BY <1>1, <1>5, EmptySeq
  <2>2. s # <<>> /\ Head(s) = s[1]
    BY <1>2, <2>1, EmptySeq
  <2>3. /\ DOMAIN a = 1 .. Len(q) - 1
        /\ \A i \in 1 .. Len(q) - 1 : a[i] = q[i + 1]
    BY <1>5, HeadTailProperties, LenProperties
  <2>4. /\ b \in Seq(Nat) /\ Len(b) = Len(q) - 1
        /\ \A i \in 1 .. Len(q) - 1 : b[i] = s[i + 1]
    <3> HIDE DEF s
    <3> QED BY <1>2, <2>2, HeadTailProperties
  <2>5. b = [i \in 1 .. Len(q) - 1 |-> b[i]]
    <3> HIDE DEF b
    <3> QED BY <2>4, LenProperties
  <2> HIDE DEF a, b, s
  <2>6. ASSUME NEW i \in 1 .. Len(q) - 1 PROVE num[a[i]] = b[i]
    <3>1. i + 1 \in 1 .. Len(q)
      BY <1>1
    <3>2. b[i] = s[i + 1] /\ s[i + 1] = num[q[i + 1]] /\ a[i] = q[i + 1]
      BY <3>1, <2>3, <2>4, <1>2
    <3> QED BY <3>2
  <2>7. [i \in DOMAIN a |-> num[a[i]]] = b
    BY <2>3, <2>5, <2>6
  <2> QED BY <1>2, <2>1, <2>2, <2>7 DEF a, b
<1> QED BY <1>3, <1>4, <1>5 DEF s

\* A step after which the same descriptors live under the same tids, and all
\* but t look as before, changes what is seen of t's tid only.
LEMMA OneShown ==
  ASSUME KernelInv, Represents, Represents', Live' = Live, tid' = tid, NEW t \in Live
  PROVE  /\ (\A u \in Live \ {t} : PhaseOf(u)' = PhaseOf(u))
              => Phase' = [Phase EXCEPT ![tid[t]] = PhaseOf(t)']
         /\ (\A u \in Live \ {t} : send_to'[u] = send_to[u])
              => Target' = [Target EXCEPT ![tid[t]] = send_to'[t]]
         /\ (\A u \in Live \ {t} : InboxOf(u)' = InboxOf(u))
              => Inbox' = [Inbox EXCEPT ![tid[t]] = InboxOf(t)']
<1>1. \A u \in Live : tid[u] = tid[t] => u = t
  BY DEF Live, KernelInv, TidsUnique, Exists
<1>2. /\ Phase' = [n \in IpcTids |-> Phase'[n]]
      /\ Target' = [n \in IpcTids |-> Target'[n]]
      /\ Inbox' = [n \in IpcTids |-> Inbox'[n]]
      /\ Phase = [n \in IpcTids |-> Phase[n]]
      /\ Target = [n \in IpcTids |-> Target[n]]
      /\ Inbox = [n \in IpcTids |-> Inbox[n]]
      /\ tid[t] \in IpcTids
  BY DEF Represents, IpcTids
<1>3. \A u \in Live : /\ Phase[tid[u]] = PhaseOf(u)
                      /\ Target[tid[u]] = send_to[u]
                      /\ Inbox[tid[u]] = InboxOf(u)
  BY DEF Represents
<1>4. \A u \in Live : /\ Phase'[tid[u]] = PhaseOf(u)'
                      /\ Target'[tid[u]] = send_to'[u]
                      /\ Inbox'[tid[u]] = InboxOf(u)'
  BY DEF Represents
<1>5. \A n \in IpcTids :
        (\A u \in Live : tid[u] # n)
          => /\ Phase[n] = "idle" /\ Phase'[n] = "idle"
             /\ Target[n] = 0 /\ Target'[n] = 0
             /\ Inbox[n] = <<>> /\ Inbox'[n] = <<>>
  BY DEF Represents, IpcTids
<1>6. ASSUME \A u \in Live \ {t} : PhaseOf(u)' = PhaseOf(u)
      PROVE  Phase' = [Phase EXCEPT ![tid[t]] = PhaseOf(t)']
  <2>1. \A n \in IpcTids : Phase'[n] = IF n = tid[t] THEN PhaseOf(t)' ELSE Phase[n]
    BY <1>1, <1>3, <1>4, <1>5, <1>6
  <2> QED BY <1>2, <2>1
<1>7. ASSUME \A u \in Live \ {t} : send_to'[u] = send_to[u]
      PROVE  Target' = [Target EXCEPT ![tid[t]] = send_to'[t]]
  <2>1. \A n \in IpcTids : Target'[n] = IF n = tid[t] THEN send_to'[t] ELSE Target[n]
    BY <1>1, <1>3, <1>4, <1>5, <1>7
  <2> QED BY <1>2, <2>1
<1>8. ASSUME \A u \in Live \ {t} : InboxOf(u)' = InboxOf(u)
      PROVE  Inbox' = [Inbox EXCEPT ![tid[t]] = InboxOf(t)']
  <2>1. \A n \in IpcTids : Inbox'[n] = IF n = tid[t] THEN InboxOf(t)' ELSE Inbox[n]
    BY <1>1, <1>3, <1>4, <1>5, <1>8
  <2> QED BY <1>2, <2>1
<1> QED BY <1>6, <1>7, <1>8

\* A step after which all live descriptors look as before shows nothing.
LEMMA NoneShown ==
  ASSUME KernelInv, Represents, Represents', Live' = Live, tid' = tid
  PROVE  /\ (\A u \in Live : PhaseOf(u)' = PhaseOf(u)) => Phase' = Phase
         /\ (\A u \in Live : send_to'[u] = send_to[u]) => Target' = Target
         /\ (\A u \in Live : InboxOf(u)' = InboxOf(u)) => Inbox' = Inbox
<1>1. /\ Phase' = [n \in IpcTids |-> Phase'[n]]
      /\ Target' = [n \in IpcTids |-> Target'[n]]
      /\ Inbox' = [n \in IpcTids |-> Inbox'[n]]
      /\ Phase = [n \in IpcTids |-> Phase[n]]
      /\ Target = [n \in IpcTids |-> Target[n]]
      /\ Inbox = [n \in IpcTids |-> Inbox[n]]
  BY DEF Represents, IpcTids
<1>2. \A u \in Live : /\ Phase[tid[u]] = PhaseOf(u)
                      /\ Target[tid[u]] = send_to[u]
                      /\ Inbox[tid[u]] = InboxOf(u)
                      /\ Phase'[tid[u]] = PhaseOf(u)'
                      /\ Target'[tid[u]] = send_to'[u]
                      /\ Inbox'[tid[u]] = InboxOf(u)'
  BY DEF Represents
<1>3. \A n \in IpcTids :
        (\A u \in Live : tid[u] # n)
          => /\ Phase[n] = "idle" /\ Phase'[n] = "idle"
             /\ Target[n] = 0 /\ Target'[n] = 0
             /\ Inbox[n] = <<>> /\ Inbox'[n] = <<>>
  BY DEF Represents, IpcTids
<1>4. ASSUME \A u \in Live : PhaseOf(u)' = PhaseOf(u) PROVE Phase' = Phase
  <2>1. \A n \in IpcTids : Phase'[n] = Phase[n]
    BY <1>2, <1>3, <1>4
  <2> QED BY <1>1, <2>1
<1>5. ASSUME \A u \in Live : send_to'[u] = send_to[u] PROVE Target' = Target
  <2>1. \A n \in IpcTids : Target'[n] = Target[n]
    BY <1>2, <1>3, <1>5
  <2> QED BY <1>1, <2>1
<1>6. ASSUME \A u \in Live : InboxOf(u)' = InboxOf(u) PROVE Inbox' = Inbox
  <2>1. \A n \in IpcTids : Inbox'[n] = Inbox[n]
    BY <1>2, <1>3, <1>6
  <2> QED BY <1>1, <2>1
<1> QED BY <1>4, <1>5, <1>6

-----------------------------------------------------------------------------
(* One lemma per kind of step: what it is to the tasks.                    *)

\* The task that makes a system call exists, is not leaving, and is idle.
LEMMA Speaker ==
  ASSUME KernelInv, Represents, kpc = "user"
  PROVE  /\ active \in Slots /\ active \in Live /\ state[active] = "ACTIVE"
         /\ Leaving = {} /\ tid[active] \in Alive
         /\ tid[active] \in IpcSystem!Present
         /\ Phase[tid[active]] = "idle"
<1>1. active \in Slots /\ state[active] = "ACTIVE"
  BY DEF KernelInv, OneActive, TypeOK, CoreTypes, NoTask
<1>2. active \in Live
  BY <1>1 DEF Live, Exists
<1>3. Leaving = {} /\ tid[active] \in Alive
  BY <1>2 DEF Leaving, Alive, Live
<1>4. Phase[tid[active]] = "idle"
  BY <1>1, <1>2 DEF Represents, PhaseOf
<1> QED BY <1>1, <1>2, <1>3, <1>4 DEF IpcSystem!Present

\* The same of the task that leaves.
LEMMA Leaver ==
  ASSUME KernelInv, Represents, kpc = "exit"
  PROVE  /\ active \in Slots /\ active \in Live /\ state[active] = "ACTIVE"
         /\ Leaving = {tid[active]}
         /\ Phase[tid[active]] = "idle"
<1>1. active \in Slots /\ state[active] = "ACTIVE"
  BY DEF KernelInv, OneActive, TypeOK, CoreTypes, NoTask
<1>2. active \in Live
  BY <1>1 DEF Live, Exists
<1>3. Phase[tid[active]] = "idle"
  BY <1>1, <1>2 DEF Represents, PhaseOf
<1> QED BY <1>1, <1>2, <1>3 DEF Leaving

\* Nothing a task could see changes.
LEMMA Unseen ==
  ASSUME KernelInv, Represents, Represents', UNCHANGED <<tid, send_to, send_queue, next_tid>>,
         \A u \in Slots : Exists(u)' = Exists(u) /\ PhaseOf(u)' = PhaseOf(u),
         Leaving' = Leaving
  PROVE  UNCHANGED IpcView
<1>1. Live' = Live /\ Alive' = Alive
  BY DEF Live, Alive, Slots
<1>2. \A u \in Live : /\ PhaseOf(u)' = PhaseOf(u)
                      /\ send_to'[u] = send_to[u]
                      /\ InboxOf(u)' = InboxOf(u)
  BY DEF Live, InboxOf
<1> QED BY <1>1, <1>2, NoneShown DEF IpcView

\* Wakes, blocks for an event and turns at the core, seen by nobody: the
\* descriptor that changes its state is idle before and after.
LEMMA UnseenChange ==
  ASSUME KernelInv, Represents, Represents', UNCHANGED <<tid, send_to, send_queue, next_tid>>,
         Leaving' = Leaving, NEW t \in Slots, NEW s,
         s \in {"READY", "ACTIVE", "RECEIVE_BLOCKED", "EVENT_BLOCKED"},
         state[t] \in {"READY", "ACTIVE", "RECEIVE_BLOCKED", "EVENT_BLOCKED"},
         state' = [state EXCEPT ![t] = s]
  PROVE  UNCHANGED IpcView
<1>1. state \in [Slots -> TaskState]
  BY DEF KernelInv, TypeOK, TaskTypes
<1>2. \A u \in Slots : Exists(u)' = Exists(u) /\ PhaseOf(u)' = PhaseOf(u)
  BY <1>1 DEF Exists, PhaseOf
<1> QED BY <1>2, Unseen

\* Receive takes the oldest call that has been made to the task, if any.
LEMMA ReceiveShows ==
  ASSUME KernelInv, Represents, Represents', Receive
  PROVE  UNCHANGED IpcView \/ IpcSystem!Next
<1>1. kpc = "user" /\ kpc' = "requeue" /\ UNCHANGED <<tid, send_to, next_tid, active>>
  BY DEF Receive
<1>2. /\ active \in Slots /\ active \in Live /\ state[active] = "ACTIVE"
      /\ Leaving = {} /\ tid[active] \in IpcSystem!Present /\ Phase[tid[active]] = "idle"
  BY <1>1, Speaker
<1>3. Leaving' = {}
  BY <1>1 DEF Leaving
<1>4. CASE send_queue[active] = <<>>
  <2>1. send_queue' = send_queue /\ state' = [state EXCEPT ![active] = "RECEIVE_BLOCKED"]
    BY <1>4 DEF Receive
  <2> QED BY <2>1, <1>1, <1>2, <1>3, UnseenChange
<1>5. CASE send_queue[active] # <<>>
  <2> DEFINE q == send_queue[active]
             n == tid[active]
  <2>0. PICK s : s = Head(q)
    OBVIOUS
  <2>1. /\ state' = [state EXCEPT ![s] = "REPLY_BLOCKED"]
        /\ send_queue' = [send_queue EXCEPT ![active] = Tail(q)]
    BY <1>5, <2>0 DEF Receive
  <2>2. /\ state \in [Slots -> TaskState] /\ send_queue \in [Slots -> Seq(Slots)]
        /\ tid \in [Slots -> Nat] /\ q \in Seq(Slots)
    BY <1>2 DEF KernelInv, TypeOK, TaskTypes, ListTypes
  <2>3. s \in Slots /\ state[s] = "SEND_BLOCKED"
    BY <1>2, <1>5, <2>0, TailLine DEF KernelInv, QueueDiscipline, TypeOK, ListTypes, ListedOnce,
         SendersListed
  <2>4. InboxOf(active) # <<>> /\ Head(InboxOf(active)) = tid[s]
    BY <2>0, <2>2, <2>3, <1>5, ShownLists DEF InboxOf
  <2>5. InboxOf(active)' = Tail(InboxOf(active))
    <3>1. InboxOf(active)' = [i \in DOMAIN Tail(q) |-> tid[Tail(q)[i]]]
      BY <1>1, <1>2, <2>1, <2>2 DEF InboxOf
    <3>2. InboxOf(active) = [i \in DOMAIN q |-> tid[q[i]]]
      BY DEF InboxOf
    <3> HIDE DEF q
    <3> QED BY <3>1, <3>2, <2>2, <1>2, <1>5, ShownLists DEF q
  <2>6. /\ \A u \in Slots : Exists(u)' = Exists(u)
        /\ \A u \in Slots \ {s} : PhaseOf(u)' = PhaseOf(u)
        /\ PhaseOf(s)' = "taken"
    <3>1. \A u \in Slots : state'[u] = IF u = s THEN "REPLY_BLOCKED" ELSE state[u]
      BY <2>1, <2>2, <2>3
    <3> QED BY <3>1, <2>3 DEF Exists, PhaseOf
  <2>7. \A u \in Slots \ {active} : InboxOf(u)' = InboxOf(u)
    BY <1>1, <1>2, <2>1, <2>2 DEF InboxOf
  <2>8. Live' = Live /\ Alive' = Alive /\ s \in Live
    BY <1>1, <2>3, <2>6 DEF Live, Alive, Slots, Exists
  <2>9. Phase' = [Phase EXCEPT ![tid[s]] = "taken"]
    <3>1. \A u \in Live \ {s} : PhaseOf(u)' = PhaseOf(u)
      BY <2>6 DEF Live
    <3>2. Phase' = [Phase EXCEPT ![tid[s]] = PhaseOf(s)']
      BY <3>1, <1>1, <2>8, OneShown
    <3> QED BY <2>6, <3>2
  <2>10. Inbox' = [Inbox EXCEPT ![n] = Tail(InboxOf(active))]
    BY <1>1, <1>2, <2>5, <2>7, <2>8, OneShown DEF Live
  <2>11. Target' = Target
    BY <1>1, <2>8, NoneShown
  <2>12. Inbox[n] = InboxOf(active)
    BY <1>2 DEF Represents
  <2> HIDE DEF n, q
  <2>13. IpcSystem!Take(n)
    BY <1>1, <1>2, <1>3, <2>4, <2>8, <2>9, <2>10, <2>11, <2>12 DEF n, IpcSystem!Take
  <2> QED BY <2>13, <1>2 DEF n, IpcSystem!Next
<1> QED BY <1>4, <1>5

\* Reply ends a call to this task that it has taken.
LEMMA ReplyShows ==
  ASSUME KernelInv, Represents, Represents', NEW m \in 0 .. MaxTid, Reply(m)
  PROVE  IpcSystem!Next
<1>1. kpc = "user" /\ kpc' = "requeue" /\ UNCHANGED <<tid, send_queue, next_tid, active>>
  BY DEF Reply
<1>2. /\ active \in Slots /\ active \in Live /\ state[active] = "ACTIVE"
      /\ Leaving = {} /\ tid[active] \in IpcSystem!Present /\ Phase[tid[active]] = "idle"
  BY <1>1, Speaker
<1>3. Leaving' = {}
  BY <1>1 DEF Leaving
<1>4. PICK s \in Named(m) :
        /\ AwaitsReplyFrom(s, active)
        /\ send_to' = [send_to EXCEPT ![s] = 0]
        /\ state' = [state EXCEPT ![s] = "READY"]
  BY DEF Reply
<1>5. /\ s \in Slots /\ s \in Live /\ state[s] = "REPLY_BLOCKED"
      /\ ipc_receiver[s] = active
  BY <1>4 DEF Named, AwaitsReplyFrom, Live
<1>6. send_to[s] = tid[active]
  BY <1>5 DEF KernelInv, CallersHaveReceiver, Blocked
<1>7. /\ state \in [Slots -> TaskState] /\ send_to \in [Slots -> Nat]
  BY DEF KernelInv, TypeOK, TaskTypes
<1>8. /\ \A u \in Slots : Exists(u)' = Exists(u)
      /\ \A u \in Slots \ {s} : PhaseOf(u)' = PhaseOf(u) /\ send_to'[u] = send_to[u]
      /\ PhaseOf(s)' = "idle" /\ send_to'[s] = 0
  BY <1>4, <1>5, <1>7 DEF Exists, PhaseOf
<1>9. Live' = Live /\ Alive' = Alive
  BY <1>1, <1>8 DEF Live, Alive, Slots
<1>10. /\ Phase' = [Phase EXCEPT ![tid[s]] = "idle"]
       /\ Target' = [Target EXCEPT ![tid[s]] = 0]
  BY <1>1, <1>5, <1>8, <1>9, OneShown DEF Live
<1>11. Inbox' = Inbox
  <2>1. \A u \in Live : InboxOf(u)' = InboxOf(u)
    BY <1>1 DEF InboxOf
  <2> QED BY <2>1, <1>1, <1>9, NoneShown
<1>12. Phase[tid[s]] = "taken" /\ Target[tid[s]] = tid[active]
  BY <1>5, <1>6 DEF Represents, PhaseOf
<1>13. tid[s] \in Alive
  BY <1>5 DEF Alive, Live
<1>14. IpcSystem!Answer(tid[active], tid[s])
  BY <1>1, <1>2, <1>3, <1>9, <1>10, <1>11, <1>12 DEF IpcSystem!Answer, IpcSystem!Close
<1>15. tid[s] \in IpcSystem!Present
  BY <1>13, <1>2 DEF IpcSystem!Present
<1> QED BY <1>2, <1>14, <1>15 DEF IpcSystem!Next

\* Send is a call that its receiver takes at once when it is listening, and
\* else waits behind the earlier ones.
LEMMA SendShows ==
  ASSUME KernelInv, NoneKeptWaiting, Represents, Represents', NEW m \in 0 .. MaxTid, Send(m)
  PROVE  IpcSystem!Next
<1>1. kpc = "user" /\ kpc' = "requeue" /\ UNCHANGED <<tid, next_tid, active>>
  BY DEF Send
<1>2. /\ active \in Slots /\ active \in Live /\ state[active] = "ACTIVE"
      /\ Leaving = {} /\ tid[active] \in IpcSystem!Present /\ Phase[tid[active]] = "idle"
  BY <1>1, Speaker
<1>3. Leaving' = {}
  BY <1>1 DEF Leaving
<1>4. PICK r \in Named(m) :
        /\ send_to' = [send_to EXCEPT ![active] = m]
        /\ \/ /\ state[r] = "RECEIVE_BLOCKED"
              /\ state' = [state EXCEPT ![active] = "REPLY_BLOCKED", ![r] = "READY"]
              /\ UNCHANGED send_queue
           \/ /\ state[r] # "RECEIVE_BLOCKED"
              /\ state' = [state EXCEPT ![active] = "SEND_BLOCKED"]
              /\ send_queue' = [send_queue EXCEPT ![r] = Append(@, active)]
  BY DEF Send
<1>5. r \in Slots /\ r \in Live /\ tid[r] = m
  BY DEF Named, Live
<1>6. /\ state \in [Slots -> TaskState] /\ send_to \in [Slots -> Nat]
      /\ send_queue \in [Slots -> Seq(Slots)] /\ tid \in [Slots -> Nat]
  BY DEF KernelInv, TypeOK, TaskTypes, ListTypes
<1>7. m \in IpcSystem!Present
  BY <1>2, <1>5 DEF IpcSystem!Present, Alive, Live
<1>8. /\ \A u \in Slots \ {active} : send_to'[u] = send_to[u]
      /\ send_to'[active] = m
  BY <1>2, <1>4, <1>6
<1>9. CASE state[r] = "RECEIVE_BLOCKED"
  <2>1. /\ state' = [state EXCEPT ![active] = "REPLY_BLOCKED", ![r] = "READY"]
        /\ UNCHANGED send_queue
    BY <1>4, <1>9
  <2>2. r # active
    BY <1>2, <1>9
  <2>3. \A u \in Slots : state'[u] = IF u = active THEN "REPLY_BLOCKED"
                                     ELSE IF u = r THEN "READY" ELSE state[u]
    BY <1>2, <1>5, <1>6, <2>1, <2>2
  <2>4. /\ \A u \in Slots : Exists(u)' = Exists(u)
        /\ \A u \in Slots \ {active} : PhaseOf(u)' = PhaseOf(u)
        /\ \A u \in Slots : state'[u] = "REPLY_BLOCKED" => PhaseOf(u)' = "taken"
    BY <1>2, <1>9, <2>3 DEF Exists, PhaseOf
  <2>5. Live' = Live /\ Alive' = Alive
    BY <1>1, <2>4 DEF Live, Alive, Slots
  <2>6. Phase' = [Phase EXCEPT ![tid[active]] = "taken"]
    <3>1. \A u \in Live \ {active} : PhaseOf(u)' = PhaseOf(u)
      BY <2>4 DEF Live
    <3>2. PhaseOf(active)' = "taken"
      BY <1>1, <1>2, <2>3, <2>4
    <3> QED BY <3>1, <3>2, <1>1, <1>2, <2>5, OneShown
  <2>7. Target' = [Target EXCEPT ![tid[active]] = m]
    BY <1>1, <1>2, <1>8, <2>5, OneShown DEF Live
  <2>8. Inbox' = Inbox
    <3>1. \A u \in Live : InboxOf(u)' = InboxOf(u)
      BY <1>1, <2>1 DEF InboxOf
    <3> QED BY <3>1, <1>1, <2>5, NoneShown
  <2>9. send_queue[r] = <<>>
    BY <1>5, <1>9 DEF NoneKeptWaiting
  <2>10. Inbox[m] = <<>> /\ Phase[m] = "idle"
    <3>1. InboxOf(r) = <<>> /\ PhaseOf(r) = "idle"
      BY <1>9, <2>9 DEF InboxOf, PhaseOf
    <3> QED BY <3>1, <1>5 DEF Represents
  <2>11. tid[active] # m
    BY <1>2, <1>5, <1>9, <2>2 DEF KernelInv, TidsUnique
  <2>12. IpcSystem!CallTaken(tid[active], m)
    BY <1>1, <1>2, <1>3, <2>5, <2>6, <2>7, <2>8, <2>10, <2>11 DEF IpcSystem!CallTaken
  <2> QED BY <1>2, <1>7, <2>12 DEF IpcSystem!Next
<1>10. CASE state[r] # "RECEIVE_BLOCKED"
  <2>1. /\ state' = [state EXCEPT ![active] = "SEND_BLOCKED"]
        /\ send_queue' = [send_queue EXCEPT ![r] = Append(@, active)]
    BY <1>4, <1>10
  <2>2. \A u \in Slots : state'[u] = IF u = active THEN "SEND_BLOCKED" ELSE state[u]
    BY <1>2, <1>6, <2>1
  <2>3. /\ \A u \in Slots : Exists(u)' = Exists(u)
        /\ \A u \in Slots \ {active} : PhaseOf(u)' = PhaseOf(u)
        /\ \A u \in Slots : state'[u] = "SEND_BLOCKED" => PhaseOf(u)' = "queued"
    BY <1>2, <2>2 DEF Exists, PhaseOf
  <2>4. Live' = Live /\ Alive' = Alive
    BY <1>1, <2>3 DEF Live, Alive, Slots
  <2>5. Phase' = [Phase EXCEPT ![tid[active]] = "queued"]
    <3>1. \A u \in Live \ {active} : PhaseOf(u)' = PhaseOf(u)
      BY <2>3 DEF Live
    <3>2. PhaseOf(active)' = "queued"
      BY <1>1, <1>2, <2>2, <2>3
    <3> QED BY <3>1, <3>2, <1>1, <1>2, <2>4, OneShown
  <2>6. Target' = [Target EXCEPT ![tid[active]] = m]
    BY <1>1, <1>2, <1>8, <2>4, OneShown DEF Live
  <2>7. InboxOf(r)' = Append(InboxOf(r), tid[active])
    <3>1. InboxOf(r)' = [i \in DOMAIN Append(send_queue[r], active)
                           |-> tid[Append(send_queue[r], active)[i]]]
      BY <1>1, <1>5, <1>6, <2>1 DEF InboxOf
    <3>2. InboxOf(r) = [i \in DOMAIN send_queue[r] |-> tid[send_queue[r][i]]]
      BY DEF InboxOf
    <3>3. send_queue[r] \in Seq(Slots)
      BY <1>5, <1>6
    <3>4. [i \in DOMAIN Append(send_queue[r], active) |-> tid[Append(send_queue[r], active)[i]]]
            = Append([i \in DOMAIN send_queue[r] |-> tid[send_queue[r][i]]], tid[active])
      BY <3>3, <1>2, <1>6, ShownLists
    <3> QED BY <3>1, <3>2, <3>4
  <2>8. \A u \in Slots \ {r} : InboxOf(u)' = InboxOf(u)
    BY <1>1, <1>5, <1>6, <2>1 DEF InboxOf
  <2>9. Inbox' = [Inbox EXCEPT ![m] = Append(InboxOf(r), tid[active])]
    <3>1. \A u \in Live \ {r} : InboxOf(u)' = InboxOf(u)
      BY <2>8 DEF Live
    <3>2. Inbox' = [Inbox EXCEPT ![tid[r]] = InboxOf(r)']
      BY <3>1, <1>1, <1>5, <2>4, OneShown
    <3> QED BY <3>2, <2>7, <1>5
  <2>10. Inbox[m] = InboxOf(r)
    BY <1>5 DEF Represents
  <2>11. IpcSystem!Call(tid[active], m)
    BY <1>1, <1>2, <1>3, <2>4, <2>5, <2>6, <2>9, <2>10 DEF IpcSystem!Call
  <2> QED BY <1>2, <1>7, <2>11 DEF IpcSystem!Next
<1> QED BY <1>9, <1>10

\* Create begins a task under the next tid: idle, and called by nobody.
LEMMA CreateShows ==
  ASSUME KernelInv, CallsNamed, Represents, Represents', NEW p \in -1 .. NumPriorities, Create(p)
  PROVE  IpcSystem!Next
<1>1. /\ kpc = "user" /\ kpc' = "requeue" /\ UNCHANGED <<send_to, active>>
      /\ next_tid <= MaxTid /\ next_tid' = next_tid + 1
  BY DEF Create
<1>2. PICK t \in Slots :
        /\ Free(t)
        /\ tid' = [tid EXCEPT ![t] = next_tid]
        /\ state' = [state EXCEPT ![t] = "READY"]
        /\ send_queue' = [send_queue EXCEPT ![t] = <<>>]
  BY DEF Create
<1>3. /\ active \in Slots /\ Leaving = {} /\ tid[active] \in IpcSystem!Present
  BY <1>1, Speaker
<1>4. Leaving' = {}
  BY <1>1 DEF Leaving
<1>5. /\ state \in [Slots -> TaskState] /\ send_to \in [Slots -> Nat]
      /\ send_queue \in [Slots -> Seq(Slots)] /\ tid \in [Slots -> Nat]
      /\ next_tid \in Nat \ {0} /\ MaxTid \in Nat
  BY KernelAssumption DEF KernelInv, TypeOK, TaskTypes, ListTypes, CoreTypes
<1>6. /\ \A u \in Slots : tid'[u] = IF u = t THEN next_tid ELSE tid[u]
      /\ \A u \in Slots : state'[u] = IF u = t THEN "READY" ELSE state[u]
      /\ \A u \in Slots : send_queue'[u] = IF u = t THEN <<>> ELSE send_queue[u]
  BY <1>2, <1>5
<1>7. t \notin Live /\ Live' = Live \cup {t}
  BY <1>2, <1>6 DEF Live, Exists, Free, Slots
<1>8. \A u \in Live : u \in Slots /\ u # t /\ tid'[u] = tid[u] /\ tid[u] < next_tid
  BY <1>6, <1>7 DEF Live, KernelInv, TidsUnique, Exists
<1>9. Alive' = Alive \cup {next_tid}
  <2>1. Alive = {tid[u] : u \in Live}
    BY DEF Alive, Live
  <2>2. Alive' = {tid'[u] : u \in Live'}
    BY DEF Alive, Live, Slots
  <2> QED BY <2>1, <2>2, <1>6, <1>7, <1>8
<1>10. \A u \in Live : /\ PhaseOf(u)' = PhaseOf(u)
                       /\ send_to'[u] = send_to[u]
                       /\ InboxOf(u)' = InboxOf(u)
  <2> SUFFICES ASSUME NEW u \in Live
               PROVE  PhaseOf(u)' = PhaseOf(u) /\ InboxOf(u)' = InboxOf(u)
    BY <1>1
  <2>1. PhaseOf(u)' = PhaseOf(u)
    BY <1>6, <1>8 DEF PhaseOf
  <2>2. send_queue'[u] = send_queue[u] /\ send_queue[u] \in Seq(Slots)
    BY <1>5, <1>6, <1>8
  <2>3. \A i \in DOMAIN send_queue[u] : tid'[send_queue[u][i]] = tid[send_queue[u][i]]
    <3> SUFFICES ASSUME NEW i \in DOMAIN send_queue[u]
                 PROVE  tid'[send_queue[u][i]] = tid[send_queue[u][i]]
      OBVIOUS
    <3>1. send_queue[u][i] \in Slots /\ send_queue[u][i] \in Members(send_queue[u])
      BY <2>2, ElementOfSeq, LenProperties DEF Members
    <3>2. state[send_queue[u][i]] = "SEND_BLOCKED"
      BY <3>1, <1>8 DEF KernelInv, QueueDiscipline, SendersListed
    <3> QED BY <3>1, <3>2, <1>2, <1>6 DEF Free
  <2> QED BY <2>1, <2>2, <2>3 DEF InboxOf
<1>11. PhaseOf(t)' = "idle" /\ send_to'[t] = 0 /\ InboxOf(t)' = <<>>
  <2>1. send_to[t] = 0
    BY <1>2 DEF CallsNamed, Blocked, Free
  <2>2. PhaseOf(t)' = "idle"
    BY <1>6 DEF PhaseOf
  <2>3. InboxOf(t)' = [i \in DOMAIN <<>> |-> tid'[<<>>[i]]]
    BY <1>6 DEF InboxOf
  <2>4. [i \in DOMAIN <<>> |-> tid'[<<>>[i]]] = <<>>
    OBVIOUS
  <2> QED BY <1>1, <2>1, <2>2, <2>3, <2>4
<1>12. /\ Phase' = [n \in IpcTids |-> Phase'[n]]
       /\ Target' = [n \in IpcTids |-> Target'[n]]
       /\ Inbox' = [n \in IpcTids |-> Inbox'[n]]
       /\ Phase = [n \in IpcTids |-> Phase[n]]
       /\ Target = [n \in IpcTids |-> Target[n]]
       /\ Inbox = [n \in IpcTids |-> Inbox[n]]
  BY DEF Represents, IpcTids
<1>13. ASSUME NEW n \in IpcTids
       PROVE  Phase'[n] = Phase[n] /\ Target'[n] = Target[n] /\ Inbox'[n] = Inbox[n]
  <2>1. CASE n = next_tid
    <3>1. \A u \in Live : tid[u] # n
      BY <2>1, <1>5, <1>8
    <3>2. Phase[n] = "idle" /\ Target[n] = 0 /\ Inbox[n] = <<>>
      BY <3>1 DEF Represents
    <3>3. t \in Live' /\ tid'[t] = n
      BY <2>1, <1>6, <1>7
    <3>4. Phase'[n] = "idle" /\ Target'[n] = 0 /\ Inbox'[n] = <<>>
      BY <3>3, <1>11 DEF Represents
    <3> QED BY <3>2, <3>4
  <2>2. CASE \E u \in Live : tid[u] = n
    <3>1. PICK u \in Live : tid[u] = n
      BY <2>2
    <3>2. u \in Live' /\ tid'[u] = n
      BY <3>1, <1>7, <1>8
    <3>3. Phase[n] = PhaseOf(u) /\ Target[n] = send_to[u] /\ Inbox[n] = InboxOf(u)
      BY <3>1 DEF Represents
    <3>4. Phase'[n] = PhaseOf(u)' /\ Target'[n] = send_to'[u] /\ Inbox'[n] = InboxOf(u)'
      BY <3>2 DEF Represents
    <3> QED BY <3>3, <3>4, <1>10
  <2>3. CASE n # next_tid /\ \A u \in Live : tid[u] # n
    <3>1. \A u \in Live' : tid'[u] # n
      BY <2>3, <1>6, <1>7, <1>8
    <3>2. Phase[n] = "idle" /\ Target[n] = 0 /\ Inbox[n] = <<>>
      BY <2>3 DEF Represents
    <3>3. Phase'[n] = "idle" /\ Target'[n] = 0 /\ Inbox'[n] = <<>>
      BY <3>1 DEF Represents, IpcTids
    <3> QED BY <3>2, <3>3
  <2> QED BY <2>1, <2>2, <2>3
<1>14. Phase' = Phase /\ Target' = Target /\ Inbox' = Inbox
  BY <1>12, <1>13
<1>15. /\ (next_tid - 1) + 1 = next_tid /\ next_tid' - 1 = next_tid /\ next_tid \in IpcTids
  BY <1>1, <1>5 DEF IpcTids
<1>16. IpcSystem!Begin
  BY <1>3, <1>4, <1>9, <1>14, <1>15 DEF IpcSystem!Begin
<1> QED BY <1>16 DEF IpcSystem!Next

\* Exit begins a departure.
LEMMA ExitShows ==
  ASSUME KernelInv, Represents, Represents', Exit
  PROVE  IpcSystem!Next
<1>1. /\ kpc = "user" /\ kpc' = "exit"
      /\ UNCHANGED <<state, tid, send_to, send_queue, next_tid, active>>
  BY DEF Exit, tcb, ipc
<1>2. /\ active \in Slots /\ Leaving = {} /\ tid[active] \in IpcSystem!Present
      /\ Phase[tid[active]] = "idle"
  BY <1>1, Speaker
<1>3. Leaving' = {tid[active]}
  BY <1>1 DEF Leaving
<1>4. Live' = Live /\ Alive' = Alive
  BY <1>1 DEF Live, Alive, Slots, Exists
<1>5. \A u \in Live : /\ PhaseOf(u)' = PhaseOf(u)
                      /\ send_to'[u] = send_to[u]
                      /\ InboxOf(u)' = InboxOf(u)
  BY <1>1 DEF PhaseOf, InboxOf
<1>6. Phase' = Phase /\ Target' = Target /\ Inbox' = Inbox
  BY <1>1, <1>4, <1>5, NoneShown
<1>7. IpcSystem!Depart(tid[active])
  BY <1>1, <1>2, <1>3, <1>4, <1>6 DEF IpcSystem!Depart
<1> QED BY <1>2, <1>7 DEF IpcSystem!Next

\* Aborting a waiter closes its call.
LEMMA AbortShows ==
  ASSUME KernelInv, Represents, Represents', NEW w \in Slots, Blocked(w), Abort(w),
         tid' = tid
  PROVE  /\ Live' = Live /\ Alive' = Alive /\ w \in Live
         /\ Phase[tid[w]] # "idle"
         /\ Phase' = [Phase EXCEPT ![tid[w]] = "idle"]
         /\ Target' = [Target EXCEPT ![tid[w]] = 0]
<1>1. state \in [Slots -> TaskState] /\ send_to \in [Slots -> Nat]
  BY DEF KernelInv, TypeOK, TaskTypes
<1>2. /\ state' = [state EXCEPT ![w] = "READY"]
      /\ send_to' = [send_to EXCEPT ![w] = 0]
  BY DEF Abort
<1>3. /\ \A u \in Slots : Exists(u)' = Exists(u)
      /\ \A u \in Slots \ {w} : PhaseOf(u)' = PhaseOf(u) /\ send_to'[u] = send_to[u]
      /\ PhaseOf(w)' = "idle" /\ send_to'[w] = 0
  BY <1>1, <1>2 DEF Exists, PhaseOf, Blocked
<1>4. Live' = Live /\ Alive' = Alive /\ w \in Live
  BY <1>3 DEF Live, Alive, Slots, Blocked, Exists
<1>5. /\ Phase' = [Phase EXCEPT ![tid[w]] = "idle"]
      /\ Target' = [Target EXCEPT ![tid[w]] = 0]
  BY <1>3, <1>4, OneShown DEF Live
<1>6. Phase[tid[w]] # "idle"
  BY <1>4 DEF Represents, PhaseOf, Blocked
<1> QED BY <1>4, <1>5, <1>6

\* Exit's first loop releases the oldest caller the task has not taken.
LEMMA ExitAbortQueuedShows ==
  ASSUME KernelInv, Represents, Represents', ExitAbortQueued
  PROVE  IpcSystem!Next
<1>1. kpc = "exit" /\ UNCHANGED <<kpc, tid, next_tid, active>> /\ send_queue[active] # <<>>
  BY DEF ExitAbortQueued
<1>2. active \in Slots /\ active \in Live /\ Leaving = {tid[active]}
  BY <1>1, Leaver
<1>3. Leaving' = Leaving
  BY <1>1 DEF Leaving
<1>4. PICK s : s = Head(send_queue[active])
  OBVIOUS
<1>5. s \in Slots /\ Blocked(s)
  BY <1>1, <1>2, <1>4, TailLine DEF KernelInv, QueueDiscipline, TypeOK, ListTypes, ListedOnce,
       SendersListed, Blocked
<1>6. Abort(s) /\ send_queue' = [send_queue EXCEPT ![active] = Tail(@)]
  BY <1>4 DEF ExitAbortQueued
<1>7. /\ Live' = Live /\ Alive' = Alive /\ s \in Live
      /\ Phase' = [Phase EXCEPT ![tid[s]] = "idle"]
      /\ Target' = [Target EXCEPT ![tid[s]] = 0]
  BY <1>1, <1>5, <1>6, AbortShows
<1>8. /\ send_queue \in [Slots -> Seq(Slots)] /\ tid \in [Slots -> Nat]
      /\ send_queue[active] \in Seq(Slots)
  BY <1>2 DEF KernelInv, TypeOK, TaskTypes, ListTypes
<1>9. /\ InboxOf(active) # <<>> /\ Head(InboxOf(active)) = tid[s]
      /\ InboxOf(active)' = Tail(InboxOf(active))
  <2>1. InboxOf(active) = [i \in DOMAIN send_queue[active] |-> tid[send_queue[active][i]]]
    BY DEF InboxOf
  <2>2. InboxOf(active)' = [i \in DOMAIN Tail(send_queue[active])
                              |-> tid[Tail(send_queue[active])[i]]]
    BY <1>1, <1>2, <1>6, <1>8 DEF InboxOf
  <2>3. /\ [i \in DOMAIN send_queue[active] |-> tid[send_queue[active][i]]] # <<>>
        /\ Head([i \in DOMAIN send_queue[active] |-> tid[send_queue[active][i]]])
             = tid[Head(send_queue[active])]
        /\ [i \in DOMAIN Tail(send_queue[active]) |-> tid[Tail(send_queue[active])[i]]]
             = Tail([i \in DOMAIN send_queue[active] |-> tid[send_queue[active][i]]])
    BY <1>1, <1>2, <1>8, ShownLists
  <2> QED BY <2>1, <2>2, <2>3, <1>4
<1>10. \A u \in Live \ {active} : InboxOf(u)' = InboxOf(u)
  BY <1>1, <1>2, <1>6, <1>8 DEF InboxOf, Live
<1>11. Inbox' = [Inbox EXCEPT ![tid[active]] = Tail(InboxOf(active))]
  BY <1>1, <1>2, <1>7, <1>9, <1>10, OneShown
<1>12. Inbox[tid[active]] = InboxOf(active)
  BY <1>2 DEF Represents
<1>13. IpcSystem!RefuseQueued(tid[active])
  BY <1>1, <1>3, <1>7, <1>9, <1>11, <1>12 DEF IpcSystem!RefuseQueued, IpcSystem!Close
<1> QED BY <1>2, <1>13 DEF IpcSystem!Next

\* A task with an open call of its own has called the descriptor it points to.
LEMMA CallersAreOwed ==
  ASSUME KernelInv, Represents, NEW r \in Live, NEW w \in Live,
         Phase[tid[w]] # "idle", Target[tid[w]] = tid[r]
  PROVE  Blocked(w) /\ ipc_receiver[w] = r
<1>1. Blocked(w) /\ send_to[w] = tid[r]
  BY DEF Represents, PhaseOf, Blocked
<1>2. w \in Slots /\ r \in Slots /\ Exists(r)
  BY DEF Live
<1> QED BY <1>1, <1>2 DEF KernelInv, CallersHaveReceiver, TidsUnique, Exists

\* Exit's second loop releases a caller the task has taken and not answered.
LEMMA ExitAbortDeliveredShows ==
  ASSUME KernelInv, Represents, Represents', ExitAbortDelivered
  PROVE  IpcSystem!Next
<1>1. /\ kpc = "exit" /\ UNCHANGED <<kpc, tid, next_tid, active, send_queue>>
      /\ send_queue[active] = <<>>
  BY DEF ExitAbortDelivered
<1>2. active \in Slots /\ active \in Live /\ Leaving = {tid[active]}
  BY <1>1, Leaver
<1>3. Leaving' = Leaving
  BY <1>1 DEF Leaving
<1>4. PICK w \in Owed(active) : Abort(w)
  BY DEF ExitAbortDelivered
<1>5. w \in Slots /\ Blocked(w) /\ ipc_receiver[w] = active
  BY <1>4 DEF Owed
<1>6. /\ Live' = Live /\ Alive' = Alive /\ w \in Live
      /\ Phase[tid[w]] # "idle"
      /\ Phase' = [Phase EXCEPT ![tid[w]] = "idle"]
      /\ Target' = [Target EXCEPT ![tid[w]] = 0]
  BY <1>1, <1>4, <1>5, AbortShows
<1>7. Inbox' = Inbox
  <2>1. \A u \in Live : InboxOf(u)' = InboxOf(u)
    BY <1>1 DEF InboxOf
  <2> QED BY <2>1, <1>1, <1>6, NoneShown
<1>8. Inbox[tid[active]] = <<>>
  <2>1. InboxOf(active) = <<>>
    BY <1>1 DEF InboxOf
  <2> QED BY <2>1, <1>2 DEF Represents
<1>9. Target[tid[w]] = tid[active] /\ tid[w] \in Alive
  BY <1>5, <1>6 DEF Represents, Alive, Live, KernelInv, CallersHaveReceiver
<1>10. tid[w] \in IpcSystem!Callers(tid[active])
  BY <1>6, <1>9 DEF IpcSystem!Callers
<1>11. IpcSystem!RefuseTaken(tid[active])
  BY <1>1, <1>3, <1>6, <1>7, <1>8, <1>10 DEF IpcSystem!RefuseTaken, IpcSystem!Close
<1> QED BY <1>2, <1>11 DEF IpcSystem!Next

\* Exit ends when nobody is calling the task any more.
LEMMA ExitFinishShows ==
  ASSUME KernelInv, CallsNamed, Represents, Represents', ExitFinish
  PROVE  IpcSystem!Next
<1>1. /\ kpc = "exit" /\ kpc' = "requeue"
      /\ UNCHANGED <<tid, next_tid, active, send_to, send_queue>>
      /\ send_queue[active] = <<>> /\ Owed(active) = {}
      /\ state' = [state EXCEPT ![active] = "EXITED"]
  BY DEF ExitFinish
<1>2. /\ active \in Slots /\ active \in Live /\ state[active] = "ACTIVE"
      /\ Leaving = {tid[active]}
  BY <1>1, Leaver
<1>3. Leaving' = {}
  BY <1>1 DEF Leaving
<1>4. state \in [Slots -> TaskState]
  BY DEF KernelInv, TypeOK, TaskTypes
<1>5. \A u \in Slots : state'[u] = IF u = active THEN "EXITED" ELSE state[u]
  BY <1>1, <1>2, <1>4
<1>6. Live' = Live \ {active}
  BY <1>5 DEF Live, Exists, Slots
<1>7. \A u \in Live : tid[u] = tid[active] => u = active
  BY <1>2 DEF Live, KernelInv, TidsUnique, Exists
<1>8. Alive' = Alive \ {tid[active]}
  <2>1. Alive = {tid[u] : u \in Live}
    BY DEF Alive, Live
  <2>2. Alive' = {tid'[u] : u \in Live'}
    BY DEF Alive, Live, Slots
  <2> QED BY <2>1, <2>2, <1>1, <1>2, <1>6, <1>7
<1>9. /\ Phase' = [n \in IpcTids |-> Phase'[n]]
      /\ Target' = [n \in IpcTids |-> Target'[n]]
      /\ Inbox' = [n \in IpcTids |-> Inbox'[n]]
      /\ Phase = [n \in IpcTids |-> Phase[n]]
      /\ Target = [n \in IpcTids |-> Target[n]]
      /\ Inbox = [n \in IpcTids |-> Inbox[n]]
  BY DEF Represents, IpcTids
<1>10. /\ Phase[tid[active]] = "idle" /\ Target[tid[active]] = 0
       /\ Inbox[tid[active]] = <<>>
  <2>1. InboxOf(active) = <<>>
    BY <1>1 DEF InboxOf
  <2>2. PhaseOf(active) = "idle" /\ send_to[active] = 0
    BY <1>2 DEF PhaseOf, CallsNamed, Blocked
  <2> QED BY <2>1, <2>2, <1>2 DEF Represents
<1>11. ASSUME NEW n \in IpcTids
       PROVE  Phase'[n] = Phase[n] /\ Target'[n] = Target[n] /\ Inbox'[n] = Inbox[n]
  <2>1. CASE n = tid[active]
    <3>1. \A u \in Live' : tid'[u] # n
      BY <2>1, <1>1, <1>6, <1>7
    <3>2. Phase'[n] = "idle" /\ Target'[n] = 0 /\ Inbox'[n] = <<>>
      BY <3>1 DEF Represents, IpcTids
    <3> QED BY <2>1, <3>2, <1>10
  <2>2. CASE n # tid[active] /\ \E u \in Live : tid[u] = n
    <3>1. PICK u \in Live : tid[u] = n
      BY <2>2
    <3>2. u \in Live' /\ tid'[u] = n /\ u # active /\ u \in Slots
      BY <2>2, <3>1, <1>1, <1>6 DEF Live
    <3>3. Phase[n] = PhaseOf(u) /\ Target[n] = send_to[u] /\ Inbox[n] = InboxOf(u)
      BY <3>1 DEF Represents
    <3>4. Phase'[n] = PhaseOf(u)' /\ Target'[n] = send_to'[u] /\ Inbox'[n] = InboxOf(u)'
      BY <3>2 DEF Represents
    <3>5. PhaseOf(u)' = PhaseOf(u) /\ InboxOf(u)' = InboxOf(u)
      BY <3>2, <1>1, <1>5 DEF PhaseOf, InboxOf
    <3> QED BY <3>3, <3>4, <3>5, <1>1
  <2>3. CASE \A u \in Live : tid[u] # n
    <3>1. \A u \in Live' : tid'[u] # n
      BY <2>3, <1>1, <1>6
    <3>2. Phase[n] = "idle" /\ Target[n] = 0 /\ Inbox[n] = <<>>
      BY <2>3 DEF Represents
    <3>3. Phase'[n] = "idle" /\ Target'[n] = 0 /\ Inbox'[n] = <<>>
      BY <3>1 DEF Represents, IpcTids
    <3> QED BY <3>2, <3>3
  <2> QED BY <2>1, <2>2, <2>3
<1>12. Phase' = Phase /\ Target' = Target /\ Inbox' = Inbox
  BY <1>9, <1>11
<1>13. IpcSystem!Callers(tid[active]) = {}
  <2> SUFFICES ASSUME NEW w \in Live, Phase[tid[w]] # "idle", Target[tid[w]] = tid[active]
               PROVE  FALSE
    BY DEF IpcSystem!Callers, Alive, Live
  <2>1. Blocked(w) /\ ipc_receiver[w] = active
    BY <1>2, CallersAreOwed
  <2>2. w # active /\ w \in Slots
    BY <2>1, <1>2 DEF Blocked, Live
  <2> QED BY <2>1, <2>2, <1>1 DEF Owed
<1>14. IpcSystem!Gone(tid[active])
  BY <1>1, <1>2, <1>3, <1>8, <1>10, <1>12, <1>13 DEF IpcSystem!Gone
<1> QED BY <1>2, <1>14 DEF IpcSystem!Next

-----------------------------------------------------------------------------
(* Every step, and the theorem.                                            *)

LEMMA StepShows ==
  ASSUME KernelInv, CallsNamed, NoneKeptWaiting, Represents, Represents', [Next]_vars
  PROVE  UNCHANGED vars \/ UNCHANGED IpcView \/ IpcSystem!Next
<1>0. /\ state \in [Slots -> TaskState] /\ active \in Slots \cup {NoTask}
      /\ kpc \in {"user", "exit"} => active \in Slots /\ state[active] = "ACTIVE"
  BY DEF KernelInv, TypeOK, TaskTypes, CoreTypes, OneActive
<1>1. ASSUME UNCHANGED <<state, tid, send_to, send_queue, next_tid>>, Leaving' = Leaving
      PROVE  UNCHANGED IpcView
  <2>1. \A u \in Slots : Exists(u)' = Exists(u) /\ PhaseOf(u)' = PhaseOf(u)
    BY <1>1 DEF Exists, PhaseOf
  <2> QED BY <1>1, <2>1, Unseen
<1>2. ASSUME UNCHANGED <<tid, send_to, send_queue, next_tid>>, Leaving' = Leaving,
             NEW t \in Slots, NEW s,
             s \in {"READY", "ACTIVE", "RECEIVE_BLOCKED", "EVENT_BLOCKED"},
             state[t] \in {"READY", "ACTIVE", "RECEIVE_BLOCKED", "EVENT_BLOCKED"},
             state' = [state EXCEPT ![t] = s]
      PROVE  UNCHANGED IpcView
  BY <1>2, UnseenChange
<1>3. ASSUME NEW p \in -1 .. NumPriorities, CreateFails(p) PROVE UNCHANGED IpcView
  BY <1>1, <1>3 DEF CreateFails, Return, tcb, Leaving
<1>4. ASSUME NEW n \in 0 .. MaxTid, SendFails(n) \/ ReplyFails(n) PROVE UNCHANGED IpcView
  BY <1>1, <1>4 DEF SendFails, ReplyFails, Return, tcb, Leaving
<1>5. ASSUME Yield \/ AwaitFails PROVE UNCHANGED IpcView
  BY <1>1, <1>5 DEF Yield, AwaitFails, Return, tcb, Leaving
<1>6. ASSUME AwaitTimer PROVE UNCHANGED IpcView
  <2>1. /\ UNCHANGED <<tid, send_to, send_queue, next_tid>> /\ Leaving' = Leaving
        /\ state' = [state EXCEPT ![active] = "EVENT_BLOCKED"] /\ kpc = "user"
    BY <1>6 DEF AwaitTimer, Leaving
  <2> QED BY <2>1, <1>0, <1>2
<1>7. ASSUME NEW e \in IoKinds, AwaitIo(e) PROVE UNCHANGED IpcView
  <2>1. /\ UNCHANGED <<tid, send_to, send_queue, next_tid>> /\ Leaving' = Leaving
        /\ kpc = "user"
        /\ state' = state \/ state' = [state EXCEPT ![active] = "EVENT_BLOCKED"]
    BY <1>7 DEF AwaitIo, Leaving
  <2> QED BY <2>1, <1>0, <1>1, <1>2
<1>8. ASSUME Requeue PROVE UNCHANGED IpcView
  <2>1. active \in Slots
    BY <1>0, <1>8 DEF KernelInv, OneActive, Requeue
  <2>2. /\ UNCHANGED <<tid, send_to, send_queue, next_tid>> /\ Leaving' = Leaving
        /\ \/ state' = state
           \/ state[active] = "ACTIVE" /\ state' = [state EXCEPT ![active] = "READY"]
    BY <1>8 DEF Requeue, ipc, Leaving
  <2> QED BY <2>1, <2>2, <1>1, <1>2
<1>9. ASSUME ReleaseTimer PROVE UNCHANGED IpcView
  <2>1. Head(timer_wait) \in Slots /\ state[Head(timer_wait)] = "EVENT_BLOCKED"
    BY <1>9, TailLine DEF ReleaseTimer, TimerDue, KernelInv, QueueDiscipline, TypeOK,
         ListTypes, ListedOnce, EventsListed
  <2>2. /\ UNCHANGED <<tid, send_to, send_queue, next_tid>> /\ Leaving' = Leaving
        /\ state' = [state EXCEPT ![Head(timer_wait)] = "READY"]
    BY <1>9 DEF ReleaseTimer, Wake, Leaving
  <2> QED BY <2>1, <2>2, <1>2
<1>10. ASSUME NEW e \in IoKinds, ReleaseIo(e) PROVE UNCHANGED IpcView
  <2>1. Head(io_wait[e]) \in Slots /\ state[Head(io_wait[e])] = "EVENT_BLOCKED"
    BY <1>10, TailLine DEF ReleaseIo, IoDue, KernelInv, QueueDiscipline, TypeOK,
         ListTypes, ListedOnce, EventsListed
  <2>2. /\ UNCHANGED <<tid, send_to, send_queue, next_tid>> /\ Leaving' = Leaving
        /\ state' = [state EXCEPT ![Head(io_wait[e])] = "READY"]
    BY <1>10 DEF ReleaseIo, Wake, Leaving
  <2> QED BY <2>1, <2>2, <1>2
<1>11. ASSUME NEW p \in Priorities, Schedule(p) PROVE UNCHANGED IpcView
  <2>1. Head(ready[p]) \in Slots /\ state[Head(ready[p])] = "READY"
    BY <1>11, TailLine DEF Schedule, MostUrgent, KernelInv, QueueDiscipline, TypeOK,
         ListTypes, ListedOnce, ReadyListed
  <2>2. /\ UNCHANGED <<tid, send_to, send_queue, next_tid>> /\ Leaving' = Leaving
        /\ state' = [state EXCEPT ![Head(ready[p])] = "ACTIVE"]
    BY <1>11 DEF Schedule, ipc, Leaving
  <2> QED BY <2>1, <2>2, <1>2
<1>12. ASSUME NothingReady \/ IdlePoll \/ Halted \/ Tick PROVE UNCHANGED IpcView
  BY <1>1, <1>12 DEF NothingReady, IdlePoll, Halted, Tick, vars, tcb, ipc, Leaving
<1>13. ASSUME NEW e \in IoKinds, IoChange(e) PROVE UNCHANGED IpcView
  BY <1>1, <1>13 DEF IoChange, tcb, ipc, Leaving
<1>14. CASE Syscall
  BY <1>3, <1>4, <1>5, <1>6, <1>7, <1>14, CreateShows, SendShows, ReceiveShows, ReplyShows,
     ExitShows DEF Syscall
<1>15. CASE KernelStep
  BY <1>8, <1>9, <1>10, <1>11, <1>12, <1>15, ExitAbortQueuedShows, ExitAbortDeliveredShows,
     ExitFinishShows DEF KernelStep
<1>16. CASE Hardware
  BY <1>12, <1>13, <1>16 DEF Hardware
<1> QED BY <1>14, <1>15, <1>16 DEF Next

\* The kernel starts with one task, idle, that nobody has called.
LEMMA InitShows == ASSUME Init PROVE IpcSystem!Init
<1>1. KernelInv /\ CallsNamed
  BY InitInv, CallsNamedInit
<1>2. Represents
  BY <1>1, MappingRepresents
<1>3. 1 \in Slots /\ 1 \in IpcTids /\ next_tid = 2 /\ kpc = "user"
  BY KernelAssumption DEF Slots, IpcTids, Init
<1>4. /\ \A t \in Slots : state[t] = IF t = 1 THEN "ACTIVE" ELSE "UNUSED"
      /\ \A t \in Slots : send_queue[t] = <<>> /\ send_to[t] = 0
      /\ tid[1] = 1
  BY <1>3 DEF Init
<1>5. Live = {1}
  BY <1>3, <1>4 DEF Live, Exists
<1>6. Alive = {1} /\ Leaving = {}
  BY <1>3, <1>4 DEF Alive, Leaving, Exists
<1>7. PhaseOf(1) = "idle" /\ InboxOf(1) = <<>> /\ send_to[1] = 0
  BY <1>3, <1>4 DEF PhaseOf, InboxOf
<1>8. \A n \in IpcTids : Phase[n] = "idle" /\ Target[n] = 0 /\ Inbox[n] = <<>>
  BY <1>2, <1>4, <1>5, <1>7 DEF Represents
<1>9. /\ Phase = [n \in IpcTids |-> "idle"]
      /\ Target = [n \in IpcTids |-> 0]
      /\ Inbox = [n \in IpcTids |-> <<>>]
  <2>1. /\ Phase = [n \in IpcTids |-> Phase[n]]
        /\ Target = [n \in IpcTids |-> Target[n]]
        /\ Inbox = [n \in IpcTids |-> Inbox[n]]
    BY <1>2 DEF Represents
  <2> QED BY <2>1, <1>8
<1> QED BY <1>3, <1>6, <1>9 DEF IpcSystem!Init

\* The kernel's calls are the rendezvous its tasks see: a call reaches the task
\* it named, is taken in the order of the calls, and ends by that task's answer
\* or its exit, whatever becomes of the descriptors in between.
THEOREM CallsAreRendezvous == Spec => ImplementsRendezvous
<1>1. Init => CallsNamed /\ NoneKeptWaiting
  <2>1. Init => NoneKeptWaiting
    BY DEF Init, NoneKeptWaiting
  <2> QED BY <2>1, CallsNamedInit
<1>2. KernelInv /\ CallsNamed /\ [Next]_vars => CallsNamed'
  BY CallsNamedStep
<1>3. KernelInv /\ NoneKeptWaiting /\ [Next]_vars => NoneKeptWaiting'
  BY NoneKeptWaitingStep
<1>4. KernelInv /\ CallsNamed => Represents
  BY MappingRepresents
<1>5. KernelInv /\ CallsNamed /\ NoneKeptWaiting /\ Represents /\ Represents' /\ [Next]_vars
        => [UNCHANGED vars \/ UNCHANGED IpcView \/ IpcSystem!Next]_vars
  BY StepShows
<1>6. Init => IpcSystem!Init
  BY InitShows
<1> QED BY <1>1, <1>2, <1>3, <1>4, <1>5, <1>6, KernelInvariant, PTL
        DEF Spec, ImplementsRendezvous
=============================================================================
