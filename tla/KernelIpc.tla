------------------------------ MODULE KernelIpc ------------------------------
(***************************************************************************)
(* The kernel's message passing implements Rendezvous.  A tid is mapped to *)
(* the live descriptor that carries it; whom a call names is what the      *)
(* caller asked for (send_to), not the descriptor pointer the kernel keeps *)
(* (ipc_receiver), so the refinement fails if the two ever part.           *)
(***************************************************************************)
EXTENDS Kernel

IpcTids == 1 .. MaxTid

\* The live descriptors that carry a tid: one or none.
Carriers(n) == {t \in Slots : tid[t] = n /\ Exists(t)}

\* f of the task a tid belongs to, or the default when it has none.
OfTask(f(_), default) ==
  [n \in IpcTids |-> IF Carriers(n) = {} THEN default
                     ELSE f(CHOOSE t \in Carriers(n) : TRUE)]

PhaseOf(t) == CASE state[t] = "SEND_BLOCKED"  -> "queued"
                [] state[t] = "REPLY_BLOCKED" -> "taken"
                [] OTHER                      -> "idle"

TargetOf(t) == send_to[t]
InboxOf(t)  == [i \in DOMAIN send_queue[t] |-> tid[send_queue[t][i]]]

Alive   == {tid[t] : t \in {u \in Slots : Exists(u)}}
Leaving == IF kpc = "exit" THEN {tid[active]} ELSE {}

Phase   == OfTask(PhaseOf, "idle")
Target  == OfTask(TargetOf, 0)
Inbox   == OfTask(InboxOf, <<>>)

IpcSystem == INSTANCE Rendezvous WITH
  Tids    <- IpcTids,
  born    <- next_tid - 1,
  alive   <- Alive,
  leaving <- Leaving,
  phase   <- Phase,
  target  <- Target,
  inbox   <- Inbox

\* What tasks can see of the kernel's message passing.
IpcView == <<next_tid, Alive, Leaving, Phase, Target, Inbox>>

\* Every step of task.c / kernel.c is a step of the abstract rendezvous or
\* changes nothing a caller could see: calls reach the task they named, are
\* taken in the order they were made and end by that task's answer or exit.
ImplementsRendezvous ==
  IpcSystem!Init /\ [][UNCHANGED vars \/ UNCHANGED IpcView \/ IpcSystem!Next]_vars

\* What the mapping rests on besides KernelInv: a descriptor that has been used
\* carries one of the tids, and only a task with an open call has named anybody.
CallsNamed ==
  /\ next_tid <= MaxTid + 1
  /\ \A t \in Slots : state[t] # "UNUSED" => tid[t] # 0
  /\ \A t \in Slots : ~Blocked(t) => send_to[t] = 0

\* A task that blocks in Receive has taken every call made to it.
NoneKeptWaiting ==
  \A t \in Slots : state[t] = "RECEIVE_BLOCKED" => send_queue[t] = <<>>
=============================================================================
