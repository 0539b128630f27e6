------------------------------- MODULE Clock -------------------------------
(***************************************************************************)
(* The clock server of clock.c, its notifier and its clients.  The notifier*)
(* turns every expiry of the kernel's timer into a TICK; the server counts *)
(* them, and keeps a client that asked for a delay in a table until its    *)
(* tick has come.  The server sweeps that table slot by slot and answers a *)
(* client in between, so what clients and notifier do next is queued while *)
(* the sweep goes on.                                                      *)
(***************************************************************************)
EXTENDS Integers, Sequences

CONSTANTS
  Clients, Notifier, Nobody,
  MaxWaiters,   \* MAX_CLOCK_WAITERS (64)
  Period,       \* the notifier's AwaitEvent sleeps this long (10000 us)
  Amounts,      \* ticks the clients ask for
  MaxTick       \* bound: no delay ends after this tick

ASSUME ClockAssumption ==
  /\ MaxWaiters \in Nat \ {0} /\ Period \in Nat \ {0} /\ MaxTick \in Nat
  /\ Amounts \subseteq Int
  /\ Notifier \notin Clients /\ Nobody \notin Clients \cup {Notifier}

WaiterSlots == 1 .. MaxWaiters
Kinds    == {"TIME", "DELAY", "DELAY_UNTIL"}
LongAgo  == MaxTick * Period     \* bound: ages are not told apart beyond this

VARIABLES
  current_tick,
  waiters,    \* per slot: the client and its target_tick
  sweep,      \* the slot waiters_release_ready looks at, or 0
  inbox,      \* the server's send queue, oldest first
  ask,        \* what each client's call asks for and how long ago it was made
  answer,     \* what its last call returned
  left        \* time left of the notifier's sleep, -1 while it is not asleep

vars == <<current_tick, waiters, sweep, inbox, ask, answer, left>>

FreeSlot == [tid |-> Nobody, target |-> 0]
Unused(i) == waiters[i].tid = Nobody
NoCall == [kind |-> "none", ticks |-> 0, since |-> 0]
Blocked(c) == ask[c] # NoCall

Init ==
  /\ current_tick = 0
  /\ waiters = [i \in WaiterSlots |-> FreeSlot]
  /\ sweep   = 0
  /\ inbox   = <<>>
  /\ ask     = [c \in Clients |-> NoCall]
  /\ answer  = [c \in Clients |-> "none"]
  /\ left    = -1

-----------------------------------------------------------------------------
(* The clients.  clock_send_request finds the server and sends to it.      *)

\* Time() asks with ticks = 0; the others are bounded by MaxTick.
MayAsk(kind, n) ==
  /\ kind = "TIME" => n = 0
  /\ kind = "DELAY" => current_tick + n < MaxTick
  /\ kind = "DELAY_UNTIL" => n <= MaxTick

Call(c, kind, n) ==
  /\ ~Blocked(c)
  /\ MayAsk(kind, n)
  /\ ask'    = [ask EXCEPT ![c] = [kind |-> kind, ticks |-> n, since |-> 0]]
  /\ answer' = [answer EXCEPT ![c] = "none"]
  /\ inbox'  = Append(inbox, c)
  /\ UNCHANGED <<current_tick, waiters, sweep, left>>

-----------------------------------------------------------------------------
(* The notifier and the kernel's timer.                                    *)

NotifierBusy == \E i \in DOMAIN inbox : inbox[i] = Notifier

\* AwaitEvent sleeps a whole period from the call on.
NotifierAwaits ==
  /\ left = -1 /\ ~NotifierBusy
  /\ current_tick < MaxTick      \* bound
  /\ left' = Period
  /\ UNCHANGED <<current_tick, waiters, sweep, inbox, ask, answer>>

NotifierSends ==
  /\ left = 0
  /\ left'  = -1
  /\ inbox' = Append(inbox, Notifier)
  /\ UNCHANGED <<current_tick, waiters, sweep, ask, answer>>

Older(d) == IF d < LongAgo THEN d + 1 ELSE d

Elapse ==
  /\ left' = IF left > 0 THEN left - 1 ELSE left
  /\ ask' = [c \in Clients |->
               IF Blocked(c) THEN [ask[c] EXCEPT !.since = Older(@)] ELSE ask[c]]
  /\ UNCHANGED <<current_tick, waiters, sweep, inbox, answer>>

-----------------------------------------------------------------------------
(* The server.  Its handlers take the oldest message.                      *)

Receives(x) == sweep = 0 /\ inbox # <<>> /\ Head(inbox) = x /\ inbox' = Tail(inbox)

Reply(c, status) ==
  /\ answer' = [answer EXCEPT ![c] = status]
  /\ ask'    = [ask EXCEPT ![c] = NoCall]

\* TICK: the notifier is answered first, then the sweep begins.
HandleTick ==
  /\ Receives(Notifier)
  /\ current_tick' = current_tick + 1
  /\ sweep' = 1
  /\ UNCHANGED <<waiters, ask, answer, left>>

\* Mutant: a client is let go one tick before its time.
AlmostDue(i) == ~Unused(i) /\ waiters[i].target <= current_tick + 1

\* Mutant: a client is not let go before its time is over.
Overdue(i) == ~Unused(i) /\ waiters[i].target < current_tick

Due(i) == ~Unused(i) /\ waiters[i].target <= current_tick

\* waiters_release_ready, one slot at a time.
Sweep ==
  /\ sweep # 0
  /\ IF Due(sweep)
     THEN /\ waiters' = [waiters EXCEPT ![sweep] = FreeSlot]
          /\ Reply(waiters[sweep].tid, "ok")
     ELSE UNCHANGED <<waiters, ask, answer>>
  /\ sweep' = IF sweep = MaxWaiters THEN 0 ELSE sweep + 1
  /\ UNCHANGED <<current_tick, inbox, left>>

\* Mutant: a full table is not reported.
Forget(c) == UNCHANGED <<ask, answer>>

\* -3: no slot is free.
Refuse(c) == Reply(c, "full")

\* waiters_add: the client goes into the first free slot.
AddWaiter(c, target) ==
  \/ /\ \E i \in WaiterSlots :
          /\ Unused(i) /\ \A j \in 1 .. i - 1 : ~Unused(j)
          /\ waiters' = [waiters EXCEPT ![i] = [tid |-> c, target |-> target]]
     /\ UNCHANGED <<ask, answer>>
  \/ /\ \A i \in WaiterSlots : ~Unused(i)
     /\ Refuse(c)
     /\ UNCHANGED waiters

HandleTime(c) ==
  /\ Receives(c)
  /\ ask[c].kind = "TIME"
  /\ Reply(c, "ok")
  /\ UNCHANGED <<current_tick, waiters, sweep, left>>

HandleDelay(c) ==
  /\ Receives(c)
  /\ ask[c].kind = "DELAY"
  /\ \/ ask[c].ticks < 0 /\ Reply(c, "negative") /\ UNCHANGED waiters
     \/ ask[c].ticks = 0 /\ Reply(c, "ok") /\ UNCHANGED waiters
     \/ ask[c].ticks > 0 /\ AddWaiter(c, current_tick + ask[c].ticks)
  /\ UNCHANGED <<current_tick, sweep, left>>

HandleDelayUntil(c) ==
  /\ Receives(c)
  /\ ask[c].kind = "DELAY_UNTIL"
  /\ \/ ask[c].ticks <= current_tick /\ Reply(c, "ok") /\ UNCHANGED waiters
     \/ ask[c].ticks > current_tick /\ AddWaiter(c, ask[c].ticks)
  /\ UNCHANGED <<current_tick, sweep, left>>

Server == HandleTick \/ Sweep
          \/ \E c \in Clients : HandleTime(c) \/ HandleDelay(c) \/ HandleDelayUntil(c)

Next ==
  \/ \E c \in Clients, kind \in Kinds, n \in Amounts : Call(c, kind, n)
  \/ NotifierAwaits \/ NotifierSends \/ Elapse \/ Server

Spec == Init /\ [][Next]_vars

-----------------------------------------------------------------------------
(* Correctness.                                                            *)

TypeOK ==
  /\ current_tick \in 0 .. MaxTick
  /\ waiters \in [WaiterSlots -> [tid : Clients \cup {Nobody}, target : 0 .. MaxTick]]
  /\ sweep \in 0 .. MaxWaiters
  /\ inbox \in Seq(Clients \cup {Notifier})
  /\ ask \in [Clients -> [kind : Kinds, ticks : Amounts, since : 0 .. LongAgo] \cup {NoCall}]
  /\ answer \in [Clients -> {"ok", "full", "negative", "none"}]
  /\ left \in -1 .. Period

Places(c) == {i \in DOMAIN inbox : inbox[i] = c}
Seats(c)  == {i \in WaiterSlots : waiters[i].tid = c}

\* A client that waits is in exactly one place, the server's queue or one
\* slot of the table, and one that does not wait is in none: nobody is
\* forgotten, and nobody is answered twice (and all state has its type).
NobodyForgotten ==
  TypeOK /\ \A c \in Clients :
    /\ Blocked(c) =>
         \/ Seats(c) = {} /\ \E i \in Places(c) : Places(c) = {i}
         \/ Places(c) = {} /\ \E i \in Seats(c) : Seats(c) = {i}
    /\ ~Blocked(c) => Places(c) = {} /\ Seats(c) = {}

\* Once the sweep of a tick is over nobody sleeps whose tick has come,
\* whatever slots were freed and asked for again meanwhile.
NobodyOverslept ==
  sweep = 0 => \A i \in WaiterSlots : Unused(i) \/ waiters[i].target > current_tick

\* Delay(n) returns no sooner than n - 1 whole periods after it was called:
\* the first tick may come at once, the others take a period each.
DelaysLastLongEnough ==
  [][\A c \in Clients :
       /\ answer[c] = "none" /\ answer'[c] = "ok"
       /\ ask[c].kind = "DELAY" /\ ask[c].ticks > 0
       => ask[c].since >= (ask[c].ticks - 1) * Period]_vars
=============================================================================
