----------------------------- MODULE ClockProofs -----------------------------
(***************************************************************************)
(* Proofs about Clock, for every set of clients, every number of slots and *)
(* every period.                                                           *)
(*                                                                         *)
(* A client moves from the server's queue to a slot of the table or to its *)
(* answer.  The notifier is in one place as well, so ticks are a period    *)
(* apart; and the sweep has dealt with the slots below the one it looks at.*)
(***************************************************************************)
EXTENDS Clock, TLAPS

At(s, x) == {i \in DOMAIN s : s[i] = x}

Waiting(c) == \E i \in Places(c) : Places(c) = {i}
Seated(c)  == \E i \in Seats(c) : Seats(c) = {i}

OnePlace ==
  \A c \in Clients :
    /\ Blocked(c) => \/ Seats(c) = {} /\ Waiting(c)
                     \/ Places(c) = {} /\ Seated(c)
    /\ ~Blocked(c) => Places(c) = {} /\ Seats(c) = {}

\* The notifier sleeps, or its message is queued, or it is about to sleep.
OneNotifier ==
  /\ Places(Notifier) = {} \/ Waiting(Notifier)
  /\ left # -1 => Places(Notifier) = {}
  /\ left # -1 \/ Places(Notifier) # {} => current_tick < MaxTick

\* A tick that is queued ahead of a call is counted before it.
TickAhead(i) == IF \E j \in Places(Notifier) : j < i THEN 1 ELSE 0

DelaysFit ==
  /\ \A c \in Clients : ask[c].kind = "DELAY_UNTIL" => ask[c].ticks <= MaxTick
  /\ \A c \in Clients : ask[c].kind = "DELAY" => \A i \in Places(c) :
       current_tick + ask[c].ticks + TickAhead(i) <= MaxTick

\* Slots below the one the sweep looks at hold nobody whose time has come.
SweptBelow ==
  \A i \in WaiterSlots : \/ Unused(i)
                         \/ waiters[i].target > current_tick
                         \/ sweep # 0 /\ i >= sweep

\* The part of the notifier's period that has gone by.
Elapsed == IF left # -1 THEN Period - left
           ELSE IF Places(Notifier) # {} THEN Period ELSE 0

\* How many ticks a client has sat through, after the first.
FullTicks(i) == current_tick + ask[waiters[i].tid].ticks - waiters[i].target - 1

SatLongEnough ==
  \A i \in WaiterSlots :
    ~Unused(i) /\ ask[waiters[i].tid].kind = "DELAY" =>
      LET a == ask[waiters[i].tid]
      IN  /\ a.ticks <= waiters[i].target
          /\ \/ a.since = LongAgo
             \/ FullTicks(i) < 0
             \/ a.since >= FullTicks(i) * Period + Elapsed

IInv == TypeOK /\ OnePlace /\ OneNotifier /\ DelaysFit /\ SweptBelow /\ SatLongEnough

-----------------------------------------------------------------------------
(* The queue and the steps.                                                *)

LEMMA AppendAt ==
  ASSUME NEW S, NEW s \in Seq(S), NEW x \in S, NEW y
  PROVE  /\ At(Append(s, x), y) = IF y = x THEN At(s, y) \cup {Len(s) + 1} ELSE At(s, y)
         /\ \A i \in At(s, y) : i \in 1 .. Len(s)
BY DEF At

LEMMA TailAt ==
  ASSUME NEW S, NEW s \in Seq(S), s # <<>>, NEW y
  PROVE  /\ At(s, y) \subseteq Nat
         /\ 1 \in At(s, y) <=> y = Head(s)
         /\ \A i \in Nat : i \in At(Tail(s), y) <=> i # 0 /\ i + 1 \in At(s, y)
         /\ At(Tail(s), y) \subseteq Nat
<1>1. /\ Len(s) \in Nat /\ Len(s) # 0 /\ DOMAIN s = 1 .. Len(s) /\ Head(s) = s[1]
      /\ Tail(s) \in Seq(S) /\ Len(Tail(s)) = Len(s) - 1
      /\ \A i \in 1 .. Len(Tail(s)) : Tail(s)[i] = s[i + 1]
  OBVIOUS
<1>2. DOMAIN Tail(s) = 1 .. Len(Tail(s))
  BY <1>1
<1> QED BY <1>1, <1>2 DEF At

\* Taking the oldest message away.
LEMMA ReceivesMoves ==
  ASSUME TypeOK, NEW x \in Clients \cup {Notifier}, Receives(x)
  PROVE  /\ inbox' \in Seq(Clients \cup {Notifier})
         /\ 1 \in Places(x)
         /\ Waiting(x) => Places(x) = {1} /\ Places(x)' = {}
         /\ \A c \in Clients \cup {Notifier} :
              c # x => /\ Places(c) = {} <=> Places(c)' = {}
                       /\ Waiting(c) => Waiting(c)'
                       /\ \A i \in Places(c)' : i + 1 \in Places(c)
<1>1. /\ inbox \in Seq(Clients \cup {Notifier}) /\ inbox # <<>> /\ x = Head(inbox)
      /\ inbox' = Tail(inbox)
  BY DEF TypeOK, Receives
<1>2. \A y : /\ At(inbox, y) \subseteq Nat
             /\ 1 \in At(inbox, y) <=> y = x
             /\ \A i \in Nat : i \in At(inbox', y) <=> i # 0 /\ i + 1 \in At(inbox, y)
             /\ At(inbox', y) \subseteq Nat
             /\ 0 \notin At(inbox, y)
  BY <1>1, TailAt DEF At
<1>3. \A y : Places(y) = At(inbox, y) /\ Places(y)' = At(inbox', y)
  BY DEF Places, At
<1>4. Waiting(x) => Places(x) = {1} /\ Places(x)' = {}
  <2> SUFFICES ASSUME NEW i \in Places(x), Places(x) = {i} PROVE Places(x) = {1} /\ Places(x)' = {}
    BY DEF Waiting
  <2>1. i = 1
    BY <1>2, <1>3
  <2>2. \A j \in Places(x)' : FALSE
    BY <2>1, <1>2, <1>3
  <2> QED BY <2>1, <2>2
<1>5. ASSUME NEW c \in Clients \cup {Notifier}, c # x
      PROVE  /\ Places(c) = {} <=> Places(c)' = {}
             /\ Waiting(c) => Waiting(c)'
             /\ \A i \in Places(c)' : i + 1 \in Places(c)
  <2>1. \A i \in Places(c) : i - 1 \in Nat /\ i - 1 \in Places(c)' /\ (i - 1) + 1 = i
    BY <1>2, <1>3, <1>5
  <2>2. \A i \in Places(c)' : i \in Nat /\ i + 1 \in Places(c)
    BY <1>2, <1>3
  <2>3. Waiting(c) => Waiting(c)'
    <3> SUFFICES ASSUME NEW i \in Places(c), Places(c) = {i} PROVE Waiting(c)'
      BY DEF Waiting
    <3>1. i - 1 \in Places(c)' /\ \A j \in Places(c)' : j = i - 1
      BY <2>1, <2>2
    <3> QED BY <3>1 DEF Waiting
  <2> QED BY <2>1, <2>2, <2>3
<1>6. inbox' \in Seq(Clients \cup {Notifier})
  BY <1>1
<1>7. 1 \in Places(x)
  BY <1>2, <1>3
<1> QED BY <1>4, <1>5, <1>6, <1>7

\* Sending puts the sender last.
LEMMA SendMoves ==
  ASSUME TypeOK, NEW x \in Clients \cup {Notifier}, inbox' = Append(inbox, x)
  PROVE  /\ inbox' \in Seq(Clients \cup {Notifier})
         /\ Places(x) = {} => Waiting(x)' /\ \A i \in Places(x)' : \A c : \A j \in Places(c) : j < i
         /\ \A c : c # x => Places(c)' = Places(c) /\ (Waiting(c) => Waiting(c)')
<1>1. inbox \in Seq(Clients \cup {Notifier})
  BY DEF TypeOK
<1>2. \A y : Places(y) = At(inbox, y) /\ Places(y)' = At(inbox', y)
  BY DEF Places, At
<1>3. \A y : /\ At(inbox', y) = IF y = x THEN At(inbox, y) \cup {Len(inbox) + 1} ELSE At(inbox, y)
             /\ \A i \in At(inbox, y) : i \in 1 .. Len(inbox)
  BY <1>1, AppendAt
<1>4. Len(inbox) \in Nat /\ inbox' \in Seq(Clients \cup {Notifier})
  BY <1>1
<1>5. \A c : c # x => Places(c)' = Places(c) /\ (Waiting(c) => Waiting(c)')
  BY <1>2, <1>3 DEF Waiting
<1>6. Places(x) = {} => Places(x)' = {Len(inbox) + 1}
  BY <1>2, <1>3
<1>7. \A c : \A j \in Places(c) : j < Len(inbox) + 1
  BY <1>2, <1>3, <1>4
<1>8. Places(x) = {} => Waiting(x)' /\ \A i \in Places(x)' : \A c : \A j \in Places(c) : j < i
  <2> SUFFICES ASSUME Places(x) = {}
               PROVE  Waiting(x)' /\ \A i \in Places(x)' : \A c : \A j \in Places(c) : j < i
    OBVIOUS
  <2>1. Places(x)' = {Len(inbox) + 1}
    BY <1>6
  <2>2. Waiting(x)'
    BY <2>1 DEF Waiting
  <2>3. \A i \in Places(x)' : i = Len(inbox) + 1
    BY <2>1
  <2>4. \A i \in Places(x)' : \A c : \A j \in Places(c) : j < i
    BY <1>7, <2>3
  <2> QED BY <2>2, <2>4
<1> QED BY <1>4, <1>5, <1>8

\* What a call asks for.
LEMMA CallTypes ==
  ASSUME TypeOK
  PROVE  /\ current_tick \in Int
         /\ \A c \in Clients : /\ ask[c].ticks \in Int /\ ask[c].since \in 0 .. LongAgo
                               /\ ask[c].kind \in Kinds <=> Blocked(c)
                               /\ Blocked(c) => ask[c].ticks \in Amounts
<1>1. current_tick \in Int /\ LongAgo \in Nat
  BY ClockAssumption DEF TypeOK, LongAgo
<1>2. ASSUME NEW c \in Clients
      PROVE  /\ ask[c].ticks \in Int /\ ask[c].since \in 0 .. LongAgo
             /\ ask[c].kind \in Kinds <=> Blocked(c)
             /\ Blocked(c) => ask[c].ticks \in Amounts
  <2>1. CASE ask[c] = NoCall
    <3>1. NoCall.ticks = 0 /\ NoCall.since = 0 /\ NoCall.kind \notin Kinds
      BY DEF NoCall, Kinds
    <3> QED BY <1>1, <2>1, <3>1 DEF Blocked
  <2>2. CASE ask[c] \in [kind : Kinds, ticks : Amounts, since : 0 .. LongAgo]
    <3>1. ask[c] # NoCall
      BY <2>2 DEF NoCall, Kinds
    <3> QED BY <2>2, <3>1, ClockAssumption DEF Blocked
  <2> QED BY <2>1, <2>2 DEF TypeOK
<1> QED BY <1>1, <1>2

\* A client leaves the queue with its answer, which a delay is not yet.
Answered(c) ==
  /\ Receives(c) /\ Blocked(c)
  /\ \E status \in {"ok", "full", "negative"} :
       /\ Reply(c, status)
       /\ ask[c].kind = "DELAY" /\ ask[c].ticks > 0 => status # "ok"
  /\ UNCHANGED <<current_tick, waiters, sweep, left>>

\* Or it gets a slot, in which it sits until a tick to come.
Sits(c, i, target) ==
  /\ Receives(c) /\ Blocked(c) /\ Unused(i)
  /\ waiters' = [waiters EXCEPT ![i] = [tid |-> c, target |-> target]]
  /\ target > current_tick
  /\ \/ ask[c].kind = "DELAY" /\ target = current_tick + ask[c].ticks
     \/ ask[c].kind = "DELAY_UNTIL" /\ target = ask[c].ticks
  /\ UNCHANGED <<current_tick, sweep, ask, answer, left>>

\* The sweep lets a client go whose time has come.
Releases(c, i) ==
  /\ sweep = i /\ waiters[i].tid = c /\ waiters[i].target <= current_tick
  /\ waiters' = [waiters EXCEPT ![i] = FreeSlot]
  /\ Reply(c, "ok")
  /\ sweep' = IF i = MaxWaiters THEN 0 ELSE i + 1
  /\ UNCHANGED <<current_tick, inbox, left>>

PassesBy(i) ==
  /\ sweep = i /\ ~Due(i)
  /\ sweep' = IF i = MaxWaiters THEN 0 ELSE i + 1
  /\ UNCHANGED <<current_tick, waiters, inbox, ask, answer, left>>

Asks(c) ==
  /\ ~Blocked(c)
  /\ \E kind \in Kinds, n \in Amounts :
       /\ MayAsk(kind, n)
       /\ ask' = [ask EXCEPT ![c] = [kind |-> kind, ticks |-> n, since |-> 0]]
  /\ answer' = [answer EXCEPT ![c] = "none"]
  /\ inbox' = Append(inbox, c)
  /\ UNCHANGED <<current_tick, waiters, sweep, left>>

LEMMA StepKinds ==
  ASSUME TypeOK, Next
  PROVE  \/ \E c \in Clients : Asks(c) \/ Answered(c)
         \/ \E c \in Clients, i \in WaiterSlots, target \in Int : Sits(c, i, target)
         \/ \E c \in Clients, i \in WaiterSlots : Releases(c, i)
         \/ \E i \in WaiterSlots : PassesBy(i)
         \/ NotifierAwaits \/ NotifierSends \/ Elapse \/ HandleTick
<1>1. CASE \E c \in Clients, kind \in Kinds, n \in Amounts : Call(c, kind, n)
  BY <1>1 DEF Call, Asks
<1>3. CASE Sweep
  <2>1. sweep \in WaiterSlots
    BY <1>3, ClockAssumption DEF Sweep, TypeOK, WaiterSlots
  <2>2. CASE Due(sweep)
    <3>1. waiters[sweep].tid \in Clients
      BY <2>1, <2>2 DEF Due, Unused, TypeOK
    <3> QED BY <1>3, <2>1, <2>2, <3>1 DEF Sweep, Releases, Due
  <2>3. CASE ~Due(sweep)
    BY <1>3, <2>1, <2>3 DEF Sweep, PassesBy
  <2> QED BY <2>2, <2>3
<1>4. ASSUME NEW c \in Clients, HandleTime(c)
      PROVE  Answered(c)
  BY <1>4 DEF HandleTime, Answered, Blocked, NoCall
<1>5. ASSUME NEW c \in Clients, HandleDelay(c)
      PROVE  Answered(c) \/ \E i \in WaiterSlots, target \in Int : Sits(c, i, target)
  <2>1. ask[c].ticks \in Int /\ current_tick \in Int /\ Blocked(c)
    BY <1>5, CallTypes DEF HandleDelay, Kinds
  <2>2. CASE ask[c].ticks > 0 /\ AddWaiter(c, current_tick + ask[c].ticks)
    <3>1. Receives(c) /\ UNCHANGED <<current_tick, sweep, left>> /\ ask[c].kind = "DELAY"
      BY <1>5 DEF HandleDelay
    <3>2. CASE Refuse(c) /\ UNCHANGED waiters
      BY <2>1, <3>1, <3>2 DEF Refuse, Answered
    <3>3. CASE /\ UNCHANGED <<ask, answer>>
               /\ \E i \in WaiterSlots :
                    /\ Unused(i)
                    /\ waiters' = [waiters EXCEPT ![i] =
                                     [tid |-> c, target |-> current_tick + ask[c].ticks]]
      <4>1. /\ current_tick + ask[c].ticks \in Int
            /\ current_tick + ask[c].ticks > current_tick
        BY <2>1, <2>2
      <4> QED BY <4>1, <2>1, <3>1, <3>3 DEF Sits
    <3> QED BY <2>2, <3>2, <3>3 DEF AddWaiter
  <2>3. CASE ~(ask[c].ticks > 0)
    <3>1. Receives(c) /\ UNCHANGED <<current_tick, waiters, sweep, left>>
      BY <1>5, <2>3 DEF HandleDelay
    <3>2. \E status \in {"ok", "full", "negative"} : Reply(c, status)
      BY <1>5, <2>3 DEF HandleDelay
    <3> QED BY <2>1, <2>3, <3>1, <3>2 DEF Answered
  <2> QED BY <1>5, <2>1, <2>2, <2>3 DEF HandleDelay
<1>6. ASSUME NEW c \in Clients, HandleDelayUntil(c)
      PROVE  Answered(c) \/ \E i \in WaiterSlots, target \in Int : Sits(c, i, target)
  <2>1. ask[c].ticks \in Int /\ current_tick \in Int /\ Blocked(c)
    BY <1>6, CallTypes DEF HandleDelayUntil, Kinds
  <2>2. CASE AddWaiter(c, ask[c].ticks) /\ ask[c].ticks > current_tick
    <3>1. Receives(c) /\ UNCHANGED <<current_tick, sweep, left>> /\ ask[c].kind = "DELAY_UNTIL"
      BY <1>6 DEF HandleDelayUntil
    <3>2. CASE Refuse(c) /\ UNCHANGED waiters
      BY <2>1, <3>1, <3>2 DEF Refuse, Answered
    <3>3. CASE /\ UNCHANGED <<ask, answer>>
               /\ \E i \in WaiterSlots :
                    /\ Unused(i)
                    /\ waiters' = [waiters EXCEPT ![i] = [tid |-> c, target |-> ask[c].ticks]]
      BY <2>1, <2>2, <3>1, <3>3 DEF Sits
    <3> QED BY <2>2, <3>2, <3>3 DEF AddWaiter
  <2>3. CASE ~(AddWaiter(c, ask[c].ticks) /\ ask[c].ticks > current_tick)
    BY <1>6, <2>1, <2>3 DEF HandleDelayUntil, Answered
  <2> QED BY <2>2, <2>3
<1> QED BY <1>1, <1>3, <1>4, <1>5, <1>6 DEF Next, Server

-----------------------------------------------------------------------------
(* What a step preserves.                                                  *)

LEMMA SitsInTime ==
  ASSUME TypeOK, DelaysFit, NEW c \in Clients, NEW i \in WaiterSlots, NEW target \in Int,
         Sits(c, i, target)
  PROVE  target \in 0 .. MaxTick
<1>1. current_tick \in Nat /\ MaxTick \in Nat /\ ask[c].ticks \in Int /\ target > current_tick
  BY CallTypes, ClockAssumption DEF TypeOK, Sits
<1>2. CASE ask[c].kind = "DELAY" /\ target = current_tick + ask[c].ticks
  <2>1. 1 \in Places(c)
    BY ReceivesMoves DEF Sits
  <2>2. TickAhead(1) \in {0, 1}
    BY DEF TickAhead
  <2>3. current_tick + ask[c].ticks + TickAhead(1) <= MaxTick
    BY <1>2, <2>1 DEF DelaysFit
  <2> QED BY <1>1, <1>2, <2>2, <2>3
<1>3. CASE ask[c].kind = "DELAY_UNTIL" /\ target = ask[c].ticks
  BY <1>1, <1>3 DEF DelaysFit
<1> QED BY <1>2, <1>3 DEF Sits

LEMMA TypeStep ==
  ASSUME IInv, Next
  PROVE  TypeOK'
<1> USE DEF IInv
<1>1. /\ MaxTick \in Nat /\ MaxWaiters \in Nat \ {0} /\ Period \in Nat \ {0}
      /\ current_tick \in 0 .. MaxTick /\ sweep \in 0 .. MaxWaiters /\ left \in -1 .. Period
      /\ inbox \in Seq(Clients \cup {Notifier})
      /\ waiters \in [WaiterSlots -> [tid : Clients \cup {Nobody}, target : 0 .. MaxTick]]
      /\ answer \in [Clients -> {"ok", "full", "negative", "none"}]
      /\ ask \in [Clients -> [kind : Kinds, ticks : Amounts, since : 0 .. LongAgo] \cup {NoCall}]
  BY ClockAssumption DEF TypeOK
<1>2. LongAgo \in Nat
  BY <1>1 DEF LongAgo
<1>3. ASSUME NEW c \in Clients, Asks(c)
      PROVE  TypeOK'
  <2>1. inbox' \in Seq(Clients \cup {Notifier})
    BY <1>1, <1>3, SendMoves DEF Asks
  <2>2. 0 \in 0 .. LongAgo
    BY <1>2
  <2>3. ask' \in [Clients -> [kind : Kinds, ticks : Amounts, since : 0 .. LongAgo] \cup {NoCall}]
    BY <1>1, <1>3, <2>2 DEF Asks
  <2> QED BY <1>1, <1>3, <2>1, <2>3 DEF Asks, TypeOK
<1>4. ASSUME NEW c \in Clients, NEW status \in {"ok", "full", "negative"}, Reply(c, status)
      PROVE  /\ answer' \in [Clients -> {"ok", "full", "negative", "none"}]
             /\ ask' \in [Clients -> [kind : Kinds, ticks : Amounts, since : 0 .. LongAgo]
                                       \cup {NoCall}]
  BY <1>1, <1>4 DEF Reply
<1>5. ASSUME NEW c \in Clients, Answered(c)
      PROVE  TypeOK'
  <2>1. inbox' \in Seq(Clients \cup {Notifier})
    BY <1>5, ReceivesMoves DEF Answered
  <2> QED BY <1>1, <1>4, <1>5, <2>1 DEF Answered, TypeOK
<1>6. ASSUME NEW c \in Clients, NEW i \in WaiterSlots, NEW target \in Int, Sits(c, i, target)
      PROVE  TypeOK'
  <2>1. inbox' \in Seq(Clients \cup {Notifier}) /\ target \in 0 .. MaxTick
    BY <1>6, ReceivesMoves, SitsInTime DEF Sits
  <2> QED BY <1>1, <1>6, <2>1 DEF Sits, TypeOK
<1>7. ASSUME NEW i \in WaiterSlots, sweep = i
      PROVE  (IF i = MaxWaiters THEN 0 ELSE i + 1) \in 0 .. MaxWaiters
  BY <1>1, <1>7 DEF WaiterSlots
<1>8. ASSUME NEW c \in Clients, NEW i \in WaiterSlots, Releases(c, i)
      PROVE  TypeOK'
  <2>1. waiters' \in [WaiterSlots -> [tid : Clients \cup {Nobody}, target : 0 .. MaxTick]]
    BY <1>1, <1>8 DEF Releases, FreeSlot
  <2>2. sweep' \in 0 .. MaxWaiters
    BY <1>7, <1>8 DEF Releases
  <2> QED BY <1>1, <1>4, <1>8, <2>1, <2>2 DEF Releases, TypeOK
<1>9. ASSUME NEW i \in WaiterSlots, PassesBy(i)
      PROVE  TypeOK'
  BY <1>1, <1>7, <1>9 DEF PassesBy, TypeOK
<1>10. CASE NotifierAwaits
  BY <1>1, <1>10 DEF NotifierAwaits, TypeOK
<1>11. CASE NotifierSends
  <2>1. inbox' \in Seq(Clients \cup {Notifier})
    BY <1>11, SendMoves DEF NotifierSends
  <2> QED BY <1>1, <1>11, <2>1 DEF NotifierSends, TypeOK
<1>12. CASE Elapse
  <2>1. left' \in -1 .. Period
    BY <1>1, <1>12 DEF Elapse
  <2>2. ASSUME NEW c \in Clients, Blocked(c)
        PROVE  [ask[c] EXCEPT !.since = Older(@)]
                 \in [kind : Kinds, ticks : Amounts, since : 0 .. LongAgo]
    <3>1. ask[c] \in [kind : Kinds, ticks : Amounts, since : 0 .. LongAgo]
      BY <1>1, <2>2 DEF Blocked
    <3>2. Older(ask[c].since) \in 0 .. LongAgo
      BY <1>2, <3>1 DEF Older
    <3> QED BY <3>1, <3>2
  <2>3. ask' \in [Clients -> [kind : Kinds, ticks : Amounts, since : 0 .. LongAgo] \cup {NoCall}]
    BY <1>1, <1>12, <2>2 DEF Elapse
  <2> QED BY <1>1, <1>12, <2>1, <2>3 DEF Elapse, TypeOK
<1>13. CASE HandleTick
  <2>1. inbox' \in Seq(Clients \cup {Notifier}) /\ Places(Notifier) # {}
    BY <1>13, ReceivesMoves DEF HandleTick
  <2>2. current_tick < MaxTick
    BY <2>1 DEF OneNotifier
  <2> QED BY <1>1, <1>13, <2>1, <2>2 DEF HandleTick, TypeOK
<1> QED BY <1>3, <1>5, <1>6, <1>8, <1>9, <1>10, <1>11, <1>12, <1>13, StepKinds

\* Places and seats of the clients a step is not about.
LEMMA OnePlaceStep ==
  ASSUME IInv, Next
  PROVE  OnePlace'
<1> USE DEF IInv
<1>1. /\ waiters \in [WaiterSlots -> [tid : Clients \cup {Nobody}, target : 0 .. MaxTick]]
      /\ ask \in [Clients -> [kind : Kinds, ticks : Amounts, since : 0 .. LongAgo] \cup {NoCall}]
      /\ Notifier \notin Clients /\ Nobody \notin Clients
  BY ClockAssumption DEF TypeOK
<1>2. \A c \in Clients : inbox' = inbox => Places(c)' = Places(c) /\ (Waiting(c) => Waiting(c)')
  BY DEF Places, Waiting
<1>3. \A c \in Clients : waiters' = waiters => Seats(c)' = Seats(c) /\ (Seated(c) => Seated(c)')
  BY DEF Seats, Seated
<1>4. ASSUME UNCHANGED <<inbox, waiters>>, \A c \in Clients : Blocked(c)' <=> Blocked(c)
      PROVE  OnePlace'
  BY <1>2, <1>3, <1>4 DEF OnePlace
<1>5. ASSUME NEW c \in Clients, Asks(c)
      PROVE  OnePlace'
  <2>1. /\ Waiting(c)'
        /\ \A d \in Clients : d # c => Places(d)' = Places(d) /\ (Waiting(d) => Waiting(d)')
    BY <1>5, SendMoves DEF Asks, OnePlace
  <2>2. \A d \in Clients : d # c => (Blocked(d)' <=> Blocked(d))
    BY <1>1, <1>5 DEF Asks, Blocked
  <2>3. waiters' = waiters /\ Seats(c) = {}
    BY <1>5 DEF Asks, OnePlace
  <2>4. Blocked(c)'
    <3>1. PICK kind \in Kinds, n \in Amounts :
            ask' = [ask EXCEPT ![c] = [kind |-> kind, ticks |-> n, since |-> 0]]
      BY <1>5 DEF Asks
    <3>2. ask'[c].kind \in Kinds /\ NoCall.kind \notin Kinds
      BY <1>1, <3>1 DEF NoCall, Kinds
    <3> QED BY <3>2 DEF Blocked
  <2> QED BY <1>3, <2>1, <2>2, <2>3, <2>4 DEF OnePlace
<1>6. ASSUME NEW x \in Clients \cup {Notifier}, Receives(x)
      PROVE  \A d \in Clients : d # x => /\ Places(d) = {} <=> Places(d)' = {}
                                         /\ Waiting(d) => Waiting(d)'
  BY <1>6, ReceivesMoves
<1>7. ASSUME NEW c \in Clients, Receives(c), Blocked(c)
      PROVE  Places(c)' = {} /\ Seats(c) = {}
  BY <1>7, ReceivesMoves DEF OnePlace
<1>8. ASSUME NEW c \in Clients, NEW status, Reply(c, status)
      PROVE  ~Blocked(c)' /\ \A d \in Clients : d # c => (Blocked(d)' <=> Blocked(d))
  BY <1>1, <1>8 DEF Reply, Blocked
<1>9. ASSUME NEW c \in Clients, Answered(c)
      PROVE  OnePlace'
  <2>1. /\ Receives(c) /\ Blocked(c) /\ waiters' = waiters
        /\ \E status : Reply(c, status)
    BY <1>9 DEF Answered
  <2> QED BY <1>3, <1>6, <1>7, <1>8, <2>1 DEF OnePlace
<1>10. ASSUME NEW c \in Clients, NEW i \in WaiterSlots, NEW target \in Int, Sits(c, i, target)
       PROVE  OnePlace'
  <2>1. Receives(c) /\ Blocked(c) /\ ask' = ask
    BY <1>10 DEF Sits
  <2>2. Seats(c)' = {i}
    BY <1>1, <1>7, <1>10, <2>1 DEF Sits, Seats
  <2>3. \A d \in Clients : d # c => Seats(d)' = Seats(d)
    BY <1>1, <1>10 DEF Sits, Seats, Unused
  <2>4. \A d \in Clients : Blocked(d)' <=> Blocked(d)
    BY <2>1 DEF Blocked
  <2> QED BY <1>6, <1>7, <2>1, <2>2, <2>3, <2>4 DEF OnePlace, Seated
<1>11. ASSUME NEW c \in Clients, NEW i \in WaiterSlots, Releases(c, i)
       PROVE  OnePlace'
  <2>1. i \in Seats(c) /\ inbox' = inbox /\ Reply(c, "ok")
    BY <1>11 DEF Releases, Seats
  <2>2. Places(c) = {} /\ Seats(c) = {i}
    BY <2>1 DEF OnePlace, Seated
  <2>3. Seats(c)' = {}
    BY <1>1, <1>11, <2>2 DEF Releases, Seats, FreeSlot
  <2>4. \A d \in Clients : d # c => Seats(d)' = Seats(d)
    BY <1>1, <1>11 DEF Releases, Seats, FreeSlot
  <2> QED BY <1>2, <1>8, <2>1, <2>2, <2>3, <2>4 DEF OnePlace, Seated
<1>12. ASSUME NEW i \in WaiterSlots, PassesBy(i)
       PROVE  OnePlace'
  BY <1>4, <1>12 DEF PassesBy, Blocked
<1>13. CASE NotifierAwaits
  BY <1>4, <1>13 DEF NotifierAwaits, Blocked
<1>14. CASE NotifierSends
  <2>1. \A d \in Clients : Places(d)' = Places(d) /\ (Waiting(d) => Waiting(d)')
    BY <1>1, <1>14, SendMoves DEF NotifierSends
  <2>2. \A d \in Clients : Blocked(d)' <=> Blocked(d)
    BY <1>14 DEF NotifierSends, Blocked
  <2> QED BY <1>3, <1>14, <2>1, <2>2 DEF NotifierSends, OnePlace
<1>15. CASE Elapse
  <2>1. ASSUME NEW c \in Clients
        PROVE  Blocked(c)' <=> Blocked(c)
    <3>1. CASE Blocked(c)
      <4>1. ask[c] \in [kind : Kinds, ticks : Amounts, since : 0 .. LongAgo]
        BY <1>1, <3>1 DEF Blocked
      <4>2. ask'[c].kind = ask[c].kind /\ ask[c].kind \in Kinds /\ NoCall.kind \notin Kinds
        BY <1>15, <3>1, <4>1 DEF Elapse, NoCall, Kinds
      <4> QED BY <3>1, <4>2 DEF Blocked
    <3>2. CASE ~Blocked(c)
      BY <1>15, <3>2 DEF Elapse, Blocked
    <3> QED BY <3>1, <3>2
  <2> QED BY <1>4, <1>15, <2>1 DEF Elapse
<1>16. CASE HandleTick
  <2>1. \A d \in Clients : Blocked(d)' <=> Blocked(d)
    BY <1>16 DEF HandleTick, Blocked
  <2> QED BY <1>1, <1>3, <1>6, <1>16, <2>1 DEF HandleTick, OnePlace
<1> QED BY <1>5, <1>9, <1>10, <1>11, <1>12, <1>13, <1>14, <1>15, <1>16, StepKinds

LEMMA OneNotifierStep ==
  ASSUME IInv, Next
  PROVE  OneNotifier'
<1> USE DEF IInv
<1>1. /\ current_tick \in Int /\ MaxTick \in Int /\ Period \in Nat \ {0} /\ left \in -1 .. Period
      /\ Notifier \notin Clients
  BY ClockAssumption DEF TypeOK
<1>2. inbox' = inbox => /\ Places(Notifier)' = Places(Notifier)
                        /\ Waiting(Notifier) => Waiting(Notifier)'
  BY DEF Places, Waiting
<1>3. ASSUME NEW c \in Clients, Receives(c) \/ inbox' = Append(inbox, c) \/ inbox' = inbox,
             UNCHANGED <<current_tick, left>>
      PROVE  OneNotifier'
  <2>1. CASE Receives(c)
    BY <1>1, <1>3, <2>1, ReceivesMoves DEF OneNotifier
  <2>2. CASE inbox' = Append(inbox, c)
    BY <1>1, <1>3, <2>2, SendMoves DEF OneNotifier
  <2> QED BY <1>2, <1>3, <2>1, <2>2 DEF OneNotifier
<1>4. ASSUME NEW c \in Clients, Asks(c) \/ Answered(c)
      PROVE  OneNotifier'
  BY <1>3, <1>4 DEF Asks, Answered
<1>5. ASSUME NEW c \in Clients, NEW i \in WaiterSlots, NEW target \in Int,
             Sits(c, i, target) \/ Releases(c, i)
      PROVE  OneNotifier'
  BY <1>3, <1>5 DEF Sits, Releases
<1>6. ASSUME NEW i \in WaiterSlots, PassesBy(i)
      PROVE  OneNotifier'
  BY <1>2, <1>6 DEF PassesBy, OneNotifier
<1>7. CASE NotifierAwaits
  <2>1. Places(Notifier) = {}
    BY <1>7 DEF NotifierAwaits, NotifierBusy, Places
  <2> QED BY <1>2, <1>7, <2>1 DEF NotifierAwaits, OneNotifier
<1>8. CASE NotifierSends
  <2>1. left # -1
    BY <1>1, <1>8 DEF NotifierSends
  <2>2. Waiting(Notifier)' /\ current_tick < MaxTick
    BY <1>8, <2>1, SendMoves DEF NotifierSends, OneNotifier
  <2> QED BY <1>8, <2>2 DEF NotifierSends, OneNotifier
<1>9. CASE Elapse
  <2>1. left' = -1 <=> left = -1
    BY <1>1, <1>9 DEF Elapse
  <2> QED BY <1>2, <1>9, <2>1 DEF Elapse, OneNotifier
<1>10. CASE HandleTick
  <2>1. Places(Notifier) # {} /\ (Waiting(Notifier) => Places(Notifier)' = {})
    BY <1>10, ReceivesMoves DEF HandleTick
  <2>2. Places(Notifier)' = {} /\ left = -1
    BY <2>1 DEF OneNotifier
  <2> QED BY <1>10, <2>2 DEF HandleTick, OneNotifier
<1> QED BY <1>4, <1>5, <1>6, <1>7, <1>8, <1>9, <1>10, StepKinds

LEMMA DelaysFitStep ==
  ASSUME IInv, Next
  PROVE  DelaysFit'
<1> USE DEF IInv
<1>1. /\ current_tick \in Int /\ MaxTick \in Int /\ Notifier \notin Clients
      /\ \A c \in Clients : ask[c].ticks \in Int
  BY ClockAssumption, CallTypes DEF TypeOK
<1>2. ask \in [Clients -> [kind : Kinds, ticks : Amounts, since : 0 .. LongAgo] \cup {NoCall}]
  BY DEF TypeOK
<1>3. \A i : TickAhead(i) \in {0, 1} /\ TickAhead(i)' \in {0, 1}
  BY DEF TickAhead
\* A client's call is the one it was, or it asks for no delay any more.
<1>4. ASSUME NEW c \in Clients, Answered(c) \/ \E i \in WaiterSlots : Releases(c, i)
      PROVE  \A d \in Clients : IF d = c THEN ask'[d].kind = "none" ELSE ask'[d] = ask[d]
  BY <1>2, <1>4 DEF Answered, Releases, Reply, NoCall
<1>5. ASSUME NEW x \in Clients \cup {Notifier}, Receives(x),
             NEW c \in Clients, c # x, NEW i \in Places(c)'
      PROVE  i + 1 \in Places(c) /\ (x = Notifier => TickAhead(i)' = 0 /\ TickAhead(i + 1) = 1)
                                 /\ (x # Notifier => TickAhead(i)' <= TickAhead(i + 1))
  <2>1. i \in Int /\ i + 1 \in Places(c) /\ i + 1 > 1
    BY <1>5, ReceivesMoves DEF Places, TypeOK, Receives
  <2>2. CASE x = Notifier
    <3>1. Places(Notifier) = {1} /\ Places(Notifier)' = {}
      BY <1>5, <2>2, ReceivesMoves DEF OneNotifier
    <3> QED BY <2>1, <2>2, <3>1 DEF TickAhead
  <2>3. CASE x # Notifier
    <3>1. \A j \in Places(Notifier)' : j \in Int /\ j + 1 \in Places(Notifier)
      BY <1>5, <2>3, ReceivesMoves DEF Places, TypeOK, Receives
    <3>2. (\E j \in Places(Notifier)' : j < i) => \E j \in Places(Notifier) : j < i + 1
      BY <2>1, <3>1
    <3> QED BY <2>1, <2>3, <3>2 DEF TickAhead
  <2> QED BY <2>2, <2>3
<1>6. ASSUME NEW c \in Clients, Asks(c)
      PROVE  DelaysFit'
  <2>1. PICK kind \in Kinds, n \in Amounts :
          /\ MayAsk(kind, n)
          /\ ask' = [ask EXCEPT ![c] = [kind |-> kind, ticks |-> n, since |-> 0]]
    BY <1>6 DEF Asks
  <2>2. \A d \in Clients : IF d = c THEN ask'[d].kind = kind /\ ask'[d].ticks = n
                           ELSE ask'[d] = ask[d]
    BY <1>2, <2>1
  <2>3. /\ Places(Notifier)' = Places(Notifier)
        /\ \A d \in Clients : d # c => Places(d)' = Places(d)
        /\ current_tick' = current_tick
    BY <1>1, <1>6, SendMoves DEF Asks
  <2>4. \A i : TickAhead(i)' = TickAhead(i)
    BY <2>3 DEF TickAhead
  <2>5. n \in Int /\ (kind = "DELAY_UNTIL" => n <= MaxTick) /\ (kind = "DELAY" => current_tick + n < MaxTick)
    BY <2>1, ClockAssumption DEF MayAsk
  <2>6. \A i : kind = "DELAY" => current_tick' + n + TickAhead(i)' <= MaxTick
    BY <1>1, <1>3, <2>3, <2>5
  <2> QED BY <2>2, <2>3, <2>4, <2>5, <2>6 DEF DelaysFit
<1>7. ASSUME NEW c \in Clients, Receives(c), UNCHANGED current_tick,
             \A d \in Clients : d # c => ask'[d] = ask[d],
             \/ ask'[c].kind = "none"
             \/ ask'[c] = ask[c]
      PROVE  DelaysFit'
  <2>1. Places(c)' = {}
    BY <1>7, ReceivesMoves DEF OnePlace, Waiting
  <2>2. ASSUME NEW d \in Clients, ask'[d].kind = "DELAY", NEW i \in Places(d)'
        PROVE  current_tick' + ask'[d].ticks + TickAhead(i)' <= MaxTick
    <3>1. d # c /\ ask'[d] = ask[d] /\ c # Notifier
      BY <1>1, <1>7, <2>1, <2>2
    <3>2. i + 1 \in Places(d) /\ TickAhead(i)' <= TickAhead(i + 1)
      BY <1>5, <1>7, <2>2, <3>1
    <3>3. current_tick + ask[d].ticks + TickAhead(i + 1) <= MaxTick
      BY <2>2, <3>1, <3>2 DEF DelaysFit
    <3> QED BY <1>1, <1>3, <1>7, <3>1, <3>2, <3>3
  <2>3. \A d \in Clients : ask'[d].kind = "DELAY_UNTIL" => ask'[d].ticks <= MaxTick
    BY <1>7 DEF DelaysFit
  <2> QED BY <2>2, <2>3 DEF DelaysFit
<1>8. ASSUME NEW c \in Clients, Answered(c)
      PROVE  DelaysFit'
  BY <1>4, <1>7, <1>8 DEF Answered
<1>9. ASSUME NEW c \in Clients, NEW i \in WaiterSlots, NEW target \in Int, Sits(c, i, target)
      PROVE  DelaysFit'
  BY <1>7, <1>9 DEF Sits
<1>10. ASSUME UNCHANGED <<current_tick, inbox>>,
              \A d \in Clients : \/ ask'[d].kind = "none"
                                 \/ ask'[d].kind = ask[d].kind /\ ask'[d].ticks = ask[d].ticks
       PROVE  DelaysFit'
  <2>1. \A d : Places(d)' = Places(d) /\ TickAhead(d)' = TickAhead(d)
    BY <1>10 DEF Places, TickAhead
  <2> QED BY <1>10, <2>1 DEF DelaysFit
<1>11. ASSUME NEW c \in Clients, NEW i \in WaiterSlots, Releases(c, i)
       PROVE  DelaysFit'
  BY <1>4, <1>10, <1>11 DEF Releases
<1>12. ASSUME NEW i \in WaiterSlots, PassesBy(i)
       PROVE  DelaysFit'
  BY <1>10, <1>12 DEF PassesBy
<1>13. CASE NotifierAwaits
  BY <1>10, <1>13 DEF NotifierAwaits
<1>14. CASE NotifierSends
  <2>1. left # -1
    BY <1>14 DEF NotifierSends
  <2>2. Places(Notifier) = {}
    BY <2>1 DEF OneNotifier
  <2>3. /\ \A i \in Places(Notifier)' : \A c : \A j \in Places(c) : j < i
        /\ \A d \in Clients : Places(d)' = Places(d)
        /\ UNCHANGED <<current_tick, ask>>
    BY <1>1, <1>14, <2>2, SendMoves DEF NotifierSends
  <2>4. \A d \in Clients : \A i \in Places(d)' : TickAhead(i)' = 0
    <3> SUFFICES ASSUME NEW d \in Clients, NEW i \in Places(d)', NEW j \in Places(Notifier)', j < i
                 PROVE  FALSE
      BY DEF TickAhead
    <3>1. i \in Int /\ j \in Int
      BY TypeStep DEF Places, TypeOK
    <3> QED BY <2>3, <3>1
  <2> QED BY <1>1, <1>3, <2>3, <2>4 DEF DelaysFit
<1>15. CASE Elapse
  <2>1. \A d \in Clients : ask'[d].kind = ask[d].kind /\ ask'[d].ticks = ask[d].ticks
    <3> SUFFICES ASSUME NEW d \in Clients
                 PROVE  ask'[d].kind = ask[d].kind /\ ask'[d].ticks = ask[d].ticks
      OBVIOUS
    <3>1. CASE Blocked(d)
      <4>1. ask[d] \in [kind : Kinds, ticks : Amounts, since : 0 .. LongAgo]
        BY <1>2, <3>1 DEF Blocked
      <4> QED BY <1>15, <3>1, <4>1 DEF Elapse
    <3> QED BY <1>15, <3>1 DEF Elapse
  <2> QED BY <1>10, <1>15, <2>1 DEF Elapse
<1>16. CASE HandleTick
  <2>1. Receives(Notifier) /\ ask' = ask /\ current_tick' = current_tick + 1
    BY <1>16 DEF HandleTick
  <2>2. ASSUME NEW d \in Clients, ask[d].kind = "DELAY", NEW i \in Places(d)'
        PROVE  current_tick' + ask[d].ticks + TickAhead(i)' <= MaxTick
    <3>1. i + 1 \in Places(d) /\ TickAhead(i)' = 0 /\ TickAhead(i + 1) = 1
      BY <1>1, <1>5, <2>1, <2>2
    <3>2. current_tick + ask[d].ticks + TickAhead(i + 1) <= MaxTick
      BY <2>2, <3>1 DEF DelaysFit
    <3> QED BY <1>1, <2>1, <3>1, <3>2
  <2> QED BY <2>1, <2>2 DEF DelaysFit
<1> QED BY <1>6, <1>8, <1>9, <1>11, <1>12, <1>13, <1>14, <1>15, <1>16, StepKinds

LEMMA SweptStep ==
  ASSUME IInv, Next
  PROVE  SweptBelow'
<1> USE DEF IInv
<1>1. /\ current_tick \in Int /\ MaxWaiters \in Nat \ {0} /\ sweep \in 0 .. MaxWaiters
      /\ waiters \in [WaiterSlots -> [tid : Clients \cup {Nobody}, target : 0 .. MaxTick]]
      /\ WaiterSlots = 1 .. MaxWaiters /\ Nobody \notin Clients
  BY ClockAssumption DEF TypeOK, WaiterSlots
<1>2. ASSUME UNCHANGED <<current_tick, waiters, sweep>>
      PROVE  SweptBelow'
  BY <1>2 DEF SweptBelow, Unused
<1>3. ASSUME NEW c \in Clients, NEW i \in WaiterSlots, NEW target \in Int, Sits(c, i, target)
      PROVE  SweptBelow'
  BY <1>1, <1>3 DEF Sits, SweptBelow, Unused
<1>4. ASSUME NEW i \in WaiterSlots, sweep = i, UNCHANGED current_tick,
             sweep' = IF i = MaxWaiters THEN 0 ELSE i + 1,
             \A j \in WaiterSlots : j # i => waiters'[j] = waiters[j],
             Unused(i)' \/ waiters'[i].target > current_tick
      PROVE  SweptBelow'
  BY <1>1, <1>4 DEF SweptBelow, Unused
<1>5. ASSUME NEW c \in Clients, NEW i \in WaiterSlots, Releases(c, i)
      PROVE  SweptBelow'
  <2>1. \A j \in WaiterSlots : waiters'[j] = IF j = i THEN FreeSlot ELSE waiters[j]
    BY <1>1, <1>5 DEF Releases
  <2> QED BY <1>4, <1>5, <2>1 DEF Releases, Unused, FreeSlot
<1>6. ASSUME NEW i \in WaiterSlots, PassesBy(i)
      PROVE  SweptBelow'
  <2>1. Unused(i)' \/ waiters'[i].target > current_tick
    BY <1>1, <1>6 DEF PassesBy, Due, Unused
  <2> QED BY <1>4, <1>6, <2>1 DEF PassesBy
<1>7. CASE HandleTick
  BY <1>1, <1>7 DEF HandleTick, SweptBelow
<1> QED
  BY <1>2, <1>3, <1>5, <1>6, <1>7, StepKinds DEF Asks, Answered, NotifierAwaits, NotifierSends, Elapse

-----------------------------------------------------------------------------
(* Time.                                                                   *)

LEMMA WholePeriods ==
  ASSUME NEW m \in Int, NEW n \in Int, NEW p \in Nat
  PROVE  /\ m * p \in Int
         /\ (m + 1) * p = m * p + p
         /\ m <= n => m * p <= n * p
<1>1. m * p \in Int /\ n * p \in Int /\ (m + 1) * p = m * p + p
  OBVIOUS
<1>2. ASSUME m <= n PROVE m * p <= n * p
  <2>1. n - m \in Nat
    BY <1>2
  <2>2. (n - m) * p \in Nat
    BY <2>1
  <2>3. (n - m) * p = n * p - m * p
    OBVIOUS
  <2> QED BY <1>1, <2>2, <2>3
<1> QED BY <1>1, <1>2

LEMMA SatStep ==
  ASSUME IInv, Next
  PROVE  SatLongEnough'
<1> USE DEF IInv
<1>1. /\ current_tick \in 0 .. MaxTick /\ MaxTick \in Nat /\ Period \in Nat \ {0}
      /\ left \in -1 .. Period
      /\ waiters \in [WaiterSlots -> [tid : Clients \cup {Nobody}, target : 0 .. MaxTick]]
      /\ Nobody \notin Clients /\ Notifier \notin Clients
      /\ \A c \in Clients : ask[c].ticks \in Int /\ ask[c].since \in 0 .. LongAgo
  BY ClockAssumption, CallTypes DEF TypeOK
<1>2. LongAgo \in Nat
  BY <1>1 DEF LongAgo
\* Slots that are as they were, at the same time.
<1>3. ASSUME UNCHANGED current_tick, Elapsed' = Elapsed,
             \A i \in WaiterSlots : \/ Unused(i)'
                                    \/ /\ waiters'[i] = waiters[i]
                                       /\ ask'[waiters[i].tid] = ask[waiters[i].tid]
      PROVE  SatLongEnough'
  BY <1>3 DEF SatLongEnough, FullTicks, Unused, LongAgo
<1>4. ASSUME UNCHANGED left, Places(Notifier)' = {} <=> Places(Notifier) = {}
      PROVE  Elapsed' = Elapsed
  BY <1>4 DEF Elapsed
<1>5. ASSUME UNCHANGED <<inbox, left>>
      PROVE  Elapsed' = Elapsed
  BY <1>4, <1>5 DEF Places
<1>6. ASSUME NEW c \in Clients, Receives(c), UNCHANGED left
      PROVE  Elapsed' = Elapsed
  BY <1>1, <1>4, <1>6, ReceivesMoves
<1>7. ASSUME NEW c \in Clients, Asks(c)
      PROVE  SatLongEnough'
  <2>1. Elapsed' = Elapsed
    BY <1>1, <1>4, <1>7, SendMoves DEF Asks
  <2>2. \A i \in WaiterSlots : waiters[i].tid # c
    BY <1>7 DEF Asks, OnePlace, Seats
  <2>3. \A d : d # c => ask'[d] = ask[d]
    BY <1>7 DEF Asks
  <2> QED BY <1>3, <1>7, <2>1, <2>2, <2>3 DEF Asks
<1>8. ASSUME NEW c \in Clients, Answered(c)
      PROVE  SatLongEnough'
  <2>1. Places(c) # {} /\ Blocked(c)
    BY <1>8, ReceivesMoves DEF Answered
  <2>2. \A i \in WaiterSlots : waiters[i].tid # c
    BY <2>1 DEF OnePlace, Seats
  <2>3. \A d : d # c => ask'[d] = ask[d]
    BY <1>8 DEF Answered, Reply
  <2> QED BY <1>3, <1>6, <1>8, <2>2, <2>3 DEF Answered
<1>9. ASSUME NEW c \in Clients, NEW i \in WaiterSlots, NEW target \in Int, Sits(c, i, target)
      PROVE  SatLongEnough'
  <2>1. Elapsed' = Elapsed
    BY <1>6, <1>9 DEF Sits
  <2>2. \A j \in WaiterSlots :
          waiters'[j] = IF j = i THEN [tid |-> c, target |-> target] ELSE waiters[j]
    BY <1>1, <1>9 DEF Sits
  <2>3. ask[c].kind = "DELAY" => ask[c].ticks <= target /\ current_tick + ask[c].ticks - target - 1 < 0
    BY <1>1, <1>9 DEF Sits
  <2>4. UNCHANGED <<current_tick, ask>>
    BY <1>9 DEF Sits
  <2>5. ASSUME NEW j \in WaiterSlots, j # i, ~Unused(j)', ask'[waiters'[j].tid].kind = "DELAY"
        PROVE  /\ ask'[waiters'[j].tid].ticks <= waiters'[j].target
               /\ \/ ask'[waiters'[j].tid].since = LongAgo'
                  \/ FullTicks(j)' < 0
                  \/ ask'[waiters'[j].tid].since >= FullTicks(j)' * Period + Elapsed'
    BY <2>1, <2>2, <2>4, <2>5 DEF SatLongEnough, FullTicks, Unused, LongAgo
  <2>6. ask'[waiters'[i].tid].kind = "DELAY" =>
          ask'[waiters'[i].tid].ticks <= waiters'[i].target /\ FullTicks(i)' < 0
    BY <2>2, <2>3, <2>4 DEF FullTicks
  <2> QED BY <2>5, <2>6 DEF SatLongEnough
<1>10. ASSUME NEW c \in Clients, NEW i \in WaiterSlots, Releases(c, i)
       PROVE  SatLongEnough'
  <2>1. \A j \in WaiterSlots : waiters'[j] = IF j = i THEN FreeSlot ELSE waiters[j]
    BY <1>1, <1>10 DEF Releases
  <2>2. Seats(c) = {i}
    BY <1>10 DEF Releases, Seats, OnePlace, Seated
  <2>3. \A j \in WaiterSlots : j # i => waiters[j].tid # c
    BY <2>2 DEF Seats
  <2>4. \A d : d # c => ask'[d] = ask[d]
    BY <1>10 DEF Releases, Reply
  <2>5. Unused(i)'
    BY <2>1 DEF Unused, FreeSlot
  <2> QED BY <1>3, <1>5, <1>10, <2>1, <2>3, <2>4, <2>5 DEF Releases
<1>11. ASSUME NEW i \in WaiterSlots, PassesBy(i)
       PROVE  SatLongEnough'
  BY <1>3, <1>5, <1>11 DEF PassesBy
<1>12. CASE NotifierAwaits
  <2>1. Places(Notifier) = {} /\ left = -1
    BY <1>12 DEF NotifierAwaits, NotifierBusy, Places
  <2>2. Elapsed = 0 /\ Elapsed' = 0
    BY <1>1, <1>12, <2>1 DEF NotifierAwaits, Elapsed
  <2> QED BY <1>3, <1>12, <2>2 DEF NotifierAwaits
<1>13. CASE NotifierSends
  <2>1. Places(Notifier) = {}
    BY <1>13 DEF NotifierSends, OneNotifier
  <2>2. Places(Notifier)' # {}
    BY <1>13, <2>1, SendMoves DEF NotifierSends, Waiting
  <2>3. Elapsed = Period /\ Elapsed' = Period
    BY <1>1, <1>13, <2>2 DEF NotifierSends, Elapsed
  <2> QED BY <1>3, <1>13, <2>3 DEF NotifierSends
<1>14. ASSUME NEW i \in WaiterSlots, ~Unused(i), ask[waiters[i].tid].kind = "DELAY"
       PROVE  /\ waiters[i].tid \in Clients /\ FullTicks(i) \in Int
              /\ FullTicks(i) * Period \in Int
              /\ (FullTicks(i) + 1) * Period = FullTicks(i) * Period + Period
  <2>1. waiters[i].tid \in Clients
    BY <1>1, <1>14 DEF Unused
  <2>2. FullTicks(i) \in Int
    BY <1>1, <2>1 DEF FullTicks
  <2> QED BY <1>1, <2>1, <2>2, WholePeriods
<1>15. CASE Elapse
  <2>1. Elapsed \in Int /\ Elapsed' \in Int /\ Elapsed' <= Elapsed + 1
    <3>1. Places(Notifier)' = Places(Notifier)
      BY <1>15 DEF Elapse, Places
    <3> QED BY <1>1, <1>15, <3>1 DEF Elapse, Elapsed
  <2>2. SUFFICES ASSUME NEW i \in WaiterSlots, ~Unused(i)', ask'[waiters'[i].tid].kind = "DELAY"
                 PROVE  /\ ask'[waiters'[i].tid].ticks <= waiters'[i].target
                        /\ \/ ask'[waiters'[i].tid].since = LongAgo
                           \/ FullTicks(i)' < 0
                           \/ ask'[waiters'[i].tid].since >= FullTicks(i)' * Period + Elapsed'
    BY DEF SatLongEnough, LongAgo
  <2> DEFINE c == waiters[i].tid
  <2>3. ~Unused(i) /\ waiters' = waiters /\ current_tick' = current_tick /\ c \in Clients
    BY <1>1, <1>15, <2>2 DEF Elapse, Unused
  <2>4. Blocked(c)
    BY <2>3 DEF OnePlace, Seats
  <2>5. /\ ask'[c].kind = ask[c].kind /\ ask'[c].ticks = ask[c].ticks
        /\ ask'[c].since = Older(ask[c].since)
    <3>1. ask[c] \in [kind : Kinds, ticks : Amounts, since : 0 .. LongAgo]
      BY <2>3, <2>4 DEF Blocked, TypeOK
    <3> QED BY <1>15, <2>3, <2>4, <3>1 DEF Elapse
  <2>6. FullTicks(i)' = FullTicks(i) /\ ask[c].kind = "DELAY"
    BY <2>2, <2>3, <2>5 DEF FullTicks
  <2>7. /\ ask[c].ticks <= waiters[i].target
        /\ \/ ask[c].since = LongAgo
           \/ FullTicks(i) < 0
           \/ ask[c].since >= FullTicks(i) * Period + Elapsed
    BY <2>3, <2>6 DEF SatLongEnough
  <2>8. FullTicks(i) * Period \in Int /\ ask[c].since \in 0 .. LongAgo
    BY <1>1, <1>14, <2>3, <2>6
  <2>9. ask'[c].since = LongAgo \/ ask'[c].since = ask[c].since + 1
    BY <1>2, <2>5, <2>8 DEF Older
  <2>10. \/ ask'[c].since = LongAgo \/ FullTicks(i) < 0
         \/ ask'[c].since >= FullTicks(i) * Period + Elapsed'
    <3> DEFINE k == FullTicks(i) * Period
    <3>1. k \in Int
      BY <2>8
    <3>2. ask[c].since = LongAgo => ask'[c].since = LongAgo
      BY <1>2, <2>5 DEF Older
    <3>3. ask[c].since >= k + Elapsed /\ ask'[c].since = ask[c].since + 1
            => ask'[c].since >= k + Elapsed'
      <4> HIDE DEF k
      <4> QED BY <2>1, <2>8, <3>1
    <3> QED BY <2>7, <2>9, <3>2, <3>3
  <2> QED BY <2>3, <2>5, <2>6, <2>7, <2>10
<1>16. CASE HandleTick
  <2>1. /\ Places(Notifier) # {} /\ Places(Notifier)' = {}
        /\ left = -1 /\ left' = -1
    <3>1. Places(Notifier) # {} /\ (Waiting(Notifier) => Places(Notifier)' = {})
      BY <1>16, ReceivesMoves DEF HandleTick
    <3> QED BY <1>16, <3>1 DEF HandleTick, OneNotifier
  <2>2. Elapsed = Period /\ Elapsed' = 0
    BY <2>1 DEF Elapsed
  <2>3. SUFFICES ASSUME NEW i \in WaiterSlots, ~Unused(i)', ask'[waiters'[i].tid].kind = "DELAY"
                 PROVE  /\ ask'[waiters'[i].tid].ticks <= waiters'[i].target
                        /\ \/ ask'[waiters'[i].tid].since = LongAgo
                           \/ FullTicks(i)' < 0
                           \/ ask'[waiters'[i].tid].since >= FullTicks(i)' * Period + Elapsed'
    BY DEF SatLongEnough, LongAgo
  <2> DEFINE c == waiters[i].tid
  <2>4. /\ ~Unused(i) /\ waiters' = waiters /\ ask' = ask /\ ask[c].kind = "DELAY"
        /\ current_tick' = current_tick + 1
    BY <1>16, <2>3 DEF HandleTick, Unused
  <2>5. /\ c \in Clients /\ FullTicks(i) \in Int /\ FullTicks(i) * Period \in Int
        /\ (FullTicks(i) + 1) * Period = FullTicks(i) * Period + Period
    BY <1>14, <2>4
  <2>6. FullTicks(i)' = FullTicks(i) + 1
    BY <1>1, <2>4, <2>5 DEF FullTicks
  <2>7. /\ ask[c].ticks <= waiters[i].target
        /\ \/ ask[c].since = LongAgo
           \/ FullTicks(i) < 0
           \/ ask[c].since >= FullTicks(i) * Period + Period
    BY <2>2, <2>4 DEF SatLongEnough
  <2>8. FullTicks(i) + 1 = 0 => (FullTicks(i) + 1) * Period = 0
    BY <1>1
  <2>9. ask[c].since = LongAgo \/ FullTicks(i)' < 0 \/ ask[c].since >= FullTicks(i)' * Period + 0
    <3> DEFINE k == (FullTicks(i) + 1) * Period
    <3>1. /\ k \in Int /\ ask[c].since \in 0 .. LongAgo
          /\ ask[c].since = LongAgo \/ FullTicks(i) < 0 \/ ask[c].since >= k
          /\ FullTicks(i) + 1 = 0 => k = 0
      BY <1>1, <2>5, <2>7, <2>8
    <3>2. FullTicks(i)' * Period = k
      BY <2>6
    <3> HIDE DEF k
    <3> QED BY <1>2, <2>5, <2>6, <3>1, <3>2
  <2> QED BY <2>2, <2>4, <2>7, <2>9
<1> QED BY <1>7, <1>8, <1>9, <1>10, <1>11, <1>12, <1>13, <1>15, <1>16, StepKinds

-----------------------------------------------------------------------------
(* The theorems.                                                           *)

LEMMA InitIInv == Init => IInv
<1> SUFFICES ASSUME Init PROVE IInv
  OBVIOUS
<1>1. /\ MaxTick \in Nat /\ MaxWaiters \in Nat \ {0} /\ Period \in Nat \ {0}
      /\ Notifier \notin Clients /\ Nobody \notin Clients
  BY ClockAssumption
<1>2. LongAgo \in Nat
  BY <1>1 DEF LongAgo
<1>3. \A i \in WaiterSlots : Unused(i)
  BY DEF Init, Unused, FreeSlot
<1>4. \A x : Places(x) = {}
  BY DEF Init, Places
<1>5. \A c \in Clients : ~Blocked(c) /\ Seats(c) = {} /\ ask[c].kind = "none"
  BY <1>1 DEF Init, Blocked, Seats, FreeSlot, NoCall
<1>6. TypeOK
  <2>1. inbox \in Seq(Clients \cup {Notifier})
    BY DEF Init
  <2>2. waiters \in [WaiterSlots -> [tid : Clients \cup {Nobody}, target : 0 .. MaxTick]]
    BY <1>1 DEF Init, FreeSlot
  <2>3. /\ ask \in [Clients -> [kind : Kinds, ticks : Amounts, since : 0 .. LongAgo] \cup {NoCall}]
        /\ answer \in [Clients -> {"ok", "full", "negative", "none"}]
    BY DEF Init
  <2> QED BY <1>1, <2>1, <2>2, <2>3 DEF Init, TypeOK
<1>7. OneNotifier
  BY <1>4 DEF Init, OneNotifier
<1> QED BY <1>3, <1>4, <1>5, <1>6, <1>7 DEF IInv, OnePlace, DelaysFit, SweptBelow, SatLongEnough

LEMMA IInvStep == IInv /\ [Next]_vars => IInv'
<1> SUFFICES ASSUME IInv, [Next]_vars PROVE IInv'
  OBVIOUS
<1>1. CASE Next
  BY <1>1, TypeStep, OnePlaceStep, OneNotifierStep, DelaysFitStep, SweptStep, SatStep DEF IInv
<1>2. CASE UNCHANGED vars
  <2>1. /\ TypeOK' /\ SweptBelow'
        /\ \A x : Places(x)' = Places(x) /\ Seats(x)' = Seats(x) /\ (Waiting(x)' <=> Waiting(x))
        /\ \A x : (Seated(x)' <=> Seated(x)) /\ (Blocked(x)' <=> Blocked(x))
    BY <1>2 DEF IInv, vars, TypeOK, SweptBelow, Unused, Places, Seats, Waiting, Seated, Blocked
  <2>2. OnePlace' /\ OneNotifier'
    BY <1>2, <2>1 DEF IInv, vars, OnePlace, OneNotifier
  <2>3. DelaysFit'
    <3>1. \A i : TickAhead(i)' = TickAhead(i)
      BY <2>1 DEF TickAhead
    <3> QED BY <1>2, <2>1, <3>1 DEF IInv, vars, DelaysFit
  <2>4. SatLongEnough'
    <3>1. Elapsed' = Elapsed
      BY <1>2, <2>1 DEF vars, Elapsed
    <3> QED BY <1>2, <3>1 DEF IInv, vars, SatLongEnough, FullTicks, Unused, LongAgo
  <2> QED BY <2>1, <2>2, <2>3, <2>4 DEF IInv
<1> QED BY <1>1, <1>2

\* The inductive invariant of the clock server of clock.c, of its notifier and
\* of its clients.
THEOREM ClockInvariant == Spec => []IInv
BY InitIInv, IInvStep, PTL DEF Spec

\* Whoever waits is in the server's queue or in one slot, and nowhere else.
THEOREM ClientsAreKept == Spec => []NobodyForgotten
<1>1. IInv => NobodyForgotten
  BY DEF IInv, NobodyForgotten, OnePlace, Waiting, Seated
<1> QED BY <1>1, ClockInvariant, PTL

\* waiters_release_ready leaves nobody behind whose tick has come.
THEOREM SweepsAreComplete == Spec => []NobodyOverslept
<1>1. IInv => NobodyOverslept
  BY DEF IInv, SweptBelow, NobodyOverslept
<1> QED BY <1>1, ClockInvariant, PTL

\* Only the sweep lets a delay go, and by then it has sat through its ticks.
LEMMA DelaysEndInTime ==
  ASSUME IInv, [Next]_vars, NEW c \in Clients,
         answer[c] = "none", answer'[c] = "ok", ask[c].kind = "DELAY", ask[c].ticks > 0
  PROVE  ask[c].since >= (ask[c].ticks - 1) * Period
<1>1. /\ answer \in [Clients -> {"ok", "full", "negative", "none"}]
      /\ current_tick \in 0 .. MaxTick /\ MaxTick \in Nat /\ Period \in Nat \ {0}
      /\ left \in -1 .. Period /\ Nobody \notin Clients /\ Notifier \notin Clients
      /\ waiters \in [WaiterSlots -> [tid : Clients \cup {Nobody}, target : 0 .. MaxTick]]
      /\ ask[c].ticks \in Int /\ ask[c].since \in 0 .. LongAgo
  BY ClockAssumption, CallTypes DEF IInv, TypeOK
<1>2. PICK i \in WaiterSlots : Releases(c, i)
  <2>1. answer' # answer
    OBVIOUS
  <2>2. \A d \in Clients : ~Asks(d)
    BY <1>1 DEF Asks
  <2>3. \A d \in Clients : ~Answered(d)
    BY <1>1 DEF Answered, Reply
  <2>4. \A d \in Clients, i \in WaiterSlots : Releases(d, i) => d = c
    BY <1>1 DEF Releases, Reply
  <2>5. Next
    BY <2>1 DEF vars
  <2> QED
    BY <2>1, <2>2, <2>3, <2>4, <2>5, StepKinds
    DEF IInv, Sits, PassesBy, NotifierAwaits, NotifierSends, Elapse, HandleTick
<1>3. ~Unused(i) /\ waiters[i].tid = c /\ waiters[i].target <= current_tick
  BY <1>1, <1>2 DEF Releases, Unused
<1>4. /\ ask[c].ticks <= waiters[i].target
      /\ \/ ask[c].since = LongAgo
         \/ FullTicks(i) < 0
         \/ ask[c].since >= FullTicks(i) * Period + Elapsed
  BY <1>3 DEF IInv, SatLongEnough
<1>5. FullTicks(i) \in Int /\ ask[c].ticks - 1 <= FullTicks(i) /\ ask[c].ticks - 1 <= MaxTick
  BY <1>1, <1>3, <1>4 DEF FullTicks
<1>6. Elapsed \in Nat
  BY <1>1 DEF Elapsed
<1>7. /\ (ask[c].ticks - 1) * Period <= FullTicks(i) * Period
      /\ (ask[c].ticks - 1) * Period <= LongAgo
      /\ (ask[c].ticks - 1) * Period \in Int /\ FullTicks(i) * Period \in Int /\ LongAgo \in Int
  <2>1. /\ ask[c].ticks - 1 \in Int /\ FullTicks(i) \in Int
        /\ MaxTick \in Int /\ Period \in Nat
    BY <1>1, <1>5
  <2>2. /\ (ask[c].ticks - 1) * Period <= FullTicks(i) * Period
        /\ (ask[c].ticks - 1) * Period <= MaxTick * Period
    BY <1>5, <2>1, WholePeriods
  <2>3. /\ (ask[c].ticks - 1) * Period \in Int /\ FullTicks(i) * Period \in Int
        /\ MaxTick * Period \in Int
    BY <2>1, WholePeriods
  <2> QED BY <2>2, <2>3 DEF LongAgo
<1>8. ~(FullTicks(i) < 0)
  BY <1>1, <1>5
<1> DEFINE asked == (ask[c].ticks - 1) * Period
           sat == FullTicks(i) * Period
<1>9. asked \in Int /\ sat \in Int /\ asked <= sat /\ asked <= LongAgo
      /\ (ask[c].since = LongAgo \/ ask[c].since >= sat + Elapsed)
  BY <1>4, <1>7, <1>8
<1>10. ask[c].since >= asked
  <2> HIDE DEF asked, sat
  <2> QED BY <1>1, <1>6, <1>7, <1>9
<1> QED BY <1>10

\* Delay(n) lasts for n - 1 periods of the notifier, whatever it is queued
\* behind and however late the notifier is.
THEOREM DelaysAreKept == Spec => DelaysLastLongEnough
<1>1. IInv /\ [Next]_vars =>
        [\A c \in Clients :
           /\ answer[c] = "none" /\ answer'[c] = "ok"
           /\ ask[c].kind = "DELAY" /\ ask[c].ticks > 0
           => ask[c].since >= (ask[c].ticks - 1) * Period]_vars
  BY DelaysEndInTime
<1> QED BY <1>1, ClockInvariant, PTL DEF Spec, DelaysLastLongEnough
=============================================================================
