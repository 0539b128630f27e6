---------------------------- MODULE ConflictZone ----------------------------
(***************************************************************************)
(* Conflict zones (tc2_conflict_zone.c): the queues for turnouts that      *)
(* trains share.  A train asks for a stage, the zones it has to pass       *)
(* without stopping, first softly while it is two stages away and then     *)
(* hard for its next stage.  One ticket covers every zone of the stage.    *)
(*                                                                         *)
(* The table belongs to the dispatch server and every operation runs to    *)
(* completion in it, so an operation is one step.  A call the code refuses *)
(* without touching the table is a stutter and is left out; a refused      *)
(* request is kept where it has an effect.  The turnout program of a stage *)
(* is one value of Settings.  Time is kept relative to the present: lag is *)
(* the age of current_tick and releaseIn what is left of release_at_tick.  *)
(***************************************************************************)
EXTENDS Integers, FiniteSets

CONSTANTS
  Zones, Trains, NoTrain,
  Stages,            \* the sets of zones a route can ask for as one stage
  Settings,          \* turnout programs
  NoClaim,
  MaxTrains,         \* places in the registry of trains (4)
  TicketSpace,       \* 2^32 in the code
  GenerationSpace,   \* 2^32 in the code
  Generations,       \* the route generations requests carry
  Delay,             \* ticks a zone rests between two controllers (200)
  MaxLag             \* bound: ticks between two passes of the scheduler

ASSUME ZoneAssumption ==
  /\ NoTrain \notin Trains
  /\ Stages \subseteq (SUBSET Zones) \ {{}}
  /\ MaxTrains \in Nat /\ TicketSpace \in Nat /\ GenerationSpace \in Nat
  /\ TicketSpace >= 4 /\ GenerationSpace >= 4
  /\ Generations \subseteq 0 .. (GenerationSpace - 1)
  /\ Delay \in Nat /\ MaxLag \in 0 .. Delay

Tickets == 1 .. (TicketSpace - 1)
Claims  == [ticket : Tickets, generation : Generations, setting : Settings]

ASSUME ClaimAssumption == NoClaim \notin Claims

Unentered == {"GRANTED", "SETTING", "SETTLED"}
Phases    == {"FREE", "OCCUPIED", "RELEASE_DELAY"} \cup Unentered

VARIABLES
  phase, owner, grant, releaseIn,  \* per zone: state, owner_train, the
                                   \* owner's claim, release_at_tick
  hard, soft,                      \* per train and zone: the queued claim
  registered,                      \* registered_trains
  latest,                          \* latest_route_generation
  nextTicket,
  lag

zones  == <<phase, owner, grant, releaseIn>>
queues == <<hard, soft>>
vars   == <<zones, queues, registered, latest, nextTicket, lag>>

Init ==
  /\ phase      = [z \in Zones |-> "FREE"]
  /\ owner      = [z \in Zones |-> NoTrain]
  /\ grant      = [z \in Zones |-> NoClaim]
  /\ releaseIn  = [z \in Zones |-> 0]
  /\ hard       = [t \in Trains |-> [z \in Zones |-> NoClaim]]
  /\ soft       = hard
  /\ registered = {}
  /\ latest     = [t \in Trains |-> 0]
  /\ nextTicket = 1
  /\ lag        = 0

-----------------------------------------------------------------------------
(* Order of tickets and generations.                                       *)

\* Mutant: no allowance for the wrap.
PlainBefore(left, right) == left < right

\* ticket_before: the signed difference, so that the order survives a wrap.
Before(left, right) == (left - right) % TicketSpace >= TicketSpace \div 2

\* route_generation_is_newer: 0 is the generation of callers without one.
Newer(g, current) ==
  /\ g # 0
  /\ \/ current = 0
     \/ (g - current) % GenerationSpace \in 1 .. (GenerationSpace \div 2 - 1)

ClaimsOf(z) == (UNION {{hard[t][z], soft[t][z]} : t \in Trains}) \ {NoClaim}

\* How many tickets were handed out since.
Age(ticket) == (nextTicket - ticket) % TicketSpace

\* Bound: nobody waits while half of the tickets are handed out, or owns a
\* zone while all of them are.
TicketsFresh ==
  \A z \in Zones :
    /\ \A c \in ClaimsOf(z) : Age(c.ticket) < TicketSpace \div 2 - 1
    /\ grant[z] # NoClaim => Age(grant[z].ticket) < TicketSpace - 2

\* allocate_ticket: 0, the ticket of nobody, is never handed out.
Successor(ticket) == IF ticket = TicketSpace - 1 THEN 1 ELSE ticket + 1

TakeTicket == TicketsFresh /\ nextTicket' = Successor(nextTicket)

-----------------------------------------------------------------------------
(* The queues.                                                             *)

(* A train's claims in one queue are a function of zones.                  *)

ZonesOf(claims) == {z \in Zones : claims[z] # NoClaim}

With(claims, S, c) == [z \in Zones |-> IF z \in S THEN c ELSE claims[z]]

NoClaims == [z \in Zones |-> NoClaim]

\* Mutant: nothing is stale.
KeepStale(claims, g) == claims

\* What a route generation leaves of them.
Pruned(claims, g) ==
  [z \in Zones |-> IF claims[z] # NoClaim /\ claims[z].generation # g
                   THEN NoClaim ELSE claims[z]]

\* waiter_is_logical_head: hard and soft claims are one line.
IsHead(z, c) ==
  /\ phase[z] = "FREE" /\ owner[z] = NoTrain
  /\ \A w \in ClaimsOf(z) : ~Before(w.ticket, c.ticket)

\* Zones where the train was the head of the line and is no longer, with
\* that ticket, in it.
Relinquished(t) ==
  {z \in Zones :
     \E c \in {hard[t][z], soft[t][z]} \ {NoClaim} :
       /\ IsHead(z, c)
       /\ \A d \in {hard'[t][z], soft'[t][z]} \ {NoClaim} : d.ticket # c.ticket}

\* begin_control_handoff_delay, timed from the last scheduler tick.
HandOver(S) ==
  /\ phase'     = [z \in Zones |-> IF z \in S THEN "RELEASE_DELAY" ELSE phase[z]]
  /\ owner'     = [z \in Zones |-> IF z \in S THEN NoTrain ELSE owner[z]]
  /\ grant'     = [z \in Zones |-> IF z \in S THEN NoClaim ELSE grant[z]]
  /\ releaseIn' = [z \in Zones |-> IF z \in S THEN Delay - lag ELSE releaseIn[z]]

OwnedBy(t) == {z \in Zones : owner[z] = t}

\* The zones a train owns under one ticket: owner_stage_identity_is_valid
\* accepts a call for exactly these.
Cohort(t, c) == {z \in OwnedBy(t) : /\ grant[z].ticket = c.ticket
                                    /\ grant[z].generation = c.generation}

Cohorts(t) == {Cohort(t, grant[z]) : z \in OwnedBy(t)}

-----------------------------------------------------------------------------
(* Registration and pruning.                                               *)

Register(t) ==
  /\ Cardinality(registered \cup {t}) <= MaxTrains
  /\ registered' = registered \cup {t}

RegisterTrain(t) ==
  /\ Register(t)
  /\ UNCHANGED <<zones, queues, latest, nextTicket, lag>>

\* A generation older than the latest is refused.
Current(t, g) == g = latest[t] \/ Newer(g, latest[t])

\* The two queues of a train become these.
Queue(t, h, q) ==
  /\ hard' = [hard EXCEPT ![t] = h]
  /\ soft' = [soft EXCEPT ![t] = q]

PruneStaleRequests(t, g) ==
  /\ t \in registered /\ Current(t, g)
  /\ Queue(t, Pruned(hard[t], g), Pruned(soft[t], g))
  /\ latest' = [latest EXCEPT ![t] = g]
  /\ HandOver(Relinquished(t))
  /\ UNCHANGED <<registered, nextTicket, lag>>

-----------------------------------------------------------------------------
(* Requests.                                                               *)

\* A refused request with an old generation has still registered the train.
StaleRequest(t, g) ==
  /\ Register(t) /\ ~Current(t, g)
  /\ UNCHANGED <<zones, queues, latest, nextTicket, lag>>

NewClaim(g, s) == [ticket |-> nextTicket, generation |-> g, setting |-> s]

\* The train queues nothing hard and owns nothing in the zones of the stage.
MayQueue(t, S, h) == \A z \in S : h[z] = NoClaim /\ owner[z] # t

\* The train's soft cohort is this stage with this program.
SoftIs(q, S, s) == ZonesOf(q) = S /\ \A z \in S : q[z].setting = s

\* A new hard cohort where the train has no soft claim; or its soft cohort
\* for exactly this stage and program moves to hard, ticket and all.
QueueHard(t, S, g, s, h, q) ==
  IF ZonesOf(h) # {} \/ ~MayQueue(t, S, h)
  THEN Queue(t, h, q) /\ UNCHANGED nextTicket
  ELSE IF \A z \in S : q[z] = NoClaim
  THEN Queue(t, With(h, S, NewClaim(g, s)), q) /\ TakeTicket
  ELSE IF SoftIs(q, S, s)
  THEN Queue(t, q, NoClaims) /\ UNCHANGED nextTicket
  ELSE Queue(t, h, q) /\ UNCHANGED nextTicket

\* A soft request for another stage or program gives the old place up.
QueueSoft(t, S, g, s, h, q) ==
  IF ~MayQueue(t, S, h) \/ SoftIs(q, S, s)
  THEN Queue(t, h, q) /\ UNCHANGED nextTicket
  ELSE Queue(t, h, With(NoClaims, S, NewClaim(g, s))) /\ TakeTicket

\* Granted or refused, a request prunes what its generation makes stale.
RequestStage(t, S, g, s) ==
  /\ Register(t) /\ Current(t, g)
  /\ \/ QueueHard(t, S, g, s, Pruned(hard[t], g), Pruned(soft[t], g))
     \/ QueueSoft(t, S, g, s, Pruned(hard[t], g), Pruned(soft[t], g))
  /\ latest' = [latest EXCEPT ![t] = g]
  /\ HandOver(Relinquished(t))
  /\ UNCHANGED lag

-----------------------------------------------------------------------------
(* Granting.                                                               *)

\* Mutant: the zones of the stage where the train is first.
ReachedZones(t) == {z \in ZonesOf(hard[t]) : IsHead(z, hard[t][z])}

\* The stage the train has to get as a whole.
WantedZones(t) == ZonesOf(hard[t])

TryGrantStage(t) ==
  LET S == WantedZones(t)
  IN  /\ S # {}
      /\ \A z \in S : IsHead(z, hard[t][z])
      /\ hard'  = [hard EXCEPT ![t] = With(hard[t], S, NoClaim)]
      /\ owner' = [z \in Zones |-> IF z \in S THEN t ELSE owner[z]]
      /\ grant' = [z \in Zones |-> IF z \in S THEN hard[t][z] ELSE grant[z]]
      /\ phase' = [z \in Zones |-> IF z \in S THEN "GRANTED" ELSE phase[z]]
      /\ releaseIn' = [z \in Zones |-> IF z \in S THEN 0 ELSE releaseIn[z]]
      /\ UNCHANGED <<soft, registered, latest, nextTicket, lag>>

-----------------------------------------------------------------------------
(* Cancelling.                                                             *)

Forget(t, h, q) ==
  /\ Queue(t, h, q)
  /\ UNCHANGED <<latest, nextTicket, lag>>

CancelHard(t) ==
  /\ Forget(t, NoClaims, soft[t])
  /\ HandOver(Relinquished(t))
  /\ UNCHANGED registered

CancelSoft(t) ==
  /\ Forget(t, hard[t], NoClaims)
  /\ HandOver(Relinquished(t))
  /\ UNCHANGED registered

UnregisterUnlessOwner(t) ==
  registered' = IF \E z \in Zones : owner'[z] = t THEN registered
                ELSE registered \ {t}

CancelTrain(t) ==
  /\ Forget(t, NoClaims, NoClaims)
  /\ HandOver(Relinquished(t))
  /\ UnregisterUnlessOwner(t)

\* Removal with release_owner: what the train owns is handed over as well.
RemoveTrain(t) ==
  /\ Forget(t, NoClaims, NoClaims)
  /\ HandOver(Relinquished(t) \cup OwnedBy(t))
  /\ UnregisterUnlessOwner(t)

-----------------------------------------------------------------------------
(* The life of an owned zone.                                              *)

Become(S, p) ==
  /\ phase' = [z \in Zones |-> IF z \in S THEN p ELSE phase[z]]
  /\ UNCHANGED <<owner, grant, queues, registered, latest, nextTicket, lag>>

MarkSetting(z) ==
  /\ owner[z] # NoTrain /\ phase[z] \in {"GRANTED", "SETTING"}
  /\ Become({z}, "SETTING") /\ UNCHANGED releaseIn

RetrySetting(z) ==
  /\ owner[z] # NoTrain /\ phase[z] = "SETTING"
  /\ Become({z}, "GRANTED") /\ UNCHANGED releaseIn

MarkSettled(z) ==
  /\ owner[z] # NoTrain /\ phase[z] \in Unentered
  /\ Become({z}, "SETTLED") /\ UNCHANGED releaseIn

MarkOccupiedStage(t) ==
  \E S \in Cohorts(t) :
    /\ \A z \in S : phase[z] = "SETTLED"
    /\ Become(S, "OCCUPIED") /\ UNCHANGED releaseIn

\* The caller's clock reading may be as old as the last tick.
MarkTailClearStage(t) ==
  \E S \in Cohorts(t), late \in 0 .. lag :
    /\ \A z \in S : phase[z] = "OCCUPIED"
    /\ Become(S, "RELEASE_DELAY")
    /\ releaseIn' = [z \in Zones |-> IF z \in S THEN Delay - late ELSE releaseIn[z]]

YieldUnenteredStage(t) ==
  \E S \in Cohorts(t) :
    /\ \A z \in S : phase[z] \in Unentered
    /\ HandOver(S)
    /\ UNCHANGED <<queues, registered, latest, nextTicket, lag>>

RollbackFalseEntryStage(t) ==
  \E S \in Cohorts(t) :
    /\ \A z \in S : phase[z] \in {"OCCUPIED", "RELEASE_DELAY"}
    /\ HandOver(S)
    /\ UNCHANGED <<queues, registered, latest, nextTicket, lag>>

-----------------------------------------------------------------------------
(* Time.                                                                   *)

Elapse ==
  /\ lag < MaxLag
  /\ lag' = lag + 1
  /\ releaseIn' = [z \in Zones |-> IF releaseIn[z] > 0 THEN releaseIn[z] - 1 ELSE 0]
  /\ UNCHANGED <<phase, owner, grant, queues, registered, latest, nextTicket>>

\* Mutant: the delay is not looked at.
AnyClosed(z) == phase[z] = "RELEASE_DELAY"

Expired(z) == phase[z] = "RELEASE_DELAY" /\ releaseIn[z] = 0

Tick ==
  /\ lag' = 0
  /\ phase' = [z \in Zones |-> IF Expired(z) THEN "FREE" ELSE phase[z]]
  /\ owner' = [z \in Zones |-> IF Expired(z) THEN NoTrain ELSE owner[z]]
  /\ grant' = [z \in Zones |-> IF Expired(z) THEN NoClaim ELSE grant[z]]
  /\ UNCHANGED <<releaseIn, queues, registered, latest, nextTicket>>

Ask(t) ==
  \E g \in Generations :
    \/ StaleRequest(t, g)
    \/ PruneStaleRequests(t, g)
    \/ \E S \in Stages, s \in Settings : RequestStage(t, S, g, s)

Withdraw(t) == CancelHard(t) \/ CancelSoft(t) \/ CancelTrain(t) \/ RemoveTrain(t)

Run(t) == \/ MarkOccupiedStage(t) \/ MarkTailClearStage(t)
          \/ YieldUnenteredStage(t) \/ RollbackFalseEntryStage(t)

Set(z) == MarkSetting(z) \/ RetrySetting(z) \/ MarkSettled(z)

Next ==
  \/ \E t \in Trains : \/ RegisterTrain(t) \/ Ask(t) \/ TryGrantStage(t)
                       \/ Withdraw(t) \/ Run(t)
  \/ \E z \in Zones : Set(z)
  \/ Elapse \/ Tick

Spec == Init /\ [][Next]_vars

-----------------------------------------------------------------------------
(* Correctness.                                                            *)

TypeOK ==
  /\ phase \in [Zones -> Phases]
  /\ owner \in [Zones -> Trains \cup {NoTrain}]
  /\ grant \in [Zones -> Claims \cup {NoClaim}]
  /\ releaseIn \in [Zones -> 0 .. Delay]
  /\ hard \in [Trains -> [Zones -> Claims \cup {NoClaim}]]
  /\ soft \in [Trains -> [Zones -> Claims \cup {NoClaim}]]
  /\ registered \subseteq Trains
  /\ latest \in [Trains -> 0 .. (GenerationSpace - 1)]
  /\ nextTicket \in Tickets
  /\ lag \in 0 .. MaxLag

\* One claim, in one queue, for a whole stage.
WholeClaim(claims) ==
  ZonesOf(claims) # {} =>
    /\ ZonesOf(claims) \in Stages
    /\ \A y, z \in ZonesOf(claims) : claims[y] = claims[z]

\* A stage is asked for, granted, entered and released as a whole: no train
\* is ever queued for or owns a part of a stage, no ticket is both queued
\* and granted, and after its entry the zones of the stage keep the same state
\* until they are free together.
StagesWhole ==
  \A t \in Trains :
    /\ WholeClaim(hard[t]) /\ WholeClaim(soft[t])
    /\ \A z \in ZonesOf(hard[t]) :
         /\ \A y \in ZonesOf(soft[t]) : soft[t][y].ticket # hard[t][z].ticket
         /\ \A y \in OwnedBy(t) : grant[y].ticket # hard[t][z].ticket
    /\ \A S \in Cohorts(t) :
         /\ S \in Stages
         /\ \A y, z \in S : /\ grant[y] = grant[z]
                            /\ phase[y] \notin Unentered =>
                                 phase[z] = phase[y] /\ releaseIn[z] = releaseIn[y]

\* A train stands in a zone's line once, and not while it owns the zone.
OneRole ==
  \A t \in Trains :
    /\ ZonesOf(hard[t]) \cap ZonesOf(soft[t]) = {}
    /\ (ZonesOf(hard[t]) \cup ZonesOf(soft[t])) \cap OwnedBy(t) = {}

\* Nothing queued outlives its route: a claim of an abandoned generation is
\* gone from every queue the moment a newer one is published.
ClaimsCurrent ==
  \A t \in Trains : \A c \in (UNION {{hard[t][z], soft[t][z]} : z \in Zones}) \ {NoClaim} :
    c.generation = latest[t]

\* Whoever is queued or owns a zone has a place in the registry, which is
\* what keeps the queues of MaxTrains places from overflowing.
HoldersRegistered ==
  /\ Cardinality(registered) <= MaxTrains
  /\ \A t \in Trains :
       ZonesOf(hard[t]) \cup ZonesOf(soft[t]) \cup OwnedBy(t) # {} => t \in registered

\* Queues name each train once, for zones it does not own, and only trains
\* there is room for (and all state has its type).
QueuesSound == TypeOK /\ OneRole /\ HoldersRegistered

\* The trains the code lets act on a zone: its owner, or the head of a line.
InControl(z) ==
  {t \in Trains :
     \/ owner[z] = t /\ phase[z] # "RELEASE_DELAY"
     \/ \E c \in {hard[t][z], soft[t][z]} \ {NoClaim} : IsHead(z, c)}

\* Hard and soft queues never disagree about who is first.
OneController == \A z \in Zones : Cardinality(InControl(z)) <= 1

\* Stages are whole, lines are sound and a zone has one controller, after any
\* sequence of requests, grants, cancellations and removals.
StagesSound == StagesWhole /\ QueuesSound /\ OneController

-----------------------------------------------------------------------------
(* The zones as lines of trains.                                           *)

WaitingAt(z) == {t \in Trains : hard[t][z] # NoClaim \/ soft[t][z] # NoClaim}

TicketAt(z, t) == IF hard[t][z] # NoClaim THEN hard[t][z].ticket ELSE soft[t][z].ticket

\* The line in the order in which the tickets were handed out.
LineAt(z) ==
  [i \in 1 .. Cardinality(WaitingAt(z)) |->
     CHOOSE t \in WaitingAt(z) :
       Cardinality({u \in WaitingAt(z) : Age(TicketAt(z, u)) > Age(TicketAt(z, t))}) = i - 1]

Queues == INSTANCE TurnoutQueues WITH
            line   <- [z \in Zones |-> LineAt(z)],
            holder <- owner,
            closed <- [z \in Zones |-> phase[z] = "RELEASE_DELAY"]

\* Whatever is asked, cancelled, pruned or promoted, a zone serves trains in
\* the order in which they came to it, also when the tickets wrap, and passes
\* from one to the next only through the release delay.
ImplementsQueues == Queues!Spec
=============================================================================
