---------------------------- MODULE ZoneTraffic ----------------------------
(***************************************************************************)
(* How the dispatcher drives the conflict zones (tc2_dispatch.c).  The     *)
(* route of a train crosses the turnouts it shares with others in stages.  *)
(* Each pass of process_conflict_zones asks hard for the train's next      *)
(* stage and softly for the one after it, sets the turnouts of stages it   *)
(* was granted and, ahead of time, of soft stages it stands first in line  *)
(* for, and follows the train: a stage is entered, passed, and carried     *)
(* until the tail has left it.                                             *)
(*                                                                         *)
(* The dispatcher is one task, so a pass is one step: d is all it writes,  *)
(* and its parts are operators from a value of d to the next, applied to   *)
(* one train after the other.  Trains, turnouts and the CAN server move    *)
(* between two passes.  The table of zones is the one of ConflictZone with *)
(* tickets replaced by the order of one line; a zone has one turnout.      *)
(* A train follows one leg of one route here: route generations, carries   *)
(* of an older route, egress from an origin zone, the return to an earlier *)
(* stage when a launch is taken back, and a slow correction after the stop *)
(* for the destination are left out.                                       *)
(***************************************************************************)
EXTENDS Integers, Sequences, FiniteSetsExt

CONSTANTS
  NumTrains,    \* the trains: the one in job slot t is train t
  Zones,        \* numbers: the order in which a stage's turnouts are set
  Scenes,       \* what is looked at: << plan, trouble >>
  Position,     \* the turnouts at the start
  MaxLag        \* bound: positions a train is ahead of what is known of it

VARIABLES
  plan,      \* per train: a sequence of stages, zone :> direction
  trouble,   \* bound: jobs that may still go back to waiting or fail, commands
             \* that may fail or be taken back on the wire, taken together
  d,         \* what the dispatcher knows
  place,     \* per train: stages its front entered, its centre passed and
             \* its tail left
  phys,      \* where the turnouts really are
  orphans,   \* commands that were cancelled on the wire
  reach,     \* per train that was told to stop: whether it rolls on, and the
             \* stage set for it that it had not been heard to enter (0: none)
  unsure     \* zones for which a command failed or was taken back on the wire,
             \* since the last one that is known to have been obeyed

Trains == 1 .. NumTrains
LastStage(t) == Len(plan[t])
None    == <<>>

ZonesOf(t, i) == DOMAIN plan[t][i]

ASSUME ZoneTrafficAssumption == NumTrains \in Nat /\ Zones \subseteq Nat

traffic == <<plan, trouble, d, place, phys, orphans, reach, unsure>>

Start    == [front |-> 0, centre |-> 0, tail |-> 0]
Standing == [rolls |-> FALSE, stage |-> 0]

TrafficInit ==
  /\ \E scene \in Scenes : plan = scene[1] /\ trouble = scene[2]
  /\ d = [state |-> [z \in Zones |-> "FREE"],       \* per zone
          owner |-> [z \in Zones |-> None],         \* <<train, stage>>
          line |-> <<>>,                            \* claims by age
          next |-> [t \in Trains |-> 1],            \* conflict_zone_next_step
          hard |-> [t \in Trains |-> FALSE],        \* has a hard ticket
          soft |-> [t \in Trains |-> FALSE],
          carry |-> [t \in Trains |-> {}],          \* [zone, stage, mode]
          act |-> [t \in Trains |-> None],          \* setting an owned turnout
          pre |-> [t \in Trains |-> None],          \* setting one ahead
          confirmed |-> [t \in Trains |-> 0],       \* soft_confirmed_step
          table |-> Position,                       \* dispatch_turnout_direction
          mode |-> [t \in Trains |-> "WAITING"],
          known |-> [t \in Trains |-> Start]]       \* where trains are at least
  /\ place = [t \in Trains |-> Start]
  /\ phys = Position /\ orphans = {}
  /\ reach = [t \in Trains |-> Standing] /\ unsure = {}

\* A loop: the operator applied to 1, 2, ..., n.
InTurn(Op(_, _), s, n) ==
  LET done[k \in 0 .. n] == IF k = 0 THEN s ELSE Op(done[k - 1], k) IN done[n]

Troubled == trouble > 0 /\ trouble' = trouble - 1

-----------------------------------------------------------------------------
(* The table of zones.                                                     *)

Claim(t, i, kind) == [train |-> t, stage |-> i, kind |-> kind]

ClaimZones(c) == ZonesOf(c.train, c.stage)

Queued(s, c) == \E n \in DOMAIN s.line : s.line[n] = c

\* First in the zone's line, and the zone is nobody's.
IsHead(s, z, c) ==
  /\ s.state[z] = "FREE"
  /\ \E n \in DOMAIN s.line :
       /\ s.line[n] = c
       /\ \A m \in 1 .. (n - 1) : z \notin ClaimZones(s.line[m])

HeadOfAll(s, c) == \A z \in ClaimZones(c) : IsHead(s, z, c)

Close(s, S) ==
  [s EXCEPT !.state = [z \in Zones |-> IF z \in S THEN "RELEASE_DELAY" ELSE @[z]],
            !.owner = [z \in Zones |-> IF z \in S THEN None ELSE @[z]]]

\* Claims leave the line; where one was first the zone rests.
Withdraw(s, C) ==
  LET led(z) == \E c \in C : z \in ClaimZones(c) /\ IsHead(s, z, c)
  IN  [Close(s, {z \in Zones : led(z)}) EXCEPT
         !.line = SelectSeq(@, LAMBDA c : c \notin C)]

ClaimsOf(s, t, kind) ==
  {s.line[n] : n \in {m \in DOMAIN s.line : s.line[m].train = t /\ s.line[m].kind = kind}}

CancelHard(s, t) == Withdraw(s, ClaimsOf(s, t, "hard"))
CancelSoft(s, t) == Withdraw(s, ClaimsOf(s, t, "soft"))

Owned(s, t, i) == {z \in ZonesOf(t, i) : s.owner[z] = <<t, i>>}
Owns(s, t)     == s.hard[t] /\ Owned(s, t, s.next[t]) = ZonesOf(t, s.next[t])

Mark(s, S, p) == [s EXCEPT !.state = [z \in Zones |-> IF z \in S THEN p ELSE @[z]]]

\* A soft claim on the stage turns hard where it stands in the line.
RequestHard(s, t) ==
  LET h == Claim(t, s.next[t], "hard")
      q == Claim(t, s.next[t], "soft")
  IN  IF Owned(s, t, s.next[t]) # {}
      THEN [s EXCEPT !.hard[t] = FALSE]
      ELSE [s EXCEPT !.hard[t] = TRUE,
              !.line = IF Queued(s, h) THEN @
                       ELSE IF Queued(s, q)
                       THEN [n \in DOMAIN @ |-> IF @[n] = q THEN h ELSE @[n]]
                       ELSE Append(@, h)]

RequestSoft(s, t, i) ==
  LET q == Claim(t, i, "soft")
  IN  [(IF Queued(s, q) THEN s
        ELSE [CancelSoft(s, t) EXCEPT !.line = Append(@, q)])
       EXCEPT !.soft[t] = TRUE]

TryGrant(s, t) ==
  LET i == s.next[t]
      h == Claim(t, i, "hard")
  IN  IF ~Queued(s, h) \/ ~HeadOfAll(s, h) THEN s
      ELSE [s EXCEPT
              !.line = SelectSeq(@, LAMBDA c : c # h),
              !.state = [z \in Zones |-> IF z \in ZonesOf(t, i) THEN "GRANTED" ELSE @[z]],
              !.owner = [z \in Zones |-> IF z \in ZonesOf(t, i) THEN <<t, i>> ELSE @[z]]]


-----------------------------------------------------------------------------
(* Commands to turnouts.  A train sets one owned turnout at a time (act)   *)
(* and one ahead of time (pre): the zone and how far its batch is.         *)

InTable(s, t, i) == \A z \in ZonesOf(t, i) : s.table[z] = plan[t][i][z]

TurnoutCommand(i, z) == [stage |-> i, zone |-> z, batch |-> "PENDING"]

CanCommandSoft == {"PREPARING", "RUNNING", "TRAFFIC_HOLD"}
CanRequest     == {"PREPARING", "RUNNING", "TRAFFIC_HOLD"}
KeepsSoft      == CanCommandSoft \cup {"TRAFFIC_STOP"}

Eligible(s, t, i) ==
  /\ s.mode[t] \in KeepsSoft /\ s.soft[t]
  /\ HeadOfAll(s, Claim(t, i, "soft"))

CancelAhead(s, t) == [s EXCEPT !.pre[t] = None, !.confirmed[t] = 0]

\* The command ahead was for the stage that has become the next.
Promoted(s, t) == s.pre[t].stage = s.next[t] /\ s.hard[t]

ValidateAhead(s, t) ==
  LET i == s.confirmed[t]
  IN  IF s.pre[t] # None /\ ~Promoted(s, t) /\ ~Eligible(s, t, s.pre[t].stage)
      THEN CancelAhead(s, t)
      ELSE IF \/ i = s.next[t] + 1 /\ Eligible(s, t, i) /\ InTable(s, t, i)
              \/ i = s.next[t] /\ s.hard[t]
      THEN s
      ELSE [s EXCEPT !.confirmed[t] = 0]

\* record_turnout_direction, when the batch is known to be obeyed.
Record(s, t, c) == [s EXCEPT !.table[c.zone] = plan[t][c.stage][c.zone]]

PollAhead(s, t) ==
  LET c == s.pre[t]
  IN  IF c = None THEN s
      ELSE IF ~Eligible(s, t, c.stage) /\ ~Promoted(s, t) THEN CancelAhead(s, t)
      ELSE CASE c.batch = "FAILED"   -> CancelAhead(s, t)
             [] c.batch = "COMPLETE" -> [Record(s, t, c) EXCEPT !.pre[t].batch = "SETTLING"]
             [] c.batch = "SETTLED"  ->
                  [s EXCEPT !.pre[t] = None,
                            !.confirmed[t] = IF InTable(s, t, c.stage) THEN c.stage ELSE @]
             [] OTHER -> s

Wrong(s, t, S, i) == {z \in S : s.table[z] # plan[t][i][z]}

QueueAhead(s, t, busy) ==
  LET i == s.next[t] + 1
  IN  IF \/ s.mode[t] \notin CanCommandSoft \/ i > LastStage(t)
         \/ ~Eligible(s, t, i) THEN s
      ELSE IF InTable(s, t, i) THEN [s EXCEPT !.confirmed[t] = i]
      ELSE IF s.confirmed[t] = i \/ s.pre[t] # None \/ busy THEN s
      ELSE [s EXCEPT !.pre[t] = TurnoutCommand(i, Min(Wrong(s, t, ZonesOf(t, i), i)))]

\* The next stage is owned: its turnouts are set, one after the other.
QueueOwned(s, t, busy) ==
  LET i == s.next[t]
      S == {z \in ZonesOf(t, i) : s.state[z] \in {"GRANTED", "SETTING"}}
      z == Min(S)
  IN  IF i > LastStage(t) \/ ~s.hard[t] THEN s
      ELSE IF ~Owns(s, t)
      THEN [s EXCEPT !.confirmed[t] = IF @ = i THEN 0 ELSE @]
      ELSE IF S = {} THEN [s EXCEPT !.act[t] = None]
      ELSE IF s.pre[t] # None /\ s.pre[t].stage = i THEN s
      ELSE IF s.state[z] = "GRANTED" /\ s.confirmed[t] = i /\ InTable(s, t, i)
      THEN [Mark(s, S, "SETTLED") EXCEPT !.confirmed[t] = 0, !.act[t] = None]
      ELSE IF Wrong(s, t, {z}, i) = {}
      THEN [Mark(s, {z}, "SETTLED") EXCEPT !.act[t] = None]
      ELSE IF busy THEN s
      ELSE [Mark(s, {z}, "SETTING") EXCEPT !.act[t] = TurnoutCommand(i, z)]

-----------------------------------------------------------------------------
(* The gates a train needs to start, to go on and to resume.               *)

StepReady(s, t) ==
  LET i == s.next[t]
  IN  i <= LastStage(t) =>
      /\ Owns(s, t) /\ InTable(s, t, i)
      /\ \A z \in ZonesOf(t, i) : s.state[z] \in {"SETTLED", "OCCUPIED"}

LookaheadPrepared(s, t) ==
  LET i == s.next[t] + 1
  IN  i <= LastStage(t) =>
      /\ ZonesOf(t, i) \cap ZonesOf(t, i - 1) = {}
      /\ s.pre[t] = None /\ s.soft[t] /\ s.confirmed[t] = i
      /\ HeadOfAll(s, Claim(t, i, "soft")) /\ InTable(s, t, i)

GatesReady(s, t) == StepReady(s, t) /\ LookaheadPrepared(s, t)

-----------------------------------------------------------------------------
(* Requests.                                                               *)

Carried(s, t) == {c.zone : c \in s.carry[t]}

\* One train does not control two crossings of a zone at a time.
RefreshSoft(s, t) ==
  LET i == s.next[t] + 1
  IN  IF s.next[t] > LastStage(t) THEN s
      ELSE IF \/ i > LastStage(t)
              \/ ZonesOf(t, i) \cap (Carried(s, t) \cup ZonesOf(t, i - 1)) # {}
      THEN [CancelSoft(s, t) EXCEPT !.soft[t] = FALSE]
      ELSE RequestSoft(s, t, i)

Refresh(s, t) ==
  IF s.next[t] > LastStage(t) THEN s
  ELSE IF ZonesOf(t, s.next[t]) \cap Carried(s, t) # {}
  THEN RefreshSoft([CancelHard(s, t) EXCEPT !.hard[t] = FALSE], t)
  ELSE RefreshSoft(IF Owns(s, t) THEN s ELSE RequestHard(s, t), t)

\* A train that waits or brakes for its destination has no further intent: it
\* gives up its claims, and its next stage if it is not known to be in it.  (A
\* train held in traffic would keep its soft claim only; but a hold always has
\* the purpose that keeps the whole plan, so that branch is never taken.)
Suspend(s, t) ==
  LET i == s.next[t]
      u == [CancelHard(CancelSoft(CancelAhead(s, t), t), t) EXCEPT
              !.soft[t] = FALSE, !.act[t] = None]
      mine == IF i <= LastStage(t) /\ s.hard[t] THEN Owned(u, t, i) ELSE {}
      unentered == \A z \in mine :
        \/ u.state[z] = "GRANTED"
        \/ u.state[z] \in {"SETTING", "SETTLED"} /\ u.known[t].front < i
  IN  IF mine # {} /\ ~unentered THEN u
      ELSE [Close(u, mine) EXCEPT !.hard[t] = FALSE]


-----------------------------------------------------------------------------
(* Following the train.                                                    *)

Cohort(s, t, i) == {c \in s.carry[t] : c.stage = i}

\* A stage behind the centre is given back when the tail is known to have
\* left it, or when the train never entered it.
CarryStage(s, t, i) ==
  LET C == Cohort(s, t, i)
      clear == s.known[t].tail >= i
      S == {c.zone : c \in C}
      unentered == \A c \in C :
        /\ s.state[c.zone] \in {"GRANTED", "SETTING", "SETTLED"}
        /\ c.mode = "UNENTERED" \/ (clear /\ c.mode = "UNKNOWN")
      left == \A c \in C :
        /\ s.state[c.zone] = "OCCUPIED"
        /\ c.mode = "TAIL_CLEAR" \/ clear
  IN  IF C # {} /\ (Owned(s, t, i) = {} \/ unentered \/ left)
      THEN [Close(s, Owned(s, t, i)) EXCEPT !.carry[t] = @ \ C] ELSE s

Carries(s, t) == InTurn(LAMBDA u, i : CarryStage(u, t, i), s, LastStage(t))

\* What a failed train owns is carried, in the mode that is known of it.
Snapshot(s, t) ==
  LET i == s.next[t]
      k == s.known[t]
      mode(z) == CASE s.state[z] = "GRANTED"  -> "UNENTERED"
                   [] s.state[z] = "OCCUPIED" -> IF k.tail >= i THEN "TAIL_CLEAR" ELSE "OCCUPIED"
                   [] OTHER -> IF k.front < i THEN "UNENTERED" ELSE "UNKNOWN"
      mine == IF i <= LastStage(t) THEN Owned(s, t, i) ELSE {}
  IN  [s EXCEPT !.carry[t] = @ \cup {[zone |-> z, stage |-> i, mode |-> mode(z)] : z \in mine}]

WithoutRights(s, t) ==
  [CancelHard(CancelSoft(CancelAhead(s, t), t), t) EXCEPT
     !.hard[t] = FALSE, !.soft[t] = FALSE, !.act[t] = None]

\* discard_future_conflict_zone_work
Discard(s, t) ==
  LET u == WithoutRights(Snapshot(s, t), t)
      setting == {z \in Zones : u.owner[z] # None /\ u.owner[z][1] = t /\ u.state[z] = "SETTING"}
  IN  Mark(u, setting, "GRANTED")

\* Mutant: the zones stay with the train that has arrived.
RetireClaims(s, t) ==
  [WithoutRights(s, t) EXCEPT !.carry[t] = {}, !.next[t] = LastStage(t) + 1]

\* retire_terminal_conflict_zone_memory: a train that stands at its
\* destination keeps nothing of the table.
Retire(s, t) ==
  [Close(WithoutRights(s, t), {z \in Zones : s.owner[z] # None /\ s.owner[z][1] = t}) EXCEPT
     !.carry[t] = {}, !.next[t] = LastStage(t) + 1]

\* The stage after the one just passed becomes the next; its soft claim and
\* the command ahead of it go along.
Promote(s, t, busy) ==
  LET i == s.next[t] + 1
      ready   == s.confirmed[t] = i /\ Eligible(s, t, i)
      flying  == s.pre[t] # None /\ s.pre[t].stage = i /\ s.pre[t].batch # "FAILED"
      moved   == [s EXCEPT !.next[t] = i, !.hard[t] = FALSE, !.act[t] = None]
      after   == IF s.pre[t] # None /\ s.pre[t].batch = "FAILED" THEN CancelAhead(moved, t)
                 ELSE IF s.confirmed[t] = i /\ ~ready /\ ~flying
                 THEN [moved EXCEPT !.confirmed[t] = 0] ELSE moved
  IN  IF i > LastStage(t)
      THEN [CancelSoft([moved EXCEPT !.pre[t] = None, !.confirmed[t] = 0], t) EXCEPT !.soft[t] = FALSE]
      ELSE LET u == Refresh(after, t) IN IF Owns(u, t) THEN QueueOwned(u, t, busy) ELSE u

\* Mutant: passed is as good as left.
PassAndForget(s, t, busy) ==
  LET i == s.next[t]
  IN  IF Owned(s, t, i) # {} /\ s.known[t].centre >= i
      THEN Promote(Close(s, Owned(s, t, i)), t, busy) ELSE s

Passed(s, t, busy) ==
  LET i == s.next[t]
  IN  IF s.known[t].centre >= i
      THEN Promote([s EXCEPT !.carry[t] = @ \cup
             {[zone |-> z, stage |-> i, mode |-> "OCCUPIED"] : z \in ZonesOf(t, i)}], t, busy)
      ELSE s

Follow(s, t, busy) ==
  LET i == s.next[t]
      all(p) == \A z \in ZonesOf(t, i) : s.state[z] = p
  IN  IF i > LastStage(t) \/ ~s.hard[t] \/ ~Owns(s, t) THEN s
      ELSE IF all("SETTLED") /\ s.known[t].front >= i
      THEN Passed(Mark(s, ZonesOf(t, i), "OCCUPIED"), t, busy)
      ELSE IF all("OCCUPIED") THEN Passed(s, t, busy) ELSE s

\* Progress of the turnout being set; a failed command is tried again.
PollOwned(s, t, busy) ==
  LET c == s.act[t]
  IN  IF c = None THEN Follow(QueueOwned(s, t, busy), t, busy)
      ELSE CASE c.batch = "PENDING"  -> s
             [] c.batch = "FAILED"   -> [Mark(s, {c.zone}, "GRANTED") EXCEPT !.act[t] = None]
             [] c.batch = "COMPLETE" ->
                  Follow([Record(s, t, c) EXCEPT !.act[t].batch = "SETTLING"], t, busy)
             [] c.batch = "SETTLING" -> Follow(s, t, busy)
             [] c.batch = "SETTLED"  ->
                  Follow(QueueOwned([Mark(s, {c.zone}, "SETTLED") EXCEPT !.act[t] = None],
                                    t, busy), t, busy)

ServeTrain(s, t, busy) ==
  IF s.mode[t] = "ARRIVED" THEN Retire(s, t)
  ELSE LET u == Carries(IF s.mode[t] = "FAILED" THEN Discard(s, t) ELSE s, t)
       IN  IF u.mode[t] \in CanRequest THEN PollOwned(u, t, busy) ELSE Follow(u, t, busy)

\* process_conflict_zones, one loop over the job slots after the other.
AfterPass(s, busy) ==
  LET Each(Op(_, _), u) == InTurn(Op, u, NumTrains)
      s1 == Each(LAMBDA u, t : IF u.mode[t] \in {"WAITING", "BRAKING"} THEN Suspend(u, t) ELSE u, s)
      s2 == Each(LAMBDA u, t : IF u.mode[t] \in CanRequest THEN Refresh(u, t) ELSE u, s1)
      s3 == Each(LAMBDA u, t : PollAhead(ValidateAhead(u, t), t), s2)
      s4 == Each(LAMBDA u, t : QueueAhead(u, t, busy), s3)
      s5 == Each(LAMBDA u, t : IF u.mode[t] \in CanRequest /\ u.next[t] <= LastStage(t) /\ u.hard[t]
                               THEN TryGrant(u, t) ELSE u, s4)
  IN  Each(LAMBDA u, t : ServeTrain(u, t, busy), s5)

Commands(s) == UNION {{s.act[t], s.pre[t]} : t \in Trains} \ {None}

Direction(s, c) ==
  LET t == CHOOSE t \in Trains : c \in {s.act[t], s.pre[t]} IN plan[t][c.stage][c.zone]

\* Commands the pass took back while they were pending, and those it dropped
\* that had been carried out and are not in the table of turnouts.
Recalled(s, u) == {c \in Commands(s) \ Commands(u) : c.batch = "PENDING"}
Forgotten(s, u) ==
  {c \in Commands(s) : c.batch = "COMPLETE" /\ u.table[c.zone] # Direction(s, c)}

\* CanCancelBatch answers 0 for a frame that is on the wire as well.
ZonePass(busy) ==
  LET after  == AfterPass(d, busy)
      back   == Recalled(d, after)
      forgot == {c.zone : c \in Forgotten(d, after)}
  IN  /\ d' = after /\ d' # d
      /\ \/ UNCHANGED <<orphans, trouble>> /\ unsure' = unsure \cup forgot
         \/ /\ back # {} /\ Troubled
            /\ orphans' = orphans \cup {<<c.zone, Direction(d, c)>> : c \in back}
            /\ unsure' = unsure \cup forgot \cup {c.zone : c \in back}
      /\ UNCHANGED <<plan, place, phys, reach>>

-----------------------------------------------------------------------------
(* The jobs, as the rest of the dispatcher moves them.                     *)

Moves(t, from, to) ==
  /\ d.mode[t] = from /\ d' = [d EXCEPT !.mode[t] = to]
  /\ UNCHANGED <<plan, place, phys, orphans, unsure>>

Become(t, from, to) == Moves(t, from, to) /\ UNCHANGED <<reach, trouble>>

\* One that rolls may still roll into a stage that is set for it.
ToldToStop(t, rolls) ==
  reach' = [reach EXCEPT ![t] =
    [rolls |-> rolls,
     stage |-> IF d.next[t] <= LastStage(t) /\ d.known[t].front < d.next[t] /\ StepReady(d, t)
               THEN d.next[t] ELSE 0]]

Admit(t)  == Become(t, "WAITING", "PREPARING")
SetOff(t) == GatesReady(d, t) /\ Become(t, "PREPARING", "RUNNING")

\* enforce_conflict_zone_gate
Gate(t) == ~GatesReady(d, t) /\ Become(t, "RUNNING", "TRAFFIC_STOP")
Halt(t) == Become(t, "TRAFFIC_STOP", "TRAFFIC_HOLD")

\* The zone loop has something to note of the train before it may resume.
Unnoted(s, t) ==
  LET i == s.next[t]
  IN  /\ i <= LastStage(t) /\ Owns(s, t)
      /\ \/ s.known[t].front >= i /\ \A z \in ZonesOf(t, i) : s.state[z] = "SETTLED"
         \/ s.known[t].centre >= i /\ \A z \in ZonesOf(t, i) : s.state[z] = "OCCUPIED"

GoOn(t) == ~Unnoted(d, t) /\ Become(t, "TRAFFIC_HOLD", "PREPARING")

\* The wave is taken back before anything moved.
Restage(t) ==
  /\ place[t] = Start /\ Troubled
  /\ Moves(t, "PREPARING", "WAITING") /\ UNCHANGED reach

\* fail_job.  A train that has been held may stand in a stage unheard.
Fail(t) ==
  /\ d.mode[t] \in {"PREPARING", "RUNNING", "TRAFFIC_STOP", "TRAFFIC_HOLD"}
  /\ Troubled
  /\ ToldToStop(t, d.mode[t] \in {"RUNNING", "TRAFFIC_STOP"})
  /\ Moves(t, d.mode[t], "FAILED")

\* The brake point of the destination.  A train whose last stage is not set has
\* been stopped for that before: it lies nearer.
Brake(t) ==
  /\ d.next[t] >= LastStage(t) /\ StepReady(d, t)
  /\ ToldToStop(t, TRUE) /\ Moves(t, "RUNNING", "BRAKING") /\ UNCHANGED trouble

\* Where a leg ends, the tail may be short of its last turnout's exit.
Arrive(t) == place[t].centre = LastStage(t) /\ Become(t, "BRAKING", "ARRIVED")

-----------------------------------------------------------------------------
(* The layout.                                                             *)

Coasts(t)  == d.mode[t] \in {"BRAKING", "FAILED"} /\ reach[t].rolls
Rolling(t) == d.mode[t] \in {"RUNNING", "TRAFFIC_STOP"} \/ Coasts(t)

Lag(t) == (place[t].front - d.known[t].front) + (place[t].centre - d.known[t].centre)
            + (place[t].tail - d.known[t].tail)

\* A train that its gates do not let in stops in time; one that was told to stop
\* rolls on into what was set for it.
EnterStage(t) ==
  LET i == place[t].front + 1
  IN  /\ i <= LastStage(t) /\ place[t].centre = i - 1
      /\ IF Coasts(t) THEN reach[t].stage = i ELSE d.next[t] = i /\ StepReady(d, t)
      /\ place' = [place EXCEPT ![t].front = i]

PassExit(t) ==
  /\ place[t].centre < place[t].front
  /\ place' = [place EXCEPT ![t].centre = place[t].front]

LeaveTail(t) ==
  /\ place[t].tail < place[t].centre
  /\ place' = [place EXCEPT ![t].tail = @ + 1]

Roll(t) == /\ Rolling(t) /\ Lag(t) < MaxLag
           /\ EnterStage(t) \/ PassExit(t) \/ LeaveTail(t)
           /\ UNCHANGED <<plan, trouble, d, phys, orphans, reach, unsure>>

\* Sensors and the motion model raise the lower bound of the position.
Report(t) ==
  /\ d.known[t] # place[t] /\ d' = [d EXCEPT !.known[t] = place[t]]
  /\ UNCHANGED <<plan, trouble, place, phys, orphans, reach, unsure>>

Throw(z, dir) == phys' = [phys EXCEPT ![z] = dir]

\* The CAN server carries a command out, or gives up on it without knowing.
Obey(t, f) ==
  LET c == d[f][t]
  IN  /\ c # None /\ c.batch = "PENDING"
      /\ \/ /\ Throw(c.zone, plan[t][c.stage][c.zone])
            /\ d' = [d EXCEPT ![f][t].batch = "COMPLETE"]
            /\ unsure' = unsure \ {c.zone} /\ UNCHANGED trouble
         \/ /\ Troubled
            /\ Throw(c.zone, plan[t][c.stage][c.zone]) \/ UNCHANGED phys
            /\ d' = [d EXCEPT ![f][t].batch = "FAILED"]
            /\ unsure' = unsure \cup {c.zone}
      /\ UNCHANGED <<plan, place, orphans, reach>>

Orphan == \E o \in orphans :
  /\ Throw(o[1], o[2]) \/ UNCHANGED phys
  /\ orphans' = orphans \ {o}
  /\ UNCHANGED <<plan, trouble, d, place, reach, unsure>>

\* TC2_TURNOUT_SETTLE_TICKS have gone by.
Settle(t, f) ==
  /\ d[f][t] # None /\ d[f][t].batch = "SETTLING"
  /\ d' = [d EXCEPT ![f][t].batch = "SETTLED"]
  /\ UNCHANGED <<plan, trouble, place, phys, orphans, reach, unsure>>

\* Two seconds, longer than a frame stays on the wire.
Reopen(z) ==
  /\ d.state[z] = "RELEASE_DELAY" /\ \A o \in orphans : o[1] # z
  /\ d' = [d EXCEPT !.state[z] = "FREE"]
  /\ UNCHANGED <<plan, trouble, place, phys, orphans, reach, unsure>>

Job(t) == \/ Admit(t) \/ SetOff(t) \/ Gate(t) \/ Halt(t) \/ GoOn(t)
          \/ Brake(t) \/ Arrive(t)

Motors(t) == \E f \in {"act", "pre"} : Obey(t, f) \/ Settle(t, f)

TrafficNext ==
  \/ \E busy \in BOOLEAN : ZonePass(busy)
  \/ \E t \in Trains :
       Job(t) \/ Restage(t) \/ Fail(t) \/ Roll(t) \/ Report(t) \/ Motors(t)
  \/ \E z \in Zones : Reopen(z)
  \/ Orphan

TrafficSpec == TrafficInit /\ [][TrafficNext]_traffic

-----------------------------------------------------------------------------
(* Correctness.                                                            *)

Covers(t, i) == place[t].tail < i /\ i <= place[t].front

\* What the dispatcher gives up although the train may be there: every stage
\* when it has arrived, and the one it had not been heard to enter when it
\* was told to stop.
GivenUp(t, i) == d.mode[t] = "ARRIVED" \/ i = reach[t].stage

Under(z) == {<<t, i>> \in UNION {{t} \X (1 .. LastStage(t)) : t \in Trains} :
               z \in ZonesOf(t, i) /\ Covers(t, i)}

\* No turnout moves under a train, by whichever train's command, except on a
\* stage the dispatcher has given up; and a stage that counts as set is set on
\* the track as its owner wants it, except where a command whose fate nobody
\* knows has come after the last one that was obeyed.
ThrownClear ==
  \A z \in Zones : phys'[z] # phys[z] => \A u \in Under(z) : GivenUp(u[1], u[2])

SetOnTrack ==
  \A z \in Zones \ unsure : d.state[z] \in {"SETTLED", "OCCUPIED"} =>
    LET o == d.owner[z] IN phys[z] = plan[o[1]][o[2]][z]

TurnoutsKept == [][ThrownClear]_traffic /\ []SetOnTrack

\* README-TC2: "A second train cannot reserve the physical turnout while the
\* first train or its tail may occupy it."  So no turnout moves under a train
\* that has not arrived.
NoneMovesUnderATrain ==
  [][\A z \in Zones : phys'[z] # phys[z] => \A u \in Under(z) : d.mode[u[1]] = "ARRIVED"]_traffic

\* Whose zones, or whose older claims, a train needs gone for its next stage
\* and the one after it.
WaitsFor(t) ==
  {u \in Trains \ {t} :
     \E i \in {d.next[t], d.next[t] + 1} \cap (1 .. LastStage(t)) :
       \/ \E z \in ZonesOf(t, i) : d.owner[z] # None /\ d.owner[z][1] = u
       \/ \E n \in DOMAIN d.line : \E m \in 1 .. n - 1 :
            /\ d.line[n].train = t /\ d.line[n].stage = i /\ d.line[m].train = u
            /\ ZonesOf(t, i) \cap ClaimZones(d.line[m]) # {}}

\* A train that waits for others that wait in a circle.
InCircle(t) ==
  \E S \in SUBSET Trains : t \in S /\ \A u \in S : WaitsFor(u) \cap S # {}

\* A pass changes nothing and nothing else is under way, but for what fails.
Quiet ==
  /\ orphans = {} /\ \A z \in Zones : d.state[z] # "RELEASE_DELAY"
  /\ \A c \in Commands(d) : c.batch \notin {"PENDING", "SETTLING"}
  /\ \A t \in Trains : d.known[t] = place[t] /\ ~ENABLED (Job(t) \/ Roll(t))
  /\ AfterPass(d, FALSE) = d

\* When nothing more can happen, every train has arrived, or a job has failed,
\* or the train waits in such a circle: a zone that is given back is asked for
\* by whoever waits for it, and nothing else holds a train for good.
OnlyCirclesWait ==
  Quiet => \A t \in Trains :
    d.mode[t] = "ARRIVED" \/ (\E u \in Trains : d.mode[u] = "FAILED") \/ InCircle(t)
=============================================================================
