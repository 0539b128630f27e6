------------------------------ MODULE ZoneRests ------------------------------
(***************************************************************************)
(* A second table of conflict zones beside that of ConflictZone: here      *)
(* routes are replaced, with generations that wrap, the scheduler is late, *)
(* and a clock measures how long control of each zone has been given up.   *)
(***************************************************************************)
EXTENDS ConflictZone, Sequences

CONSTANTS
  RestZones, RestTrains, RestStages, RestPlaces,
  Succession,   \* route generations, in the order in which they are handed out
  RestDelay,    \* ticks a zone rests between two controllers
  LateBy        \* ticks the scheduler may be late

VARIABLES
  tphase, towner, tgrant, treleaseIn, thard, tsoft, tregistered, tlatest, tnextTicket, tlag,
  quiet         \* history, per zone: ticks since it was closed, up to RestDelay

Rests == INSTANCE ConflictZone WITH
  Zones <- RestZones, Trains <- RestTrains, Stages <- RestStages, MaxTrains <- RestPlaces,
  Generations <- {Succession[i] : i \in DOMAIN Succession}, Delay <- RestDelay, MaxLag <- LateBy,
  phase <- tphase, owner <- towner, grant <- tgrant, releaseIn <- treleaseIn,
  hard <- thard, soft <- tsoft, registered <- tregistered, latest <- tlatest,
  nextTicket <- tnextTicket, lag <- tlag

\* A generation that is handed out is newer than all before it, by the code's
\* own comparison; 0 is that of a train that has none yet.
ASSUME RestAssumption ==
  /\ Succession \in Seq(0 .. GenerationSpace - 1) /\ Succession # <<>> /\ Succession[1] = 0
  /\ \A i, j \in DOMAIN Succession : i < j => Newer(Succession[j], Succession[i])
  /\ RestDelay \in Nat /\ LateBy \in 0 .. RestDelay

rests == <<tphase, towner, tgrant, treleaseIn, thard, tsoft, tregistered, tlatest, tnextTicket, tlag,
           quiet>>

\* Control of z is given up: it begins to rest, or does so anew.
Closes(z) ==
  /\ tphase'[z] = "RELEASE_DELAY"
  /\ tphase[z] # "RELEASE_DELAY" \/ treleaseIn'[z] > treleaseIn[z]

RestInit == Rests!Init /\ quiet = [z \in RestZones |-> RestDelay]

RestNext ==
  /\ Rests!Next
  /\ quiet' = [z \in RestZones |->
                 IF Closes(z) THEN 0
                 ELSE IF tlag' > tlag /\ quiet[z] < RestDelay THEN quiet[z] + 1
                 ELSE quiet[z]]

RestSpec == RestInit /\ [][RestNext]_rests

-----------------------------------------------------------------------------
Rank(g) == CHOOSE i \in DOMAIN Succession : Succession[i] = g

\* A route that was replaced stays dead: none of its claims is left, and the
\* generation a train's requests are measured against never returns to one
\* handed out earlier.
RoutesForgotten ==
  [][/\ Rests!ClaimsCurrent'
     /\ \A t \in RestTrains : Rank(tlatest'[t]) >= Rank(tlatest[t])]_rests

\* A zone opens again only when it has rested for the release delay, short of
\* the time the scheduler may have been late when the delay was started.
DelayKept ==
  [][\A z \in RestZones :
       tphase[z] = "RELEASE_DELAY" /\ tphase'[z] = "FREE" => quiet[z] + LateBy >= RestDelay]_rests
=============================================================================
