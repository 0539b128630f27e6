--------------------------- MODULE MCConflictZone ---------------------------
(***************************************************************************)
(* Conflict zones for TLC, in two instances that share no state: stages of *)
(* two zones and tickets that wrap, without time; and one zone with route  *)
(* generations that wrap, and a clock that measures how long control of it *)
(* has been given up.  A behaviour exercises one of them.                  *)
(***************************************************************************)
EXTENDS ZoneRests, TLC

CONSTANT AnyZone   \* the zone that is a stage of its own

VARIABLE part

TwoStages  == {Zones, {AnyZone}}
WholeTable == {RestZones}

\* Generations in the order in which they are handed out.
Wrapping == <<0, GenerationSpace - 1, 1>>

MCSymmetry == Permutations(Trains) \cup Permutations(RestTrains)

MCInit == part \in {"stages", "time"} /\ Init /\ RestInit

MCNext ==
  \/ part = "stages" /\ Next /\ UNCHANGED <<part, rests>>
  \/ part = "time" /\ RestNext /\ UNCHANGED <<part, vars>>

MCSpec == MCInit /\ [][MCNext]_<<part, vars, rests>>
=============================================================================
