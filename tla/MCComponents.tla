---------------------------- MODULE MCComponents ----------------------------
(***************************************************************************)
(* The smaller components for TLC.  They share no state here, so a         *)
(* behaviour exercises one of them while the others rest, and the state    *)
(* spaces add up instead of multiplying.  The names of the parts:          *)
(*   "long delays", "short delays"  the clock, with fewer slots than there *)
(*                 are clients                                             *)
(*   "console", "names"                                                    *)
(*   "can"         two clients, three frames, batches of two               *)
(*   "journal"     a ring of two events, pages of one, numbers that wrap   *)
(*   "screen"      two places of the map                                   *)
(*   "plans"       plans that pass two sensors in different orders         *)
(*   "marker"      one plan and two sensor events                          *)
(*   "trips"       a train that makes two trips, and one spurious report   *)
(***************************************************************************)
EXTENDS Components

VARIABLE part

MCAmounts == {-1, 0, 1, 2}

\* Plans from one way-point to the next, in two orders.
Way(at, sensor) == [at |-> at, sensor |-> sensor]
MCRoutes == { <<Way(0, "none"), Way(1, "A"), Way(2, "B")>>,
              <<Way(0, "none"), Way(1, "B"), Way(2, "none")>> }

LongDelays  == INSTANCE Clock WITH Amounts <- {2}
ShortDelays == INSTANCE Clock WITH Amounts <- {-1, 0, 1}, MaxTick <- 1

Marker == INSTANCE LiveView WITH
  Routes <- { <<Way(0, "none"), Way(1, "A"), Way(2, "B")>> },
  Sensors <- RouteSensors, MaxGeneration <- 2, MaxEvents <- 2, pc <- console

ASSUME MarkerAssumption == Marker!LiveViewAssumption

Parts == {"long delays", "short delays", "console", "names", "can", "journal",
          "screen", "plans", "marker", "trips"}

MCInit ==
  /\ part \in Parts
  /\ Init
  /\ Console!Init /\ (part = "console" \/ (rxThere /\ txThere))
  /\ Directory!Init
  /\ Can!Init /\ (part = "can" \/ hw)
  /\ Journal!Init
  /\ Screen!Init /\ (part = "screen" \/ (live /\ patient))
  /\ IF part = "marker" THEN Marker!Init ELSE Plans!Init
  /\ Trips!Init

MCNext ==
  /\ UNCHANGED part
  /\ part \in {"long delays", "short delays"} \/ UNCHANGED vars
  /\ part = "console" \/ UNCHANGED consoles
  /\ part = "names" \/ UNCHANGED lookups
  /\ part = "can" \/ UNCHANGED cans
  /\ part = "journal" \/ UNCHANGED journals
  /\ part = "screen" \/ UNCHANGED screens
  /\ part \in {"plans", "marker"} \/ UNCHANGED views
  /\ part = "trips" \/ UNCHANGED trips
  /\ \/ part = "long delays" /\ LongDelays!Next
     \/ part = "short delays" /\ ShortDelays!Next
     \/ part = "console" /\ Console!Next
     \/ part = "names" /\ Directory!Next
     \/ part = "can" /\ Can!Next
     \/ part = "journal" /\ Journal!Next
     \/ part = "screen" /\ Screen!Next
     \/ part = "plans" /\ Plans!Next
     \/ part = "marker" /\ Marker!Next
     \/ part = "trips" /\ Trips!Next

allvars == <<part, vars, consoles, lookups, cans, journals, screens, views, trips>>
MCSpec  == MCInit /\ [][MCNext]_allvars
=============================================================================
