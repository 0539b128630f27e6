----------------------------- MODULE MCDispatch -----------------------------
(***************************************************************************)
(* The dispatcher for TLC: its jobs (the instance of MCJobControl), and    *)
(* its passes over the conflict zones.  They share no state here, so a     *)
(* behaviour exercises one of them while the other rests.                  *)
(***************************************************************************)
EXTENDS MCJobControl, ZoneTraffic, TLC

CONSTANT Parts

VARIABLE part   \* what is exercised

\* Two trains need a pair of close turnouts; a job or a command may come to
\* grief.  And two trains need two turnouts in opposite order, and one of them
\* has a stage before that: each may own what the other needs next.
MCScenes ==
  { << << << 1 :> "S", (2 :> "C" @@ 3 :> "S") >>, << (2 :> "S" @@ 3 :> "S") >> >>, 1 >>,
    << << << 1 :> "S", 2 :> "S", 3 :> "C" >>,     << 3 :> "C", 2 :> "C" >> >>,     0 >> }

MCPosition == << "S", "S", "C" >>

\* Where the jobs alone are looked at there is neither zone nor train.
NoTraffic == { << <<>>, 0 >> }

allvars == <<part, vars, traffic>>

MCInit ==
  /\ part \in Parts
  /\ Init /\ TrafficInit /\ (part = "zones" \/ trouble = 0)

MCNext ==
  \/ part = "jobs" /\ Next /\ UNCHANGED <<part, traffic>>
  \/ part = "zones" /\ TrafficNext /\ UNCHANGED <<part, vars>>

MCSpec == MCInit /\ [][MCNext]_allvars

MCLiveSpec == MCSpec /\ Fairness

MCView == <<part, View, traffic>>
=============================================================================
