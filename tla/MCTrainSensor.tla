--------------------------- MODULE MCTrainSensor ---------------------------
(***************************************************************************)
(* The sensor server for TLC, with the last report of each sensor and a    *)
(* bus that may deliver it twice.                                          *)
(***************************************************************************)
EXTENDS TrainSensor

VARIABLES
  last,      \* the last report of each sensor and whether it made an event
  repeated   \* the last step delivered a report that had made an event again

MCInit == Init /\ last = [s \in Sensors |-> <<0, 0, FALSE>>] /\ repeated = FALSE

MCNext ==
  \/ /\ \E t \in Trains : Drain(t) \/ Baseline(t)
     /\ last' = last /\ repeated' = FALSE
  \/ \E s \in Sensors, old, new \in {0, 1} :
       /\ SensorReport(s, old, new)
       /\ last' = [last EXCEPT ![s] = <<old, new, attributed' # attributed>>]
       /\ repeated' = (last[s] = <<old, new, TRUE>>)

MCSpec == MCInit /\ [][MCNext]_<<vars, last, repeated>>

\* An exact duplicate of a report that made an event makes no second one
\* (the comments at the rising edge in TrainSensorApplyEvent).
DuplicatesMakeNoEvent == [][repeated' => attributed' = attributed]_<<vars, last, repeated>>
=============================================================================
