---------------------------- MODULE TrainSensor ----------------------------
(***************************************************************************)
(* The sensor server (train_sensor.c) and the jobs of the dispatcher that  *)
(* read its journal.  A report of the track becomes an event when it shows *)
(* a new occupation; the event is attributed to the train that has the     *)
(* sensor reserved, numbered, and kept in a ring until the train's job has *)
(* read it, page by page, while the ring goes on filling.                  *)
(*                                                                         *)
(* The server handles one message at a time, so a report is one step.  The *)
(* answers of the clock and of the reservation server are inputs.          *)
(***************************************************************************)
EXTENDS Lists

CONSTANTS
  Sensors, Trains,
  Capacity,        \* TRAIN_SENSOR_JOURNAL_CAPACITY (64)
  BatchSize,       \* TRAIN_SENSOR_EVENT_BATCH_CAPACITY (16)
  SequenceSpace,   \* 2^32 in the code
  LongestLoss      \* bound: see LossesFresh

SensorAssumption ==
  /\ Capacity \in Nat \ {0} /\ BatchSize \in Nat \ {0}
  /\ SequenceSpace \in Nat /\ SequenceSpace > 2 * Capacity + 2
  /\ LongestLoss \in 0 .. SequenceSpace \div 2 - 1

Numbers == 0 .. (SequenceSpace - 1)
Events    == [train : Trains, sequence : Numbers \ {0}]

VARIABLES
  high,        \* sensor_state: the sensors last reported occupied
  attributed,  \* attributed_count: the number of the last event, 0 for none
  entries,     \* the journal, oldest first
  dropped,     \* dropped_sequence_by_train
  cursor,      \* last_journal_sequence of each train's job
  unread       \* history: numbers of a train's events its job has not seen

vars == <<high, attributed, entries, dropped, cursor, unread>>

Init ==
  /\ high       = {}
  /\ attributed = 0
  /\ entries    = <<>>
  /\ dropped    = [t \in Trains |-> 0]
  /\ cursor     = [t \in Trains |-> 0]
  /\ unread     = [t \in Trains |-> <<>>]

-----------------------------------------------------------------------------
\* attributed_sequence_after: 0 is "no cursor" and comes before everything.
After(candidate, reference) ==
  /\ candidate # 0 /\ candidate # reference
  /\ reference = 0
     \/ (candidate - reference) % SequenceSpace < SequenceSpace \div 2

NextSequence(s) == IF s = SequenceSpace - 1 THEN 1 ELSE s + 1

Distance(from, to) == (to - from) % SequenceSpace

\* Bound: no job falls behind by half of the numbers there are.
JobsKeepUp ==
  \A t \in Trains : Distance(cursor[t], attributed) < SequenceSpace \div 2 - 2

\* Bound: the last loss of a train lies no further back than LongestLoss.
LossesFresh ==
  \A t \in Trains : dropped[t] # 0 => Distance(dropped[t], attributed) < LongestLoss

-----------------------------------------------------------------------------
(* The journal.                                                            *)

\* Mutant: an overwritten event leaves no trace.
NoTrace(e) == UNCHANGED dropped

\* The oldest event gives way and its number is kept for its train.
Drop(e) == dropped' = [dropped EXCEPT ![e.train] = e.sequence]

\* TrainSensorJournalRecord.
Record(e) ==
  IF Len(entries) < Capacity
  THEN entries' = Append(entries, e) /\ UNCHANGED dropped
  ELSE entries' = Append(Tail(entries), e) /\ Drop(Head(entries))

PageOf(new) == SubSeq(new, 1, IF Len(new) < BatchSize THEN Len(new) ELSE BatchSize)

\* TrainSensorJournalQuery: a page of a train's events after a number.
Query(t, after) ==
  LET new == Kept(entries, {e \in Events : e.train = t /\ After(e.sequence, after)})
  IN  [lost   |-> dropped[t] # 0 /\ After(dropped[t], after),
       events |-> PageOf(new),
       more   |-> Len(new) > BatchSize]

-----------------------------------------------------------------------------
(* The server.                                                             *)

\* A new occupation: the sensor was low, or a report from low to high shows
\* that the report of a release has been lost.
Rising(s, old, new) == new = 1 /\ (s \notin high \/ old = 0)

\* The event goes to the train that owns the sensor.
Attribute(t) ==
  /\ JobsKeepUp /\ LossesFresh
  /\ attributed' = NextSequence(attributed)
  /\ Record([train |-> t, sequence |-> NextSequence(attributed)])
  /\ unread' = [unread EXCEPT ![t] = Append(@, NextSequence(attributed))]

\* Nobody owns the sensor, or the clock or the reservations did not answer.
Unattributed == UNCHANGED <<attributed, entries, dropped, unread>>

SensorReport(s, old, new) ==
  /\ high' = IF new = 1 THEN high \cup {s} ELSE high \ {s}
  /\ IF Rising(s, old, new)
     THEN Unattributed \/ \E t \in Trains : Attribute(t)
     ELSE UNCHANGED <<attributed, entries, dropped, unread>>
  /\ UNCHANGED cursor

-----------------------------------------------------------------------------
(* The jobs.                                                               *)

\* drain_sensor_journal reads a page and takes its events in turn; it may
\* leave the rest of the page for the next time.
Drain(t) ==
  LET page == Query(t, cursor[t])
  IN  /\ ~page.lost
      /\ \E n \in 1 .. Len(page.events) :
           /\ cursor' = [cursor EXCEPT ![t] = page.events[n].sequence]
           /\ unread' = [unread EXCEPT ![t] =
                           Without(@, {page.events[i].sequence : i \in 1 .. n})]
      /\ UNCHANGED <<high, attributed, entries, dropped>>

\* A launch, and a job that starts anew, reads from the present on.
Baseline(t) ==
  /\ cursor' = [cursor EXCEPT ![t] = attributed]
  /\ unread' = [unread EXCEPT ![t] = <<>>]
  /\ UNCHANGED <<high, attributed, entries, dropped>>

Next ==
  \/ \E s \in Sensors, old, new \in {0, 1} : SensorReport(s, old, new)
  \/ \E t \in Trains : Drain(t) \/ Baseline(t)

Spec == Init /\ [][Next]_vars

\* The dispatcher drains the journal of a running job in every pass.
Fairness == \A t \in Trains : WF_vars(Drain(t))

LiveSpec == Spec /\ Fairness

-----------------------------------------------------------------------------
(* Correctness.                                                            *)

TypeOK ==
  /\ high \subseteq Sensors
  /\ attributed \in Numbers
  /\ entries \in Seq(Events) /\ Len(entries) <= Capacity
  /\ dropped \in [Trains -> Numbers]
  /\ cursor \in [Trains -> Numbers]
  /\ unread \in [Trains -> Seq(Numbers)]

Least(a, b) == IF a < b THEN a ELSE b

\* No event is lost silently: unless a page reports a loss, it holds the
\* oldest events its job has not seen, in order and without a gap, and says
\* whether there are more (and all state has its type).
NothingLostSilently ==
  TypeOK /\ \A t \in Trains :
    LET page == Query(t, cursor[t])
    IN  ~page.lost =>
          /\ [i \in DOMAIN page.events |-> page.events[i].sequence]
               = SubSeq(unread[t], 1, Least(BatchSize, Len(unread[t])))
          /\ page.more <=> Len(unread[t]) > BatchSize

\* A loss is only reported when there was one: the oldest event the job has
\* not seen is no longer in the journal.
LossesReal ==
  \A t \in Trains :
    Query(t, cursor[t]).lost =>
      /\ unread[t] # <<>>
      /\ \A i \in DOMAIN entries : entries[i].sequence # Head(unread[t])

Unread(t, q) == \E i \in DOMAIN unread[t] : unread[t][i] = q

\* Every event reaches the job it is for, or the job learns of the loss,
\* however fast the ring fills: again and again a train has nothing unread or
\* is told of a loss, or else the oldest of its unread events is read.
Caught(t) == unread[t] = <<>> \/ Query(t, cursor[t]).lost
ReadsOldest(t) == ~Caught(t) /\ \E q \in {Head(unread[t])} : ~Unread(t, q)'
EventsArrive == \A t \in Trains : []<>Caught(t) \/ []<><<ReadsOldest(t)>>_vars
=============================================================================
