--------------------------- MODULE TurnoutQueues ---------------------------
(***************************************************************************)
(* What conflict zones promise the trains: every zone (a turnout or a pair *)
(* of coupled turnouts) has one waiting line and at most one holder.  A    *)
(* train only ever joins a line at its end, only the train at the front is *)
(* let in, a stage of several zones is taken in one step, and when control *)
(* is given up the zone stays closed for a while before the next train.    *)
(***************************************************************************)
EXTENDS Sequences, Integers

CONSTANTS Zones, Trains, NoTrain

VARIABLES
  line,    \* who waits for the zone, first come first
  holder,  \* who controls it
  closed   \* nobody is let in until it reopens

Init ==
  /\ line   = [z \in Zones |-> <<>>]
  /\ holder = [z \in Zones |-> NoTrain]
  /\ closed = [z \in Zones |-> FALSE]

InFront(z, t) ==
  /\ holder[z] = NoTrain /\ ~closed[z]
  /\ line[z] # <<>> /\ Head(line[z]) = t

\* A line that names nobody twice, without t.
Without(s, t) ==
  IF \A i \in 1 .. Len(s) : s[i] # t THEN s
  ELSE LET at == CHOOSE i \in 1 .. Len(s) : s[i] = t
       IN  [i \in 1 .. (Len(s) - 1) |-> s[IF i < at THEN i ELSE i + 1]]

Changed(f, g) == {z \in Zones : f[z] # g[z]}

\* A train leaves some lines and joins some at the end; control it gives up,
\* as holder or as the front of a line, closes the zone.
Requeue(t) ==
  /\ \A z \in Zones :
       /\ line'[z] \in {line[z], Without(line[z], t), Append(Without(line[z], t), t)}
       /\ holder'[z] # holder[z] => holder[z] = t /\ holder'[z] = NoTrain
       /\ closed[z] => closed'[z]
       /\ holder'[z] # holder[z] \/ (InFront(z, t) /\ line'[z] # line[z]) => closed'[z]
       /\ closed'[z] /\ ~closed[z] => holder'[z] # holder[z] \/ InFront(z, t)

\* The front train of every zone of a set takes them all.
Take(t) ==
  LET S == Changed(holder, holder')
  IN  /\ S # {}
      /\ \A z \in S : InFront(z, t)
      /\ line'   = [z \in Zones |-> IF z \in S THEN Tail(line[z]) ELSE line[z]]
      /\ holder' = [z \in Zones |-> IF z \in S THEN t ELSE holder[z]]
      /\ UNCHANGED closed

\* The tail of the train has left: the zones close, still in its name.
Clear(t) ==
  /\ \A z \in Changed(closed, closed') : holder[z] = t /\ closed'[z]
  /\ UNCHANGED <<line, holder>>

\* Closed zones open and belong to nobody.
Reopen ==
  LET S == Changed(closed, closed')
  IN  /\ \A z \in S : ~closed'[z]
      /\ holder' = [z \in Zones |-> IF z \in S THEN NoTrain ELSE holder[z]]
      /\ UNCHANGED line

Next == Reopen \/ \E t \in Trains : Requeue(t) \/ Take(t) \/ Clear(t)

Spec == Init /\ [][Next]_<<line, holder, closed>>
=============================================================================
