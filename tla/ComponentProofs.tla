--------------------------- MODULE ComponentProofs --------------------------
(***************************************************************************)
(* Proofs about the sensor journal and the way to the screen, for every    *)
(* set of sensors, trains and places of the screen, every capacity, page   *)
(* size and range of sequence numbers that the code's assumptions allow.   *)
(* Sequence numbers wrap, so an entry is placed by how far behind the      *)
(* newest it is; the journal holds the newest ones without a gap (InOrder, *)
(* Complete), and a reader's distance to what it has read last says        *)
(* whether entries it never saw were overwritten.  What a list of chunks   *)
(* does to a place of the screen is decided by the last one that concerns  *)
(* it (Settles), or nothing is done at all (Silent): the frames in the     *)
(* pump and the difference rendered behind them join along that.  Then the *)
(* train that is followed: reports still to be read are of sensors it has  *)
(* already passed, and a route never comes back to a sensor without        *)
(* turning (TripInv).  Last the dashboard: what it has collected of a      *)
(* route is the beginning of a plan that was announced under the same      *)
(* generation, so its marker is short of what has not reported (ViewInv).  *)
(***************************************************************************)
EXTENDS Components, ListLemmas, FiniteSetTheorems

\* The journal's lists are lists.
LEMMA JournalLists ==
  ASSUME NEW line, NEW T
  PROVE  /\ Journal!Kept(line, T) = Kept(line, T)
         /\ Journal!Members(line) = Members(line)
         /\ Journal!Without(line, T) = Without(line, T)
<1>1. Journal!Members(line) = Members(line)
  BY DEF Journal!Members, Members
<1>2. \A S : Journal!Kept(line, S) = Kept(line, S)
  BY DEF Journal!Kept, Kept
<1> QED BY <1>1, <1>2 DEF Journal!Without, Without

DistAt(a, s) == IF s <= a THEN a - s ELSE a - s + SequenceSpace
AgeAt(a, s)  == IF s <= a THEN a - s ELSE a - s + SequenceSpace - 1
Dist(s) == DistAt(attributed, s)
Age(s)  == AgeAt(attributed, s)
Half == SequenceSpace \div 2

Journalled ==
  /\ \A i \in DOMAIN entries : Age(entries[i].sequence) = Len(entries) - i
  /\ attributed = 0 => entries = <<>> /\ \A t \in Trains : dropped[t] = 0

CursorsFresh == \A t \in Trains : Dist(cursor[t]) < Half

LossesKnown ==
  \A t \in Trains : dropped[t] # 0 =>
    /\ Dist(dropped[t]) <= Half
    /\ Age(dropped[t]) >= Len(entries)
    /\ Age(dropped[t]) < Age(cursor[t]) => dropped[t] \in Members(unread[t])

NoWrapYet ==
  \A t \in Trains : cursor[t] = 0 =>
    /\ \A i \in DOMAIN entries : entries[i].sequence <= attributed
    /\ \A u \in Trains : dropped[u] <= attributed

InOrder ==
  \A t \in Trains :
    /\ \A i, j \in DOMAIN unread[t] : i < j => Age(unread[t][j]) < Age(unread[t][i])
    /\ \A i \in DOMAIN unread[t] : unread[t][i] # 0 /\ Age(unread[t][i]) < Age(cursor[t])

Complete ==
  \A t \in Trains :
    /\ \A e \in Members(entries) :
         e.train = t /\ Age(e.sequence) < Age(cursor[t]) => e.sequence \in Members(unread[t])
    /\ \A u \in Members(unread[t]) :
         \/ \E e \in Members(entries) : e.train = t /\ e.sequence = u
         \/ dropped[t] # 0 /\ Age(dropped[t]) <= Age(u)

JournalInv == Journal!TypeOK /\ Journalled /\ CursorsFresh /\ LossesKnown /\ NoWrapYet /\ InOrder /\ Complete

-----------------------------------------------------------------------------
LEMMA Sizes ==
  ASSUME Journal!SensorAssumption
  PROVE  /\ SequenceSpace \in Nat /\ Half \in Nat /\ Capacity \in Nat /\ BatchSize \in Nat
         /\ Capacity > 0 /\ BatchSize > 0
         /\ 2 * Half <= SequenceSpace /\ SequenceSpace <= 2 * Half + 1
         /\ Capacity + 1 <= Half
         /\ LongestLoss \in Int /\ LongestLoss <= Half - 1
  BY SMT DEF Journal!SensorAssumption, Half

\* A difference of two numbers, modulo the size of the space.
LEMMA Differences ==
  ASSUME NEW N \in Nat, NEW x \in 0 .. N - 1, NEW y \in 0 .. N - 1
  PROVE  (y - x) % N = IF x <= y THEN y - x ELSE y - x + N
  BY SMT

LEMMA Ages ==
  ASSUME Journal!SensorAssumption, NEW a \in Journal!Numbers, NEW s \in Journal!Numbers
  PROVE  /\ DistAt(a, s) \in Nat /\ AgeAt(a, s) \in Nat
         /\ AgeAt(a, s) <= DistAt(a, s) /\ DistAt(a, s) <= AgeAt(a, s) + 1
         /\ DistAt(a, s) = Journal!Distance(s, a)
         /\ DistAt(a, a) = 0 /\ AgeAt(a, a) = 0
<1>1. SequenceSpace \in Nat
  BY Sizes
<1>2. (a - s) % SequenceSpace = IF s <= a THEN a - s ELSE a - s + SequenceSpace
  BY <1>1, Differences DEF Journal!Numbers
<1> QED BY <1>1, <1>2 DEF DistAt, AgeAt, Journal!Distance, Journal!Numbers

\* The comparison of the code, told by the ages.
LEMMA AfterByAge ==
  ASSUME Journal!SensorAssumption, NEW a \in Journal!Numbers, NEW s \in Journal!Numbers, NEW c \in Journal!Numbers,
         s # 0, DistAt(a, s) <= Half, DistAt(a, c) < Half, c = 0 => s <= a
  PROVE  Journal!After(s, c) <=> AgeAt(a, s) < AgeAt(a, c)
<1>1. (s - c) % SequenceSpace = IF c <= s THEN s - c ELSE s - c + SequenceSpace
  BY Sizes, Differences DEF Journal!Numbers
<1>2. CASE c = 0
  BY <1>2, Sizes DEF Journal!After, AgeAt, Journal!Numbers
<1>3. CASE c # 0
  <2>1. Journal!After(s, c) <=> s # c /\ (IF c <= s THEN s - c ELSE s - c + SequenceSpace) < Half
    BY <1>1, <1>3 DEF Journal!After, Half
  <2> HIDE DEF Half
  <2>2. s \in Nat /\ c \in Nat /\ a \in Nat /\ s < SequenceSpace /\ c < SequenceSpace /\ a < SequenceSpace
    BY Sizes DEF Journal!Numbers
  <2>3. 2 * Half <= SequenceSpace /\ SequenceSpace <= 2 * Half + 1 /\ Half \in Nat /\ SequenceSpace \in Nat
    BY Sizes
  <2> QED BY <1>3, <2>1, <2>2, <2>3 DEF DistAt, AgeAt
<1> QED BY <1>2, <1>3

\* Every step of the count makes the numbers one older.
LEMMA OneOlder ==
  ASSUME Journal!SensorAssumption, NEW a \in Journal!Numbers, NEW s \in Journal!Numbers,
         DistAt(a, s) < SequenceSpace - 2, s = 0 => a # SequenceSpace - 1
  PROVE  /\ Journal!NextSequence(a) \in Journal!Numbers /\ Journal!NextSequence(a) # 0 /\ Journal!NextSequence(a) # s
         /\ AgeAt(Journal!NextSequence(a), s) = AgeAt(a, s) + 1
         /\ DistAt(Journal!NextSequence(a), s) <= DistAt(a, s) + 2
         /\ AgeAt(Journal!NextSequence(a), Journal!NextSequence(a)) = 0
         /\ s <= a /\ a # SequenceSpace - 1 => s <= Journal!NextSequence(a)
  BY Sizes DEF DistAt, AgeAt, Journal!NextSequence, Journal!Numbers

LEMMA Successor ==
  ASSUME Journal!SensorAssumption, NEW a \in Journal!Numbers
  PROVE  Journal!NextSequence(a) \in Journal!Numbers /\ Journal!NextSequence(a) # 0 /\ AgeAt(Journal!NextSequence(a), Journal!NextSequence(a)) = 0
         /\ DistAt(Journal!NextSequence(a), Journal!NextSequence(a)) = 0
  BY Sizes DEF AgeAt, DistAt, Journal!NextSequence, Journal!Numbers

-----------------------------------------------------------------------------
New(t) == Kept(entries, {e \in Journal!Events : e.train = t /\ Journal!After(e.sequence, cursor[t])})
Told(t) == dropped[t] # 0 /\ Journal!After(dropped[t], cursor[t])
Key == [s \in Journal!Numbers |-> Age(s)]

LEMMA JournalKinds ==
  ASSUME Journal!SensorAssumption, Journal!TypeOK
  PROVE  /\ attributed \in Journal!Numbers /\ entries \in Seq(Journal!Events) /\ Len(entries) \in Nat
         /\ DOMAIN entries = 1 .. Len(entries) /\ Len(entries) <= Capacity
         /\ \A e \in Journal!Events : e.train \in Trains /\ e.sequence \in Journal!Numbers /\ e.sequence # 0
         /\ \A i \in 1 .. Len(entries) : entries[i] \in Journal!Events
         /\ \A t \in Trains :
              /\ dropped[t] \in Journal!Numbers /\ cursor[t] \in Journal!Numbers
              /\ unread[t] \in Seq(Journal!Numbers) /\ Len(unread[t]) \in Nat
              /\ DOMAIN unread[t] = 1 .. Len(unread[t])
              /\ \A i \in 1 .. Len(unread[t]) : unread[t][i] \in Journal!Numbers
         /\ Key \in [Journal!Numbers -> Int]
         /\ \A s \in Journal!Numbers : Key[s] = Age(s) /\ Age(s) \in Nat /\ Dist(s) \in Nat
                               /\ Age(s) <= Dist(s) /\ Dist(s) <= Age(s) + 1
         /\ 0 \in Journal!Numbers
<1>1. /\ attributed \in Journal!Numbers /\ entries \in Seq(Journal!Events) /\ Len(entries) \in Nat
      /\ DOMAIN entries = 1 .. Len(entries) /\ Len(entries) <= Capacity
      /\ \A i \in 1 .. Len(entries) : entries[i] \in Journal!Events
  BY LenProperties, ElementOfSeq DEF Journal!TypeOK
<1>2. \A e \in Journal!Events : e.train \in Trains /\ e.sequence \in Journal!Numbers /\ e.sequence # 0
  BY DEF Journal!Events
<1>3. \A t \in Trains :
        /\ dropped[t] \in Journal!Numbers /\ cursor[t] \in Journal!Numbers
        /\ unread[t] \in Seq(Journal!Numbers) /\ Len(unread[t]) \in Nat
        /\ DOMAIN unread[t] = 1 .. Len(unread[t])
        /\ \A i \in 1 .. Len(unread[t]) : unread[t][i] \in Journal!Numbers
  BY LenProperties, ElementOfSeq DEF Journal!TypeOK
<1>4. \A s \in Journal!Numbers : Age(s) \in Nat /\ Dist(s) \in Nat
                         /\ Age(s) <= Dist(s) /\ Dist(s) <= Age(s) + 1
  BY <1>1, Ages DEF Age, Dist
<1>5. Key \in [Journal!Numbers -> Int] /\ \A s \in Journal!Numbers : Key[s] = Age(s)
  BY <1>4 DEF Key
<1>6. 0 \in Journal!Numbers
  BY Sizes DEF Journal!Numbers
<1> QED BY <1>1, <1>2, <1>3, <1>4, <1>5, <1>6

\* What is in the journal is young enough to compare.
LEMMA Young ==
  ASSUME Journal!SensorAssumption, JournalInv
  PROVE  /\ \A i \in 1 .. Len(entries) : Age(entries[i].sequence) = Len(entries) - i
                                          /\ Dist(entries[i].sequence) <= Half
         /\ \A t \in Trains, i \in 1 .. Len(entries) :
              Journal!After(entries[i].sequence, cursor[t]) <=> Age(entries[i].sequence) < Age(cursor[t])
         /\ \A t \in Trains : Told(t) <=> dropped[t] # 0 /\ Age(dropped[t]) < Age(cursor[t])
<1> USE JournalKinds, Sizes DEF JournalInv
<1>1. \A i \in 1 .. Len(entries) : /\ entries[i].sequence \in Journal!Numbers /\ entries[i].sequence # 0
                                   /\ Age(entries[i].sequence) = Len(entries) - i
  BY DEF Journalled
<1>2. \A i \in 1 .. Len(entries) : Dist(entries[i].sequence) <= Half
  <2> TAKE i \in 1 .. Len(entries)
  <2>1. Dist(entries[i].sequence) <= Age(entries[i].sequence) + 1
    BY <1>1
  <2>2. Dist(entries[i].sequence) \in Nat
    BY <1>1
  <2>4. Age(entries[i].sequence) = Len(entries) - i /\ Len(entries) \in Nat /\ Len(entries) <= Capacity
    BY <1>1
  <2> HIDE DEF JournalInv
  <2>3. Capacity + 1 <= Half /\ Capacity \in Nat /\ Half \in Nat /\ Age(entries[i].sequence) \in Nat
    BY <1>1
  <2> QED BY <2>1, <2>2, <2>3, <2>4
<1>3. ASSUME NEW t \in Trains, NEW i \in 1 .. Len(entries)
      PROVE  Journal!After(entries[i].sequence, cursor[t]) <=> Age(entries[i].sequence) < Age(cursor[t])
  <2>1. cursor[t] \in Journal!Numbers /\ Dist(cursor[t]) < Half
    BY DEF CursorsFresh
  <2>2. cursor[t] = 0 => entries[i].sequence <= attributed
    BY DEF NoWrapYet
  <2> QED BY <1>1, <1>2, <2>1, <2>2, AfterByAge DEF Dist, Age
<1>4. ASSUME NEW t \in Trains
      PROVE  Told(t) <=> dropped[t] # 0 /\ Age(dropped[t]) < Age(cursor[t])
  <2>1. cursor[t] \in Journal!Numbers /\ Dist(cursor[t]) < Half /\ dropped[t] \in Journal!Numbers
    BY DEF CursorsFresh
  <2>2. cursor[t] = 0 => dropped[t] <= attributed
    BY DEF NoWrapYet
  <2>3. CASE dropped[t] = 0
    BY <2>3 DEF Told
  <2>4. CASE dropped[t] # 0
    <3>1. Dist(dropped[t]) <= Half
      BY <2>4 DEF LossesKnown
    <3>2. Journal!After(dropped[t], cursor[t]) <=> Age(dropped[t]) < Age(cursor[t])
      BY <2>1, <2>2, <2>4, <3>1, AfterByAge DEF Dist, Age
    <3> QED BY <2>4, <3>2 DEF Told
  <2> QED BY <2>3, <2>4
<1> QED BY <1>1, <1>2, <1>3, <1>4

\* The page is cut from a line of events of which none is newer than the next.
LEMMA NewInOrder ==
  ASSUME Journal!SensorAssumption, JournalInv, NEW t \in Trains
  PROVE  /\ New(t) \in Seq(Journal!Events) /\ Len(New(t)) \in Nat
         /\ \A i \in 1 .. Len(New(t)) : New(t)[i] \in Journal!Events
         /\ \A x : x \in Members(New(t)) <=>
              x \in Members(entries) /\ x.train = t /\ Age(x.sequence) < Age(cursor[t])
         /\ \A i, j \in 1 .. Len(New(t)) : i < j => Age(New(t)[j].sequence) < Age(New(t)[i].sequence)
<1> DEFINE T == {e \in Journal!Events : e.train = t /\ Journal!After(e.sequence, cursor[t])}
<1>1. entries \in Seq(Journal!Events)
  BY JournalKinds DEF JournalInv
<1>2. New(t) \in Seq(Journal!Events) /\ \A x : x \in Members(New(t)) <=> x \in Members(entries) /\ x \in T
  BY <1>1, KeptLine DEF New
<1>3. Len(New(t)) \in Nat /\ \A i \in 1 .. Len(New(t)) : New(t)[i] \in Journal!Events
  BY <1>2, LenProperties, ElementOfSeq
<1>4. \A x \in Members(entries) : x \in T <=> x.train = t /\ Age(x.sequence) < Age(cursor[t])
  <2> TAKE x \in Members(entries)
  <2>1. PICK i \in 1 .. Len(entries) : x = entries[i]
    BY <1>1, MembersPos
  <2>2. x \in Journal!Events /\ (Journal!After(x.sequence, cursor[t]) <=> Age(x.sequence) < Age(cursor[t]))
    BY <2>1, Young, JournalKinds DEF JournalInv
  <2> QED BY <2>2
<1> DEFINE R == {p \in Journal!Events \X Journal!Events : Age(p[2].sequence) < Age(p[1].sequence)}
<1>5. \A i, j \in 1 .. Len(entries) : i < j => <<entries[i], entries[j]>> \in R
  <2> SUFFICES ASSUME NEW i \in 1 .. Len(entries), NEW j \in 1 .. Len(entries), i < j
               PROVE  <<entries[i], entries[j]>> \in R
    OBVIOUS
  <2>1. entries[i] \in Journal!Events /\ entries[j] \in Journal!Events /\ Len(entries) \in Nat
    BY JournalKinds DEF JournalInv
  <2>2. Age(entries[i].sequence) = Len(entries) - i /\ Age(entries[j].sequence) = Len(entries) - j
    BY Young
  <2>3. Age(entries[j].sequence) < Age(entries[i].sequence)
    BY <2>1, <2>2
  <2> QED BY <2>1, <2>3
<1>6. \A i, j \in 1 .. Len(New(t)) : i < j => <<New(t)[i], New(t)[j]>> \in R
  <2> HIDE DEF R, T
  <2> QED BY <1>1, <1>5, KeptOrdered DEF New, T
<1>7. \A i, j \in 1 .. Len(New(t)) : i < j => Age(New(t)[j].sequence) < Age(New(t)[i].sequence)
  BY <1>6
<1> HIDE DEF T
<1> QED BY <1>2, <1>3, <1>4, <1>7

Sequences(line) == [i \in 1 .. Len(line) |-> line[i].sequence]

\* Unless a loss is told, what a train's job has not read is what the page is
\* cut from.
LEMMA NewIsUnread ==
  ASSUME Journal!SensorAssumption, JournalInv, NEW t \in Trains, ~Told(t)
  PROVE  Sequences(New(t)) = unread[t]
<1> DEFINE p == Sequences(New(t))
           u == unread[t]
<1>1. /\ u \in Seq(Journal!Numbers) /\ Len(u) \in Nat /\ DOMAIN u = 1 .. Len(u)
      /\ Key \in [Journal!Numbers -> Int] /\ \A s \in Journal!Numbers : Key[s] = Age(s)
      /\ entries \in Seq(Journal!Events)
  BY JournalKinds DEF JournalInv
<1>2. /\ Len(New(t)) \in Nat
      /\ \A i \in 1 .. Len(New(t)) : New(t)[i] \in Journal!Events /\ New(t)[i].sequence \in Journal!Numbers
  BY NewInOrder, JournalKinds DEF JournalInv
<1>3. /\ p \in Seq(Journal!Numbers) /\ Len(p) = Len(New(t)) /\ DOMAIN p = 1 .. Len(p)
      /\ \A i \in 1 .. Len(New(t)) : p[i] = New(t)[i].sequence
  BY <1>2 DEF Sequences
<1>4. \A i, j \in 1 .. Len(p) : i < j => Key[p[j]] < Key[p[i]]
  <2> SUFFICES ASSUME NEW i \in 1 .. Len(p), NEW j \in 1 .. Len(p), i < j
               PROVE  Key[p[j]] < Key[p[i]]
    OBVIOUS
  <2> HIDE DEF p
  <2>1. i \in 1 .. Len(New(t)) /\ j \in 1 .. Len(New(t))
    BY <1>3
  <2>2. Age(New(t)[j].sequence) < Age(New(t)[i].sequence)
    BY <2>1, NewInOrder
  <2>3. p[i] = New(t)[i].sequence /\ p[j] = New(t)[j].sequence /\ p[i] \in Journal!Numbers /\ p[j] \in Journal!Numbers
    BY <1>2, <1>3, <2>1
  <2> QED BY <1>1, <2>2, <2>3
<1>5. \A i, j \in 1 .. Len(u) : i < j => Key[u[j]] < Key[u[i]]
  <2>1. \A i, j \in 1 .. Len(u) : i < j => Age(u[j]) < Age(u[i])
    BY <1>1 DEF JournalInv, InOrder
  <2>2. \A i \in 1 .. Len(u) : u[i] \in Journal!Numbers
    BY <1>1, ElementOfSeq
  <2> QED BY <1>1, <2>1, <2>2
<1>6. ASSUME NEW x, x \in Members(p) PROVE x \in Members(u)
  <2>1. PICK i \in 1 .. Len(p) : p[i] = x
    BY <1>3, <1>6, MembersPos
  <2>2. New(t)[i] \in Members(New(t)) /\ x = New(t)[i].sequence
    BY <1>3, <2>1, NewInOrder, MembersPos
  <2>3. New(t)[i] \in Members(entries) /\ New(t)[i].train = t /\ Age(x) < Age(cursor[t])
    BY <2>2, NewInOrder
  <2> QED BY <2>2, <2>3 DEF JournalInv, Complete
<1>7. ASSUME NEW x, x \in Members(u) PROVE x \in Members(p)
  <2>1. PICK i \in 1 .. Len(u) : u[i] = x
    BY <1>1, <1>7, MembersPos
  <2>2. x \in Journal!Numbers /\ Age(x) < Age(cursor[t])
    BY <1>1, <2>1, ElementOfSeq DEF JournalInv, InOrder
  <2>3. ~(dropped[t] # 0 /\ Age(dropped[t]) <= Age(x))
    <3> SUFFICES ASSUME dropped[t] # 0, Age(dropped[t]) <= Age(x) PROVE FALSE
      OBVIOUS
    <3>1. Age(dropped[t]) \in Nat /\ Age(x) \in Nat /\ Age(cursor[t]) \in Nat
      BY <2>2, JournalKinds DEF JournalInv
    <3> QED BY <2>2, <3>1, Young
  <2>4. PICK e \in Members(entries) : e.train = t /\ e.sequence = x
    BY <1>7, <2>3 DEF JournalInv, Complete
  <2>5. e \in Members(New(t))
    BY <2>2, <2>4, NewInOrder
  <2>6. PICK j \in 1 .. Len(New(t)) : New(t)[j] = e
    BY <2>5, NewInOrder, MembersPos
  <2>7. j \in 1 .. Len(p) /\ p[j] = x
    BY <1>3, <2>4, <2>6
  <2> QED BY <1>3, <2>7, MembersPos
<1>8. \A x : x \in Members(p) <=> x \in Members(u)
  BY <1>6, <1>7
<1> HIDE DEF p, u
<1>9. p = u
  BY <1>1, <1>3, <1>4, <1>5, <1>8, SameLine
<1> QED BY <1>9 DEF p, u

LEMMA PageIsPrefix ==
  ASSUME Journal!SensorAssumption, JournalInv, NEW t \in Trains, ~Told(t)
  PROVE  /\ Journal!PageOf(New(t)) \in Seq(Journal!Events)
         /\ Len(Journal!PageOf(New(t))) = Journal!Least(BatchSize, Len(unread[t]))
         /\ Len(Journal!PageOf(New(t))) \in Nat /\ Len(Journal!PageOf(New(t))) <= Len(unread[t])
         /\ \A i \in 1 .. Len(Journal!PageOf(New(t))) :
              Journal!PageOf(New(t))[i] = New(t)[i] /\ Journal!PageOf(New(t))[i].sequence = unread[t][i]
         /\ Len(New(t)) = Len(unread[t])
<1> DEFINE m == IF Len(New(t)) < BatchSize THEN Len(New(t)) ELSE BatchSize
<1>1. New(t) \in Seq(Journal!Events) /\ Len(New(t)) \in Nat /\ BatchSize \in Nat
  BY NewInOrder, Sizes
<1>2. m \in 0 .. Len(New(t))
  BY <1>1
<1>3. Len(unread[t]) = Len(New(t)) /\ \A i \in 1 .. Len(New(t)) : unread[t][i] = New(t)[i].sequence
  <2>1. /\ DOMAIN unread[t] = 1 .. Len(New(t))
        /\ \A i \in 1 .. Len(New(t)) : unread[t][i] = New(t)[i].sequence
    BY NewIsUnread DEF Sequences
  <2>2. DOMAIN unread[t] = 1 .. Len(unread[t]) /\ Len(unread[t]) \in Nat
    BY JournalKinds DEF JournalInv
  <2> QED BY <1>1, <2>1, <2>2
<1>4. m = Journal!Least(BatchSize, Len(unread[t]))
  BY <1>1, <1>3 DEF Journal!Least
<1>5. Journal!PageOf(New(t)) = SubSeq(New(t), 1, m)
  BY DEF Journal!PageOf
<1> HIDE DEF m
<1>6. /\ Journal!PageOf(New(t)) \in Seq(Journal!Events) /\ Len(Journal!PageOf(New(t))) = m
      /\ \A i \in 1 .. m : Journal!PageOf(New(t))[i] = New(t)[i]
  BY <1>1, <1>2, <1>5, SubSeqProperties
<1> QED BY <1>1, <1>2, <1>3, <1>4, <1>6

LEMMA PagesAreExact ==
  ASSUME Journal!SensorAssumption, JournalInv
  PROVE  Journal!NothingLostSilently
<1> SUFFICES ASSUME NEW t \in Trains, ~Journal!Query(t, cursor[t]).lost
             PROVE  LET page == Journal!Query(t, cursor[t])
                    IN  /\ [i \in DOMAIN page.events |-> page.events[i].sequence]
                             = SubSeq(unread[t], 1, Journal!Least(BatchSize, Len(unread[t])))
                        /\ page.more <=> Len(unread[t]) > BatchSize
  BY DEF Journal!NothingLostSilently, JournalInv
<1>1. /\ Journal!Query(t, cursor[t]).events = Journal!PageOf(New(t))
      /\ Journal!Query(t, cursor[t]).more = (Len(New(t)) > BatchSize)
      /\ ~Told(t)
  BY JournalLists DEF Journal!Query, New, Told
<1> DEFINE p == [i \in DOMAIN Journal!PageOf(New(t)) |-> Journal!PageOf(New(t))[i].sequence]
           m == Journal!Least(BatchSize, Len(unread[t]))
           r == SubSeq(unread[t], 1, m)
<1>2. /\ unread[t] \in Seq(Journal!Numbers) /\ Len(unread[t]) \in Nat
  BY JournalKinds DEF JournalInv
<1>3. /\ Len(Journal!PageOf(New(t))) = m /\ m \in 0 .. Len(unread[t])
      /\ DOMAIN Journal!PageOf(New(t)) = 1 .. m
      /\ \A i \in 1 .. m : Journal!PageOf(New(t))[i].sequence = unread[t][i]
  BY <1>1, PageIsPrefix, LenProperties
<1> HIDE DEF m
<1>4. r \in Seq(Journal!Numbers) /\ Len(r) = m /\ \A i \in 1 .. m : r[i] = unread[t][i]
  BY <1>2, <1>3, SubSeqProperties
<1>5. p = [i \in 1 .. m |-> unread[t][i]]
  BY <1>3
<1>6. DOMAIN r = 1 .. m /\ r = [i \in 1 .. m |-> r[i]]
  BY <1>4, LenProperties
<1>7. p = r
  BY <1>4, <1>5, <1>6
<1>8. (Len(New(t)) > BatchSize) <=> Len(unread[t]) > BatchSize
  BY <1>1, PageIsPrefix
<1> QED BY <1>1, <1>7, <1>8 DEF m

LEMMA LossesAreReal ==
  ASSUME Journal!SensorAssumption, JournalInv
  PROVE  Journal!LossesReal
<1> SUFFICES ASSUME NEW t \in Trains, Journal!Query(t, cursor[t]).lost
             PROVE  /\ unread[t] # <<>>
                    /\ \A i \in DOMAIN entries : entries[i].sequence # Head(unread[t])
  BY DEF Journal!LossesReal
<1> DEFINE u == unread[t]
           h == u[1]
<1>1. Told(t)
  BY DEF Journal!Query, Told
<1>2. dropped[t] # 0 /\ Age(dropped[t]) < Age(cursor[t]) /\ Age(dropped[t]) >= Len(entries)
  BY <1>1, Young DEF JournalInv, LossesKnown
<1>3. dropped[t] \in Members(u)
  BY <1>2 DEF JournalInv, LossesKnown
<1>4. u \in Seq(Journal!Numbers) /\ Len(u) \in Nat /\ DOMAIN u = 1 .. Len(u)
  BY JournalKinds DEF JournalInv
<1>5. PICK k \in 1 .. Len(u) : u[k] = dropped[t]
  BY <1>3, <1>4, MembersPos
<1>6. 1 \in 1 .. Len(u) /\ u # <<>> /\ Head(u) = h /\ h \in Journal!Numbers /\ u[k] \in Journal!Numbers
  BY <1>4, <1>5, ElementOfSeq
<1>7. k = 1 \/ 1 < k
  BY <1>4
<1>8. k = 1 \/ Age(u[k]) < Age(h)
  BY <1>4, <1>5, <1>6, <1>7 DEF JournalInv, InOrder
<1>9. Age(u[k]) \in Nat /\ Age(h) \in Nat /\ Len(entries) \in Nat /\ DOMAIN entries = 1 .. Len(entries)
  BY <1>6, JournalKinds DEF JournalInv
<1> HIDE DEF h
<1>10. Age(h) >= Len(entries)
  BY <1>2, <1>5, <1>8, <1>9 DEF h
<1>11. ASSUME NEW i \in DOMAIN entries PROVE entries[i].sequence # h
  <2>1. Age(entries[i].sequence) = Len(entries) - i /\ i \in 1 .. Len(entries)
    BY <1>9, Young
  <2> QED BY <1>9, <1>10, <2>1
<1> QED BY <1>6, <1>11

-----------------------------------------------------------------------------
LEMMA JournalInvInit == Journal!SensorAssumption /\ Journal!Init => JournalInv
<1> SUFFICES ASSUME Journal!SensorAssumption, Journal!Init PROVE JournalInv
  OBVIOUS
<1>1. 0 \in Journal!Numbers /\ Half > 0 /\ Half \in Nat
  BY Sizes DEF Journal!Numbers
<1>2. DistAt(0, 0) = 0 /\ AgeAt(0, 0) = 0
  BY <1>1, Ages
<1>3. Journal!TypeOK
  BY <1>1, Sizes DEF Journal!Init, Journal!TypeOK
<1>4. entries = <<>> /\ attributed = 0 /\ \A t \in Trains : unread[t] = <<>> /\ cursor[t] = 0 /\ dropped[t] = 0
  BY DEF Journal!Init
<1>5. Journalled /\ CursorsFresh /\ LossesKnown
  BY <1>1, <1>2, <1>4 DEF Journalled, CursorsFresh, LossesKnown, Dist
<1>6. NoWrapYet /\ InOrder /\ Complete
  BY <1>1, <1>4 DEF NoWrapYet, InOrder, Complete, Members
<1> QED BY <1>3, <1>5, <1>6 DEF JournalInv

LEMMA BaselineKeeps ==
  ASSUME Journal!SensorAssumption, JournalInv, NEW t \in Trains, Journal!Baseline(t)
  PROVE  JournalInv'
<1> USE JournalKinds DEF JournalInv
<1>1. /\ cursor' = [cursor EXCEPT ![t] = attributed] /\ unread' = [unread EXCEPT ![t] = <<>>]
      /\ UNCHANGED <<high, attributed, entries, dropped>>
  BY DEF Journal!Baseline
<1>2. Journal!TypeOK'
  BY <1>1 DEF Journal!TypeOK
<1>3. /\ \A s : Age(s)' = Age(s) /\ Dist(s)' = Dist(s)
      /\ Half \in Nat /\ Half > 0 /\ Age(attributed) = 0 /\ Dist(attributed) = 0
  <2>1. \A s : Age(s)' = Age(s) /\ Dist(s)' = Dist(s)
    BY <1>1 DEF Age, Dist, AgeAt, DistAt
  <2>2. Half \in Nat /\ Half > 0
    BY Sizes
  <2>3. Age(attributed) = 0 /\ Dist(attributed) = 0
    BY Ages DEF Age, Dist
  <2> QED BY <2>1, <2>2, <2>3
<1>4. /\ cursor'[t] = attributed /\ unread'[t] = <<>>
      /\ \A x \in Trains \ {t} : cursor'[x] = cursor[x] /\ unread'[x] = unread[x]
  BY <1>1 DEF Journal!TypeOK
<1>5. Journalled'
  BY <1>1, <1>3 DEF Journalled
<1>6. CursorsFresh'
  BY <1>3, <1>4 DEF CursorsFresh
<1>7. LossesKnown'
  <2> SUFFICES ASSUME NEW x \in Trains, dropped[x] # 0
               PROVE  /\ Dist(dropped[x]) <= Half /\ Age(dropped[x]) >= Len(entries)
                      /\ Age(dropped[x]) < Age(cursor'[x]) => dropped[x] \in Members(unread'[x])
    BY <1>1, <1>3 DEF LossesKnown
  <2>1. CASE x = t
    <3>1. Age(dropped[x]) \in Nat /\ Age(cursor'[x]) = 0
      BY <1>3, <1>4, <2>1
    <3> QED BY <3>1 DEF LossesKnown
  <2> QED BY <1>4, <2>1 DEF LossesKnown
<1>8. NoWrapYet'
  <2> SUFFICES ASSUME NEW x \in Trains, cursor'[x] = 0
               PROVE  /\ \A i \in DOMAIN entries : entries[i].sequence <= attributed
                      /\ \A u \in Trains : dropped[u] <= attributed
    BY <1>1 DEF NoWrapYet
  <2>1. CASE x = t
    BY <1>4, <2>1 DEF Journalled
  <2> QED BY <1>4, <2>1 DEF NoWrapYet
<1>9. InOrder'
  <2> SUFFICES ASSUME NEW x \in Trains
               PROVE  /\ \A i, j \in DOMAIN unread'[x] : i < j => Age(unread'[x][j]) < Age(unread'[x][i])
                      /\ \A i \in DOMAIN unread'[x] : unread'[x][i] # 0 /\ Age(unread'[x][i]) < Age(cursor'[x])
    BY <1>3 DEF InOrder
  <2> QED BY <1>4 DEF InOrder
<1>10. Complete'
  <2> SUFFICES ASSUME NEW x \in Trains
               PROVE  /\ \A e \in Members(entries) :
                           e.train = x /\ Age(e.sequence) < Age(cursor'[x]) => e.sequence \in Members(unread'[x])
                      /\ \A u \in Members(unread'[x]) :
                           \/ \E e \in Members(entries) : e.train = x /\ e.sequence = u
                           \/ dropped[x] # 0 /\ Age(dropped[x]) <= Age(u)
    BY <1>1, <1>3 DEF Complete
  <2>1. CASE x = t
    <3>1. \A e \in Members(entries) : ~(Age(e.sequence) < Age(cursor'[x]))
      <4> TAKE e \in Members(entries)
      <4>1. e.sequence \in Journal!Numbers
        <5>1. PICK i \in DOMAIN entries : e = entries[i]
          BY DEF Members
        <5>2. entries[i] \in Journal!Events
          OBVIOUS
        <5> QED BY <5>1, <5>2 DEF Journal!Events
      <4>2. Age(e.sequence) \in Nat /\ Age(cursor'[x]) = 0
        BY <1>3, <1>4, <2>1, <4>1
      <4> QED BY <4>2
    <3>2. Members(unread'[x]) = {}
      BY <1>4, <2>1 DEF Members
    <3> QED BY <3>1, <3>2
  <2> QED BY <1>4, <2>1 DEF Complete
<1> QED BY <1>2, <1>5, <1>6, <1>7, <1>8, <1>9, <1>10

LEMMA DrainKeeps ==
  ASSUME Journal!SensorAssumption, JournalInv, NEW t \in Trains, Journal!Drain(t)
  PROVE  JournalInv'
<1> USE JournalKinds DEF JournalInv
<1> DEFINE page == Journal!Query(t, cursor[t]).events
           u == unread[t]
<1>1. ~Told(t)
  BY DEF Journal!Drain, Journal!Query, Told
<1>2. PICK n \in 1 .. Len(page) :
        /\ cursor' = [cursor EXCEPT ![t] = page[n].sequence]
        /\ unread' = [unread EXCEPT ![t] = Without(@, {page[i].sequence : i \in 1 .. n})]
  <2>1. PICK n \in 1 .. Len(page) :
          /\ cursor' = [cursor EXCEPT ![t] = page[n].sequence]
          /\ unread' = [unread EXCEPT ![t] = Journal!Without(@, {page[i].sequence : i \in 1 .. n})]
    BY DEF Journal!Drain
  <2> DEFINE T == {page[i].sequence : i \in 1 .. n}
  <2>2. Journal!Without(unread[t], T) = Without(unread[t], T)
    BY JournalLists
  <2>3. unread' = [unread EXCEPT ![t] = Journal!Without(unread[t], T)]
    BY <2>1
  <2>4. unread' = [unread EXCEPT ![t] = Without(unread[t], T)]
    <3> HIDE DEF T
    <3> QED BY <2>2, <2>3
  <2> QED BY <2>1, <2>4
<1>3. UNCHANGED <<high, attributed, entries, dropped>>
  BY DEF Journal!Drain
<1>4. /\ Len(page) \in Nat /\ Len(page) <= Len(u)
      /\ \A i \in 1 .. Len(page) : page[i] = New(t)[i] /\ page[i].sequence = u[i]
      /\ Len(New(t)) = Len(u)
  <2>1. page = Journal!PageOf(New(t))
    BY JournalLists DEF Journal!Query, New
  <2> HIDE DEF page
  <2> QED BY <1>1, <2>1, PageIsPrefix
<1> DEFINE T == {page[i].sequence : i \in 1 .. n}
           c == u[n]
           w == Without(u, T)
<1>5. /\ u \in Seq(Journal!Numbers) /\ Len(u) \in Nat /\ DOMAIN u = 1 .. Len(u)
      /\ \A i \in 1 .. Len(u) : u[i] \in Journal!Numbers /\ Age(u[i]) \in Nat
      /\ n \in 1 .. Len(u) /\ c \in Journal!Numbers /\ Age(c) \in Nat
  <2>1. /\ u \in Seq(Journal!Numbers) /\ Len(u) \in Nat /\ DOMAIN u = 1 .. Len(u)
        /\ \A i \in 1 .. Len(u) : u[i] \in Journal!Numbers /\ Age(u[i]) \in Nat
    OBVIOUS
  <2> HIDE DEF page, JournalInv
  <2>2. n \in 1 .. Len(u)
    BY <1>4, <2>1
  <2> QED BY <2>1, <2>2
<1>6. cursor' = [cursor EXCEPT ![t] = c] /\ unread' = [unread EXCEPT ![t] = w]
  BY <1>2, <1>4
<1>7. /\ \A i, j \in 1 .. Len(u) : i < j => Age(u[j]) < Age(u[i])
      /\ \A i \in 1 .. Len(u) : u[i] # 0 /\ Age(u[i]) < Age(cursor[t])
  BY <1>5 DEF InOrder
<1>8. /\ w \in Seq(Journal!Numbers) /\ \A x : x \in Members(w) <=> x \in Members(u) /\ x \notin T
  <2> HIDE DEF u, T
  <2> QED BY <1>5, WithoutLine
<1>9. \A x \in Members(u) : Age(x) < Age(c) => x \notin T
  <2> SUFFICES ASSUME NEW x \in Members(u), Age(x) < Age(c), x \in T PROVE FALSE
    OBVIOUS
  <2>1. PICK i \in 1 .. n : x = page[i].sequence
    OBVIOUS
  <2>2. i \in 1 .. Len(u) /\ x = u[i]
    <3> HIDE DEF page, u, JournalInv
    <3> QED BY <1>4, <1>5, <2>1
  <2>3. CASE i = n
    BY <1>5, <2>2, <2>3
  <2>4. CASE i # n
    <3>1. i < n
      BY <1>5, <2>1, <2>4
    <3>2. Age(c) < Age(x)
      BY <1>5, <1>7, <2>2, <3>1
    <3> QED BY <1>5, <2>2, <3>2
  <2> QED BY <2>3, <2>4
<1>10. \A x \in Members(w) : x \in Journal!Numbers /\ x # 0 /\ Age(x) < Age(c)
  <2> SUFFICES ASSUME NEW x \in Members(w) PROVE x \in Journal!Numbers /\ x # 0 /\ Age(x) < Age(c)
    OBVIOUS
  <2>1. x \in Members(u) /\ x \notin T
    BY <1>8
  <2>2. PICK i \in 1 .. Len(u) : u[i] = x
    BY <1>5, <2>1, MembersPos
  <2>3. ~(i \in 1 .. n)
    <3> HIDE DEF page, u, JournalInv
    <3>1. ASSUME i \in 1 .. n PROVE FALSE
      <4>1. i \in 1 .. Len(page) /\ page[i].sequence = x
        BY <1>4, <2>2, <3>1
      <4> QED BY <2>1, <3>1, <4>1
    <3> QED BY <3>1
  <2>4. n < i
    BY <1>5, <2>3
  <2> QED BY <1>5, <1>7, <2>2, <2>4
<1>11. /\ c # 0 /\ Age(c) < Age(cursor[t]) /\ Age(cursor[t]) \in Nat
       /\ c = New(t)[n].sequence /\ New(t)[n] \in Members(entries)
  <2>1. c # 0 /\ Age(c) < Age(cursor[t]) /\ Age(cursor[t]) \in Nat
    BY <1>5, <1>7
  <2>2. c = New(t)[n].sequence /\ n \in 1 .. Len(New(t))
    BY <1>4, <1>5
  <2>3. New(t) \in Seq(Journal!Events)
    BY NewInOrder
  <2>4. New(t)[n] \in Members(New(t))
    BY <2>2, <2>3, MembersPos
  <2> QED BY <2>1, <2>2, <2>4, NewInOrder
<1>12. Dist(c) < Half
  <2>1. PICK i \in 1 .. Len(entries) : entries[i] = New(t)[n]
    BY <1>11, MembersPos
  <2>2. Age(c) = Len(entries) - i
    BY <1>11, <2>1, Young
  <2>3. Dist(c) <= Age(c) + 1 /\ Dist(c) \in Nat
    BY <1>5
  <2>4. Len(entries) \in Nat /\ Len(entries) <= Capacity
    OBVIOUS
  <2> HIDE DEF c, JournalInv
  <2>5. Capacity + 1 <= Half /\ Capacity \in Nat /\ Half \in Nat
    BY Sizes
  <2> QED BY <2>2, <2>3, <2>4, <2>5
<1>13. \A s : Age(s)' = Age(s) /\ Dist(s)' = Dist(s)
  BY <1>3 DEF Age, Dist, AgeAt, DistAt
<1>14. /\ cursor'[t] = c /\ unread'[t] = w
       /\ \A x \in Trains \ {t} : cursor'[x] = cursor[x] /\ unread'[x] = unread[x]
  BY <1>6 DEF Journal!TypeOK
<1> HIDE DEF c, w, T, page
<1>15. Journal!TypeOK'
  BY <1>3, <1>5, <1>6, <1>8 DEF Journal!TypeOK
<1>16. Journalled'
  BY <1>3, <1>13 DEF Journalled
<1>17. CursorsFresh'
  BY <1>12, <1>13, <1>14 DEF CursorsFresh
<1>18. LossesKnown'
  <2> SUFFICES ASSUME NEW x \in Trains, dropped[x] # 0
               PROVE  /\ Dist(dropped[x]) <= Half /\ Age(dropped[x]) >= Len(entries)
                      /\ Age(dropped[x]) < Age(cursor'[x]) => dropped[x] \in Members(unread'[x])
    BY <1>3, <1>13 DEF LossesKnown
  <2>1. CASE x = t
    <3>1. ~(Age(dropped[x]) < Age(cursor[x]))
      BY <1>1, <2>1, Young
    <3>2. Age(dropped[x]) \in Nat /\ cursor'[x] = c
      BY <1>14, <2>1
    <3>3. ~(Age(dropped[x]) < Age(cursor'[x]))
      BY <1>5, <1>11, <2>1, <3>1, <3>2
    <3> QED BY <3>3 DEF LossesKnown
  <2> QED BY <1>14, <2>1 DEF LossesKnown
<1>19. NoWrapYet'
  <2> SUFFICES ASSUME NEW x \in Trains, cursor'[x] = 0
               PROVE  /\ \A i \in DOMAIN entries : entries[i].sequence <= attributed
                      /\ \A y \in Trains : dropped[y] <= attributed
    BY <1>3 DEF NoWrapYet
  <2>1. x # t
    BY <1>11, <1>14
  <2> QED BY <1>14, <2>1 DEF NoWrapYet
<1>20. \A i, j \in 1 .. Len(w) : i < j => Age(w[j]) < Age(w[i])
  <2> DEFINE R == {p \in Journal!Numbers \X Journal!Numbers : Age(p[2]) < Age(p[1])}
  <2>1. \A i, j \in 1 .. Len(u) : i < j => <<u[i], u[j]>> \in R
    BY <1>5, <1>7
  <2>2. \A i, j \in 1 .. Len(w) : i < j => <<w[i], w[j]>> \in R
    <3> HIDE DEF R
    <3> QED BY <1>5, <2>1, KeptOrdered DEF w, Without
  <2> QED BY <2>2
<1>21. InOrder'
  <2> SUFFICES ASSUME NEW x \in Trains
               PROVE  /\ \A i, j \in DOMAIN unread'[x] : i < j => Age(unread'[x][j]) < Age(unread'[x][i])
                      /\ \A i \in DOMAIN unread'[x] : unread'[x][i] # 0 /\ Age(unread'[x][i]) < Age(cursor'[x])
    BY <1>13 DEF InOrder
  <2>1. CASE x = t
    <3>1. DOMAIN w = 1 .. Len(w) /\ \A i \in 1 .. Len(w) : w[i] \in Members(w)
      BY <1>8, LenProperties, MembersPos
    <3> QED BY <1>10, <1>14, <1>20, <2>1, <3>1
  <2> QED BY <1>14, <2>1 DEF InOrder
<1>22. Complete'
  <2> SUFFICES ASSUME NEW x \in Trains
               PROVE  /\ \A e \in Members(entries) :
                           e.train = x /\ Age(e.sequence) < Age(cursor'[x]) => e.sequence \in Members(unread'[x])
                      /\ \A s \in Members(unread'[x]) :
                           \/ \E e \in Members(entries) : e.train = x /\ e.sequence = s
                           \/ dropped[x] # 0 /\ Age(dropped[x]) <= Age(s)
    BY <1>3, <1>13 DEF Complete
  <2>1. CASE x = t
    <3>1. ASSUME NEW e \in Members(entries), e.train = x, Age(e.sequence) < Age(cursor'[x])
          PROVE  e.sequence \in Members(unread'[x])
      <4>1. Age(e.sequence) < Age(c)
        BY <1>14, <2>1, <3>1
      <4>2. e.sequence \in Journal!Numbers
        <5>1. PICK i \in DOMAIN entries : e = entries[i]
          BY DEF Members
        <5>2. entries[i] \in Journal!Events
          OBVIOUS
        <5> QED BY <5>1, <5>2 DEF Journal!Events
      <4>3. Age(e.sequence) \in Nat
        BY <4>2
      <4>4. Age(e.sequence) < Age(cursor[t])
        BY <1>5, <1>11, <4>1, <4>3
      <4>5. e.sequence \in Members(u)
        BY <2>1, <3>1, <4>4 DEF Complete
      <4> QED BY <1>8, <1>9, <1>14, <2>1, <4>1, <4>5
    <3>2. \A s \in Members(unread'[x]) : s \in Members(u)
      BY <1>8, <1>14, <2>1
    <3> QED BY <2>1, <3>1, <3>2 DEF Complete
  <2> QED BY <1>14, <2>1 DEF Complete
<1> QED BY <1>15, <1>16, <1>17, <1>18, <1>19, <1>21, <1>22

\* A step of the count leaves the order of all numbers in use as it is.
LEMMA AllOlder ==
  ASSUME Journal!SensorAssumption, JournalInv, Journal!JobsKeepUp, Journal!LossesFresh, attributed' = Journal!NextSequence(attributed)
  PROVE  /\ \A i \in 1 .. Len(entries) : AgeAt(attributed', entries[i].sequence) = Age(entries[i].sequence) + 1
         /\ \A t \in Trains :
              /\ AgeAt(attributed', cursor[t]) = Age(cursor[t]) + 1
              /\ DistAt(attributed', cursor[t]) < Half
              /\ dropped[t] # 0 => /\ AgeAt(attributed', dropped[t]) = Age(dropped[t]) + 1
                                   /\ DistAt(attributed', dropped[t]) <= Half
              /\ \A i \in 1 .. Len(unread[t]) :
                   AgeAt(attributed', unread[t][i]) = Age(unread[t][i]) + 1
              /\ cursor[t] = 0 => /\ \A i \in 1 .. Len(entries) : entries[i].sequence <= attributed'
                                  /\ \A x \in Trains : dropped[x] <= attributed'
<1> USE JournalKinds DEF JournalInv
<1>1. /\ Half \in Nat /\ SequenceSpace \in Nat /\ Capacity \in Nat /\ 2 * Half <= SequenceSpace
      /\ Capacity + 1 <= Half /\ Half <= SequenceSpace - 2 /\ Capacity > 0
      /\ attributed \in Journal!Numbers
  BY Sizes
<1> DEFINE a == attributed
           b == Journal!NextSequence(a)
<1>2. \A s \in Journal!Numbers : Dist(s) < Half /\ (s = 0 => a # SequenceSpace - 1) =>
        /\ AgeAt(b, s) = Age(s) + 1 /\ DistAt(b, s) <= Dist(s) + 2
        /\ s <= a /\ a # SequenceSpace - 1 => s <= b
  <2> SUFFICES ASSUME NEW s \in Journal!Numbers, Dist(s) < Half, s = 0 => a # SequenceSpace - 1
               PROVE  /\ AgeAt(b, s) = Age(s) + 1 /\ DistAt(b, s) <= Dist(s) + 2
                      /\ s <= a /\ a # SequenceSpace - 1 => s <= b
    OBVIOUS
  <2>1. Dist(s) \in Nat
    OBVIOUS
  <2> HIDE DEF JournalInv
  <2>2. DistAt(a, s) < SequenceSpace - 2
    BY <1>1, <2>1 DEF Dist
  <2> QED BY <1>1, <2>2, OneOlder DEF Dist, Age
<1>3. ASSUME NEW t \in Trains
      PROVE  /\ AgeAt(b, cursor[t]) = Age(cursor[t]) + 1 /\ DistAt(b, cursor[t]) < Half
             /\ cursor[t] = 0 => a # SequenceSpace - 1
  <2>1. cursor[t] \in Journal!Numbers /\ Dist(cursor[t]) \in Nat
    OBVIOUS
  <2>2. Dist(cursor[t]) < Half - 2
    BY <1>1, <2>1, Ages DEF Journal!JobsKeepUp, Dist, Half
  <2> HIDE DEF JournalInv
  <2>3. cursor[t] = 0 => a # SequenceSpace - 1
    BY <1>1, <2>1, <2>2 DEF Dist, DistAt, Journal!Numbers
  <2>4. Dist(cursor[t]) < Half
    BY <1>1, <2>1, <2>2
  <2>5. AgeAt(b, cursor[t]) = Age(cursor[t]) + 1 /\ DistAt(b, cursor[t]) <= Dist(cursor[t]) + 2
    BY <1>2, <2>1, <2>3, <2>4
  <2>6. DistAt(b, cursor[t]) \in Nat
    BY <1>1, <2>1, Ages, Successor
  <2> QED BY <1>1, <2>1, <2>2, <2>3, <2>5, <2>6
<1>4. ASSUME NEW i \in 1 .. Len(entries)
      PROVE  /\ AgeAt(b, entries[i].sequence) = Age(entries[i].sequence) + 1
             /\ entries[i].sequence <= a /\ a # SequenceSpace - 1 => entries[i].sequence <= b
  <2>1. /\ entries[i].sequence \in Journal!Numbers /\ entries[i].sequence # 0
        /\ Age(entries[i].sequence) \in Nat /\ Dist(entries[i].sequence) \in Nat
        /\ Dist(entries[i].sequence) <= Age(entries[i].sequence) + 1
        /\ Age(entries[i].sequence) = Len(entries) - i /\ Len(entries) \in Nat /\ Len(entries) <= Capacity
    BY Young
  <2> HIDE DEF JournalInv
  <2>2. Dist(entries[i].sequence) < Half
    BY <1>1, <2>1
  <2> QED BY <1>2, <2>1, <2>2
<1>5. ASSUME NEW t \in Trains, dropped[t] # 0
      PROVE  /\ AgeAt(b, dropped[t]) = Age(dropped[t]) + 1 /\ DistAt(b, dropped[t]) <= Half
             /\ dropped[t] <= a /\ a # SequenceSpace - 1 => dropped[t] <= b
  <2>1. dropped[t] \in Journal!Numbers /\ Dist(dropped[t]) \in Nat
    OBVIOUS
  <2>2. Dist(dropped[t]) < LongestLoss
    BY <1>1, <1>5, <2>1, Ages DEF Journal!LossesFresh, Dist
  <2>3. LongestLoss \in Int /\ LongestLoss <= Half - 1
    BY Sizes
  <2> HIDE DEF JournalInv
  <2>4. Dist(dropped[t]) < Half /\ Dist(dropped[t]) + 2 <= Half
    BY <1>1, <2>1, <2>2, <2>3
  <2>5. AgeAt(b, dropped[t]) = Age(dropped[t]) + 1 /\ DistAt(b, dropped[t]) <= Dist(dropped[t]) + 2
        /\ (dropped[t] <= a /\ a # SequenceSpace - 1 => dropped[t] <= b)
    BY <1>2, <1>5, <2>1, <2>4
  <2>6. DistAt(b, dropped[t]) \in Nat
    BY <1>1, <2>1, Ages, Successor
  <2> QED BY <1>1, <2>1, <2>4, <2>5, <2>6
<1>6. ASSUME NEW t \in Trains, NEW i \in 1 .. Len(unread[t])
      PROVE  AgeAt(b, unread[t][i]) = Age(unread[t][i]) + 1
  <2>1. /\ unread[t][i] \in Journal!Numbers /\ Age(unread[t][i]) \in Nat /\ Dist(unread[t][i]) \in Nat
        /\ Dist(unread[t][i]) <= Age(unread[t][i]) + 1
        /\ cursor[t] \in Journal!Numbers /\ Age(cursor[t]) \in Nat /\ Dist(cursor[t]) \in Nat
        /\ Age(cursor[t]) <= Dist(cursor[t])
    OBVIOUS
  <2>2. unread[t][i] # 0 /\ Age(unread[t][i]) < Age(cursor[t]) /\ Dist(cursor[t]) < Half
    BY DEF InOrder, CursorsFresh
  <2> HIDE DEF JournalInv
  <2>3. Dist(unread[t][i]) < Half
    BY <1>1, <2>1, <2>2
  <2> QED BY <1>2, <2>1, <2>2, <2>3
<1>7. ASSUME NEW t \in Trains, cursor[t] = 0
      PROVE  /\ \A i \in 1 .. Len(entries) : entries[i].sequence <= b
             /\ \A x \in Trains : dropped[x] <= b
  <2>1. a # SequenceSpace - 1
    BY <1>3, <1>7
  <2>2. \A i \in 1 .. Len(entries) : entries[i].sequence <= b
    BY <1>4, <1>7, <2>1 DEF NoWrapYet
  <2>3. \A x \in Trains : dropped[x] <= b
    <3> TAKE x \in Trains
    <3>1. CASE dropped[x] = 0
      BY <1>1, <3>1, Successor DEF Journal!Numbers
    <3>2. CASE dropped[x] # 0
      BY <1>5, <1>7, <2>1, <3>2 DEF NoWrapYet
    <3> QED BY <3>1, <3>2
  <2> QED BY <2>2, <2>3
<1>8. attributed' = b
  OBVIOUS
<1> HIDE DEF b, JournalInv
<1>9. \A i \in 1 .. Len(entries) : AgeAt(b, entries[i].sequence) = Age(entries[i].sequence) + 1
  BY <1>4
<1> QED
  <2>1. \A t \in Trains : 
              /\ AgeAt(b, cursor[t]) = Age(cursor[t]) + 1
              /\ DistAt(b, cursor[t]) < Half
              /\ dropped[t] # 0 => /\ AgeAt(b, dropped[t]) = Age(dropped[t]) + 1
                                   /\ DistAt(b, dropped[t]) <= Half
              /\ \A i \in 1 .. Len(unread[t]) :
                   AgeAt(b, unread[t][i]) = Age(unread[t][i]) + 1
              /\ cursor[t] = 0 => /\ \A i \in 1 .. Len(entries) : entries[i].sequence <= b
                                  /\ \A x \in Trains : dropped[x] <= b
    BY <1>3, <1>5, <1>6, <1>7
  <2> QED BY <1>8, <1>9, <2>1

\* The journal after an event is recorded: the new event is the youngest, and
\* only the oldest of a full ring is gone.
LEMMA Recorded ==
  ASSUME Journal!SensorAssumption, JournalInv, Journal!JobsKeepUp, Journal!LossesFresh, NEW e \in Journal!Events,
         attributed' = Journal!NextSequence(attributed), e.sequence = Journal!NextSequence(attributed), Journal!Record(e)
  PROVE  /\ entries' \in Seq(Journal!Events) /\ Len(entries') <= Capacity /\ Len(entries') \in Nat
         /\ \A i \in 1 .. Len(entries') :
              AgeAt(attributed', entries'[i].sequence) = Len(entries') - i
         /\ \A x : x \in Members(entries') => x = e \/ x \in Members(entries)
         /\ e \in Members(entries')
         /\ \/ /\ Members(entries) \subseteq Members(entries')
               /\ Len(entries') = Len(entries) + 1
               /\ dropped' = dropped
            \/ \E h \in Members(entries) :
                 /\ \A x \in Members(entries) : x = h \/ x \in Members(entries')
                 /\ Len(entries') = Len(entries)
                 /\ Age(h.sequence) = Len(entries) - 1
                 /\ AgeAt(attributed', h.sequence) = Len(entries)
                 /\ dropped' = [dropped EXCEPT ![h.train] = h.sequence]
                 /\ DistAt(attributed', h.sequence) <= Half
<1> DEFINE a == attributed'
<1>1. /\ entries \in Seq(Journal!Events) /\ Len(entries) \in Nat /\ Len(entries) <= Capacity /\ Capacity \in Nat
      /\ Capacity > 0 /\ \A i \in 1 .. Len(entries) : entries[i] \in Journal!Events
      /\ \A x \in Journal!Events : x.sequence \in Journal!Numbers
  BY JournalKinds, Sizes DEF JournalInv
<1>2. \A i \in 1 .. Len(entries) : /\ Age(entries[i].sequence) = Len(entries) - i
                                   /\ AgeAt(a, entries[i].sequence) = Age(entries[i].sequence) + 1
  BY Young, AllOlder
<1>3. AgeAt(a, e.sequence) = 0 /\ a \in Journal!Numbers
  BY Successor, JournalKinds DEF JournalInv
<1> HIDE DEF a
<1>4. CASE Len(entries) < Capacity
  <2>1. entries' = Append(entries, e) /\ UNCHANGED dropped
    BY <1>4 DEF Journal!Record
  <2>2. /\ entries' \in Seq(Journal!Events) /\ Len(entries') = Len(entries) + 1
        /\ \A i \in 1 .. Len(entries) : entries'[i] = entries[i]
        /\ entries'[Len(entries) + 1] = e
    BY <1>1, <2>1, AppendProperties
  <2>3. \A i \in 1 .. Len(entries') : AgeAt(a, entries'[i].sequence) = Len(entries') - i
    <3> TAKE i \in 1 .. Len(entries')
    <3>1. CASE i = Len(entries) + 1
      BY <1>1, <1>3, <2>2, <3>1
    <3>2. CASE i # Len(entries) + 1
      <4>1. i \in 1 .. Len(entries)
        BY <1>1, <2>2, <3>2
      <4>2. AgeAt(a, entries[i].sequence) = Len(entries) - i + 1 /\ entries'[i] = entries[i]
        BY <1>2, <2>2, <4>1
      <4> QED BY <1>1, <2>2, <4>1, <4>2
    <3> QED BY <3>1, <3>2
  <2>4. \A x : x \in Members(entries') => x = e \/ x \in Members(entries)
    <3> SUFFICES ASSUME NEW x, x \in Members(entries'), x # e PROVE x \in Members(entries)
      OBVIOUS
    <3>1. PICK i \in 1 .. Len(entries') : entries'[i] = x
      BY <2>2, MembersPos
    <3>2. i \in 1 .. Len(entries) /\ entries[i] = x
      BY <1>1, <2>2, <3>1
    <3> QED BY <1>1, <3>2, MembersPos
  <2>5. e \in Members(entries')
    <3>1. Len(entries) + 1 \in 1 .. Len(entries')
      BY <1>1, <2>2
    <3> QED BY <2>2, <3>1, MembersPos
  <2>6. Members(entries) \subseteq Members(entries')
    <3> SUFFICES ASSUME NEW x \in Members(entries) PROVE x \in Members(entries')
      OBVIOUS
    <3>1. PICK i \in 1 .. Len(entries) : entries[i] = x
      BY <1>1, MembersPos
    <3>2. i \in 1 .. Len(entries') /\ entries'[i] = x
      BY <1>1, <2>2, <3>1
    <3> QED BY <2>2, <3>2, MembersPos
  <2>7. Len(entries') <= Capacity /\ Len(entries') \in Nat
    BY <1>1, <1>4, <2>2
  <2> QED BY <2>1, <2>2, <2>3, <2>4, <2>5, <2>6, <2>7 DEF a
<1>5. CASE ~(Len(entries) < Capacity)
  <2>0. Len(entries) = Capacity /\ entries # <<>>
    <3>1. Len(entries) = Capacity
      BY <1>1, <1>5
    <3> QED BY <1>1, <3>1
  <2> DEFINE h == entries[1]
             r == Tail(entries)
  <2>1. entries' = Append(r, e) /\ dropped' = [dropped EXCEPT ![h.train] = h.sequence]
    BY <1>5, <2>0 DEF Journal!Record, Journal!Drop
  <2>2. r \in Seq(Journal!Events) /\ Len(r) = Len(entries) - 1 /\ \A i \in 1 .. Len(r) : r[i] = entries[i + 1]
    BY <1>1, <2>0, HeadTailProperties
  <2> HIDE DEF r, h
  <2>3. /\ entries' \in Seq(Journal!Events) /\ Len(entries') = Len(r) + 1
        /\ \A i \in 1 .. Len(r) : entries'[i] = r[i]
        /\ entries'[Len(r) + 1] = e
    BY <2>1, <2>2, AppendProperties
  <2>4. /\ Len(entries') = Len(entries)
        /\ \A i \in 1 .. Len(entries) - 1 : entries'[i] = entries[i + 1]
        /\ entries'[Len(entries)] = e
    BY <1>1, <2>2, <2>3
  <2>5. \A i \in 1 .. Len(entries') : AgeAt(a, entries'[i].sequence) = Len(entries') - i
    <3> TAKE i \in 1 .. Len(entries')
    <3>1. CASE i = Len(entries)
      BY <1>1, <1>3, <2>4, <3>1
    <3>2. CASE i # Len(entries)
      <4>1. i \in 1 .. Len(entries) - 1 /\ i + 1 \in 1 .. Len(entries)
        BY <1>1, <2>4, <3>2
      <4>2. AgeAt(a, entries[i + 1].sequence) = Len(entries) - (i + 1) + 1 /\ entries'[i] = entries[i + 1]
        BY <1>2, <2>4, <4>1
      <4> QED BY <1>1, <2>4, <4>1, <4>2
    <3> QED BY <3>1, <3>2
  <2>6. \A x : x \in Members(entries') => x = e \/ x \in Members(entries)
    <3> SUFFICES ASSUME NEW x, x \in Members(entries'), x # e PROVE x \in Members(entries)
      OBVIOUS
    <3>1. PICK i \in 1 .. Len(entries') : entries'[i] = x
      BY <2>3, MembersPos
    <3>2. i \in 1 .. Len(entries) - 1 /\ i + 1 \in 1 .. Len(entries)
      BY <1>1, <2>4, <3>1
    <3>3. entries[i + 1] = x
      BY <2>4, <3>1, <3>2
    <3> QED BY <1>1, <3>2, <3>3, MembersPos
  <2>7. e \in Members(entries')
    <3>1. Len(entries) \in 1 .. Len(entries')
      BY <1>1, <2>0, <2>4
    <3> QED BY <2>3, <2>4, <3>1, MembersPos
  <2>8. 1 \in 1 .. Len(entries) /\ h \in Members(entries)
    <3>1. 1 \in 1 .. Len(entries)
      BY <1>1, <2>0
    <3> QED BY <1>1, <3>1, MembersPos DEF h
  <2>9. \A x \in Members(entries) : x = h \/ x \in Members(entries')
    <3> SUFFICES ASSUME NEW x \in Members(entries), x # h PROVE x \in Members(entries')
      OBVIOUS
    <3>1. PICK i \in 1 .. Len(entries) : entries[i] = x
      BY <1>1, MembersPos
    <3>2. i # 1
      BY <3>1 DEF h
    <3>3. i - 1 \in 1 .. Len(entries) - 1 /\ i - 1 \in 1 .. Len(entries') /\ (i - 1) + 1 = i
      BY <1>1, <2>4, <3>2
    <3>4. entries'[i - 1] = x
      BY <2>4, <3>1, <3>3
    <3> QED BY <2>3, <3>3, <3>4, MembersPos
  <2>10. Age(h.sequence) = Len(entries) - 1 /\ AgeAt(a, h.sequence) = Len(entries)
    BY <1>1, <1>2, <2>8 DEF h
  <2>11. DistAt(a, h.sequence) <= Half
    <3>1. h.sequence \in Journal!Numbers
      BY <1>1, <2>8 DEF h
    <3>2. DistAt(a, h.sequence) \in Nat /\ DistAt(a, h.sequence) <= AgeAt(a, h.sequence) + 1
      BY <1>3, <3>1, Ages
    <3>3. Capacity + 1 <= Half /\ Half \in Nat
      BY Sizes
    <3> QED BY <1>1, <2>0, <2>10, <3>2, <3>3
  <2>12. Len(entries') <= Capacity /\ Len(entries') \in Nat
    BY <1>1, <2>4
  <2> QED BY <2>1, <2>3, <2>4, <2>5, <2>6, <2>7, <2>8, <2>9, <2>10, <2>11, <2>12 DEF a
<1> QED BY <1>4, <1>5

LEMMA AttributeKeeps ==
  ASSUME Journal!SensorAssumption, JournalInv, NEW t \in Trains, Journal!Attribute(t), cursor' = cursor,
         high' \subseteq TrackSensors
  PROVE  JournalInv'
<1> USE JournalKinds DEF JournalInv
<1> DEFINE b == Journal!NextSequence(attributed)
           e == [train |-> t, sequence |-> b]
           u == unread[t]
<1>1. /\ Journal!JobsKeepUp /\ Journal!LossesFresh /\ attributed' = b /\ Journal!Record(e)
      /\ unread' = [unread EXCEPT ![t] = Append(@, b)]
  BY DEF Journal!Attribute
<1>2. b \in Journal!Numbers /\ b # 0 /\ AgeAt(b, b) = 0
  BY Successor
<1>3. e \in Journal!Events /\ e.train = t /\ e.sequence = b
  BY <1>2 DEF Journal!Events
<1> HIDE DEF b, e
<1>4. /\ entries' \in Seq(Journal!Events) /\ Len(entries') <= Capacity /\ Len(entries') \in Nat
      /\ \A i \in 1 .. Len(entries') : AgeAt(attributed', entries'[i].sequence) = Len(entries') - i
      /\ \A x : x \in Members(entries') => x = e \/ x \in Members(entries)
      /\ e \in Members(entries')
      /\ \/ /\ Members(entries) \subseteq Members(entries')
            /\ Len(entries') = Len(entries) + 1
            /\ dropped' = dropped
         \/ \E h \in Members(entries) :
              /\ \A x \in Members(entries) : x = h \/ x \in Members(entries')
              /\ Len(entries') = Len(entries)
              /\ Age(h.sequence) = Len(entries) - 1
              /\ AgeAt(attributed', h.sequence) = Len(entries)
              /\ dropped' = [dropped EXCEPT ![h.train] = h.sequence]
              /\ DistAt(attributed', h.sequence) <= Half
  BY <1>1, <1>3, Recorded DEF b
<1>5. \A s : Age(s)' = AgeAt(b, s) /\ Dist(s)' = DistAt(b, s)
  BY <1>1 DEF Age, Dist, AgeAt, DistAt
<1>6. /\ \A i \in 1 .. Len(entries) : AgeAt(b, entries[i].sequence) = Age(entries[i].sequence) + 1
      /\ \A x \in Trains :
           /\ AgeAt(b, cursor[x]) = Age(cursor[x]) + 1
           /\ DistAt(b, cursor[x]) < Half
           /\ dropped[x] # 0 => /\ AgeAt(b, dropped[x]) = Age(dropped[x]) + 1
                                /\ DistAt(b, dropped[x]) <= Half
           /\ \A i \in 1 .. Len(unread[x]) : AgeAt(b, unread[x][i]) = Age(unread[x][i]) + 1
           /\ cursor[x] = 0 => /\ \A i \in 1 .. Len(entries) : entries[i].sequence <= b
                               /\ \A y \in Trains : dropped[y] <= b
  BY <1>1, AllOlder DEF b
<1>7. \A x \in Members(entries) :
         /\ x \in Journal!Events /\ x.sequence \in Journal!Numbers /\ x.sequence # 0 /\ x.train \in Trains
         /\ Age(x.sequence) \in Nat
         /\ AgeAt(b, x.sequence) = Age(x.sequence) + 1
         /\ \A y \in Trains : cursor[y] = 0 => x.sequence <= b
  <2> TAKE x \in Members(entries)
  <2>1. PICK i \in 1 .. Len(entries) : entries[i] = x
    BY MembersPos
  <2>2. x \in Journal!Events
    BY <2>1
  <2> QED BY <1>6, <2>1, <2>2
<1>8. \A x \in Trains : \A s \in Members(unread[x]) :
         s \in Journal!Numbers /\ s # 0 /\ Age(s) \in Nat /\ AgeAt(b, s) = Age(s) + 1
  <2> TAKE x \in Trains
  <2> TAKE s \in Members(unread[x])
  <2>1. PICK i \in 1 .. Len(unread[x]) : unread[x][i] = s
    BY MembersPos
  <2> QED BY <1>6, <2>1 DEF InOrder
<1>9. /\ unread'[t] = Append(u, b) /\ \A x \in Trains \ {t} : unread'[x] = unread[x]
      /\ unread' \in [Trains -> Seq(Journal!Numbers)]
  <2>1. unread \in [Trains -> Seq(Journal!Numbers)]
    BY DEF Journal!TypeOK
  <2> QED BY <1>1, <1>2, <2>1
<1>10. /\ Append(u, b) \in Seq(Journal!Numbers) /\ Len(Append(u, b)) = Len(u) + 1 /\ Len(u) \in Nat
       /\ \A i \in 1 .. Len(u) : Append(u, b)[i] = u[i]
       /\ Append(u, b)[Len(u) + 1] = b
       /\ DOMAIN Append(u, b) = 1 .. Len(u) + 1
  <2>1. u \in Seq(Journal!Numbers)
    OBVIOUS
  <2> HIDE DEF u
  <2> QED BY <1>2, <2>1, AppendProperties, LenProperties
<1>11. \A x \in Trains : /\ Members(unread[x]) \subseteq Members(unread'[x])
                         /\ \A s \in Members(unread'[x]) : s \in Members(unread[x]) \/ (x = t /\ s = b)
  <2> TAKE x \in Trains
  <2>1. CASE x = t
    <3>1. \A s : s \in Members(Append(u, b)) <=> s \in Members(u) \/ s = b
      <4>1. u \in Seq(Journal!Numbers) /\ Append(u, b) \in Seq(Journal!Numbers)
        BY <1>10
      <4>2. ASSUME NEW s, s \in Members(u) PROVE s \in Members(Append(u, b))
        <5>1. PICK i \in 1 .. Len(u) : u[i] = s
          BY <4>1, <4>2, MembersPos
        <5>2. i \in 1 .. Len(Append(u, b)) /\ Append(u, b)[i] = s
          BY <1>10, <5>1
        <5> QED BY <4>1, <5>2, MembersPos
      <4>3. b \in Members(Append(u, b))
        <5>1. Len(u) + 1 \in 1 .. Len(Append(u, b))
          BY <1>10
        <5> QED BY <1>10, <4>1, <5>1, MembersPos
      <4>4. ASSUME NEW s, s \in Members(Append(u, b)), s # b PROVE s \in Members(u)
        <5>1. PICK i \in 1 .. Len(Append(u, b)) : Append(u, b)[i] = s
          BY <4>1, <4>4, MembersPos
        <5>2. i \in 1 .. Len(u) /\ u[i] = s
          BY <1>10, <4>4, <5>1
        <5> QED BY <4>1, <5>2, MembersPos
      <4> QED BY <4>2, <4>3, <4>4
    <3> QED BY <1>9, <2>1, <3>1
  <2> QED BY <1>9, <2>1
<1>12. dropped' \in [Trains -> Journal!Numbers]
  BY <1>4, <1>7 DEF Journal!TypeOK
<1>13. \A x \in Trains : \/ dropped'[x] = dropped[x]
                         \/ \E h \in Members(entries) :
                              /\ h.train = x /\ dropped'[x] = h.sequence
                              /\ Len(entries') = Len(entries)
                              /\ Age(h.sequence) = Len(entries) - 1
                              /\ AgeAt(b, h.sequence) = Len(entries)
                              /\ DistAt(b, h.sequence) <= Half
  <2> TAKE x \in Trains
  <2>1. CASE dropped' = dropped
    BY <2>1
  <2>2. CASE \E h \in Members(entries) :
              /\ Len(entries') = Len(entries)
              /\ Age(h.sequence) = Len(entries) - 1
              /\ AgeAt(attributed', h.sequence) = Len(entries)
              /\ dropped' = [dropped EXCEPT ![h.train] = h.sequence]
              /\ DistAt(attributed', h.sequence) <= Half
    BY <1>1, <1>7, <2>2 DEF Journal!TypeOK
  <2> QED BY <1>4, <2>1, <2>2
<1>14. Journal!TypeOK'
  BY <1>1, <1>2, <1>4, <1>9, <1>12 DEF Journal!TypeOK
<1>15. Journalled'
  <2>1. DOMAIN entries' = 1 .. Len(entries')
    BY <1>4, LenProperties
  <2>2. \A i \in DOMAIN entries' : AgeAt(b, entries'[i].sequence) = Len(entries') - i
    BY <1>1, <1>4, <2>1
  <2> QED BY <1>1, <1>2, <1>5, <2>2 DEF Journalled
<1>16. CursorsFresh'
  BY <1>5, <1>6 DEF CursorsFresh
<1>17. LossesKnown'
  <2> SUFFICES ASSUME NEW x \in Trains, dropped'[x] # 0
               PROVE  /\ DistAt(b, dropped'[x]) <= Half /\ AgeAt(b, dropped'[x]) >= Len(entries')
                      /\ AgeAt(b, dropped'[x]) < AgeAt(b, cursor[x]) => dropped'[x] \in Members(unread'[x])
    BY <1>5 DEF LossesKnown
  <2>0. cursor[x] \in Journal!Numbers /\ Age(cursor[x]) \in Nat /\ AgeAt(b, cursor[x]) = Age(cursor[x]) + 1
    BY <1>6
  <2>1. CASE dropped'[x] = dropped[x]
    <3>1. /\ DistAt(b, dropped[x]) <= Half /\ AgeAt(b, dropped[x]) = Age(dropped[x]) + 1
          /\ Age(dropped[x]) \in Nat /\ dropped[x] # 0
      BY <1>6, <2>1
    <3>2. Age(dropped[x]) >= Len(entries)
      BY <3>1 DEF LossesKnown
    <3>3. Len(entries') <= Len(entries) + 1 /\ Len(entries) \in Nat /\ Len(entries') \in Nat
      BY <1>4
    <3>4. AgeAt(b, dropped[x]) >= Len(entries')
      BY <3>1, <3>2, <3>3
    <3>5. ASSUME AgeAt(b, dropped[x]) < AgeAt(b, cursor[x]) PROVE dropped[x] \in Members(unread'[x])
      <4>1. Age(dropped[x]) < Age(cursor[x])
        BY <2>0, <3>1, <3>5
      <4> QED BY <1>11, <3>1, <4>1 DEF LossesKnown
    <3> QED BY <2>1, <3>1, <3>4, <3>5
  <2>2. CASE \E h \in Members(entries) :
               /\ h.train = x /\ dropped'[x] = h.sequence
               /\ Len(entries') = Len(entries)
               /\ Age(h.sequence) = Len(entries) - 1
               /\ AgeAt(b, h.sequence) = Len(entries)
               /\ DistAt(b, h.sequence) <= Half
    <3>1. PICK h \in Members(entries) :
               /\ h.train = x /\ dropped'[x] = h.sequence
               /\ Len(entries') = Len(entries)
               /\ AgeAt(b, h.sequence) = Len(entries)
               /\ DistAt(b, h.sequence) <= Half
      BY <2>2
    <3>2. ASSUME AgeAt(b, h.sequence) < AgeAt(b, cursor[x]) PROVE h.sequence \in Members(unread'[x])
      <4>1. Age(h.sequence) \in Nat /\ AgeAt(b, h.sequence) = Age(h.sequence) + 1
        BY <1>7
      <4>2. Age(h.sequence) < Age(cursor[x])
        BY <2>0, <3>2, <4>1
      <4> QED BY <1>11, <3>1, <4>2 DEF Complete
    <3>3. Len(entries) >= Len(entries')
      BY <3>1
    <3> QED BY <3>1, <3>2, <3>3
  <2> QED BY <1>13, <2>1, <2>2
<1>18. NoWrapYet'
  <2> SUFFICES ASSUME NEW x \in Trains, cursor[x] = 0
               PROVE  /\ \A i \in DOMAIN entries' : entries'[i].sequence <= b
                      /\ \A y \in Trains : dropped'[y] <= b
    BY <1>1 DEF NoWrapYet
  <2>1. \A i \in DOMAIN entries' : entries'[i].sequence <= b
    <3> TAKE i \in DOMAIN entries'
    <3>1. entries'[i] \in Members(entries')
      BY DEF Members
    <3>2. CASE entries'[i] = e
      <4>1. b <= b
        <5> HIDE DEF JournalInv
        <5> QED BY <1>2, Sizes DEF Journal!Numbers
      <4> QED BY <1>3, <3>2, <4>1
    <3>3. CASE entries'[i] \in Members(entries)
      BY <1>7, <3>3
    <3> QED BY <1>4, <3>1, <3>2, <3>3
  <2>2. \A y \in Trains : dropped'[y] <= b
    <3> TAKE y \in Trains
    <3>1. dropped[y] <= b
      BY <1>6
    <3>2. \A h \in Members(entries) : h.sequence <= b
      BY <1>7
    <3> QED BY <1>13, <3>1, <3>2
  <2> QED BY <2>1, <2>2
<1>19. InOrder'
  <2> SUFFICES ASSUME NEW x \in Trains
               PROVE  /\ \A i, j \in DOMAIN unread'[x] : i < j => AgeAt(b, unread'[x][j]) < AgeAt(b, unread'[x][i])
                      /\ \A i \in DOMAIN unread'[x] : unread'[x][i] # 0 /\ AgeAt(b, unread'[x][i]) < AgeAt(b, cursor[x])
    BY <1>5 DEF InOrder
  <2>1. /\ \A i, j \in 1 .. Len(unread[x]) : i < j => Age(unread[x][j]) < Age(unread[x][i])
        /\ \A i \in 1 .. Len(unread[x]) : unread[x][i] # 0 /\ Age(unread[x][i]) < Age(cursor[x])
    BY DEF InOrder
  <2>2. /\ \A i \in 1 .. Len(unread[x]) :
             Age(unread[x][i]) \in Nat /\ AgeAt(b, unread[x][i]) = Age(unread[x][i]) + 1
        /\ Age(cursor[x]) \in Nat /\ AgeAt(b, cursor[x]) = Age(cursor[x]) + 1
        /\ Len(unread[x]) \in Nat /\ DOMAIN unread[x] = 1 .. Len(unread[x])
    BY <1>6
  <2> HIDE DEF JournalInv
  <2>3. /\ \A i, j \in 1 .. Len(unread[x]) : i < j => AgeAt(b, unread[x][j]) < AgeAt(b, unread[x][i])
        /\ \A i \in 1 .. Len(unread[x]) :
             /\ unread[x][i] # 0 /\ AgeAt(b, unread[x][i]) < AgeAt(b, cursor[x])
             /\ AgeAt(b, unread[x][i]) > 0
        /\ AgeAt(b, cursor[x]) > 0
    BY <2>1, <2>2
  <2>4. CASE x # t
    BY <1>9, <2>2, <2>3, <2>4
  <2>5. CASE x = t
    <3>1. unread'[x] = Append(u, b) /\ u = unread[x]
      BY <1>9, <2>5
    <3> HIDE DEF u
    <3>2. \A i \in 1 .. Len(u) + 1 : i = Len(u) + 1 \/ i \in 1 .. Len(u)
      BY <1>10
    <3>3. ASSUME NEW i \in 1 .. Len(u) + 1, NEW j \in 1 .. Len(u) + 1, i < j
          PROVE  AgeAt(b, unread'[x][j]) < AgeAt(b, unread'[x][i])
      <4>1. i \in 1 .. Len(u) /\ unread'[x][i] = u[i]
        BY <1>10, <3>1, <3>3
      <4>2. CASE j \in 1 .. Len(u)
        <5>1. unread'[x][j] = u[j]
          BY <1>10, <3>1, <4>2
        <5> QED BY <2>3, <3>1, <3>3, <4>1, <4>2, <5>1
      <4>3. CASE j = Len(u) + 1
        <5>1. unread'[x][j] = b
          BY <1>10, <3>1, <4>3
        <5> QED BY <1>2, <2>3, <3>1, <4>1, <5>1
      <4> QED BY <3>2, <4>2, <4>3
    <3>4. ASSUME NEW i \in 1 .. Len(u) + 1
          PROVE  unread'[x][i] # 0 /\ AgeAt(b, unread'[x][i]) < AgeAt(b, cursor[x])
      <4>1. CASE i \in 1 .. Len(u)
        BY <1>10, <2>3, <3>1, <4>1
      <4>2. CASE i = Len(u) + 1
        BY <1>2, <1>10, <2>3, <3>1, <4>2
      <4> QED BY <3>2, <4>1, <4>2
    <3>5. DOMAIN unread'[x] = 1 .. Len(u) + 1
      BY <1>10, <3>1
    <3> QED BY <3>3, <3>4, <3>5
  <2> QED BY <2>4, <2>5
<1>20. Complete'
  <2> SUFFICES ASSUME NEW x \in Trains
               PROVE  /\ \A y \in Members(entries') :
                           y.train = x /\ AgeAt(b, y.sequence) < AgeAt(b, cursor[x]) => y.sequence \in Members(unread'[x])
                      /\ \A s \in Members(unread'[x]) :
                           \/ \E y \in Members(entries') : y.train = x /\ y.sequence = s
                           \/ dropped'[x] # 0 /\ AgeAt(b, dropped'[x]) <= AgeAt(b, s)
    <3>1. \A s : Age(s)' = AgeAt(b, s)
      BY <1>5
    <3>2. /\ cursor' = cursor
          /\ \A z \in Trains :
                      /\ \A y \in Members(entries') :
                           y.train = z /\ AgeAt(b, y.sequence) < AgeAt(b, cursor[z]) => y.sequence \in Members(unread'[z])
                      /\ \A s \in Members(unread'[z]) :
                           \/ \E y \in Members(entries') : y.train = z /\ y.sequence = s
                           \/ dropped'[z] # 0 /\ AgeAt(b, dropped'[z]) <= AgeAt(b, s)
         => Complete'
      BY <3>1 DEF Complete, Members
    <3> QED BY <3>2
  <2>0. cursor[x] \in Journal!Numbers /\ Age(cursor[x]) \in Nat /\ AgeAt(b, cursor[x]) = Age(cursor[x]) + 1
    BY <1>6
  <2>1. ASSUME NEW y \in Members(entries'), y.train = x, AgeAt(b, y.sequence) < AgeAt(b, cursor[x])
        PROVE  y.sequence \in Members(unread'[x])
    <3>1. CASE y = e
      <4>1. x = t /\ y.sequence = b
        BY <1>3, <2>1, <3>1
      <4>2. Len(u) + 1 \in 1 .. Len(Append(u, b))
        BY <1>10
      <4>3. b \in Members(Append(u, b))
        BY <1>10, <4>2, MembersPos
      <4> QED BY <1>9, <4>1, <4>3
    <3>2. CASE y \in Members(entries)
      <4>1. Age(y.sequence) < Age(cursor[x])
        BY <1>7, <2>0, <2>1, <3>2
      <4> QED BY <1>11, <2>1, <3>2, <4>1 DEF Complete
    <3> QED BY <1>4, <2>1, <3>1, <3>2
  <2>2. ASSUME NEW s \in Members(unread'[x])
        PROVE  \/ \E y \in Members(entries') : y.train = x /\ y.sequence = s
               \/ dropped'[x] # 0 /\ AgeAt(b, dropped'[x]) <= AgeAt(b, s)
    <3>1. CASE x = t /\ s = b
      BY <1>3, <1>4, <3>1
    <3>2. CASE s \in Members(unread[x])
      <4>1. Age(s) \in Nat /\ AgeAt(b, s) = Age(s) + 1
        BY <1>8, <3>2
      <4>2. CASE \E y \in Members(entries) : y.train = x /\ y.sequence = s
        <5>1. PICK y \in Members(entries) : y.train = x /\ y.sequence = s
          BY <4>2
        <5>2. CASE y \in Members(entries')
          BY <5>1, <5>2
        <5>3. CASE y \notin Members(entries')
          <6>1. dropped' = [dropped EXCEPT ![y.train] = y.sequence]
            BY <1>4, <5>3
          <6>2. dropped'[x] = s /\ s # 0
            BY <1>7, <5>1, <6>1 DEF Journal!TypeOK
          <6>3. AgeAt(b, s) <= AgeAt(b, s)
            BY <4>1
          <6> QED BY <6>2, <6>3
        <5> QED BY <5>2, <5>3
      <4>3. CASE dropped[x] # 0 /\ Age(dropped[x]) <= Age(s)
        <5>1. Age(dropped[x]) \in Nat /\ AgeAt(b, dropped[x]) = Age(dropped[x]) + 1
          BY <1>6, <4>3
        <5>2. CASE dropped'[x] = dropped[x]
          BY <4>1, <4>3, <5>1, <5>2
        <5>3. CASE dropped'[x] # dropped[x]
          <6>1. PICK h \in Members(entries) :
                  /\ dropped'[x] = h.sequence /\ AgeAt(b, h.sequence) = Len(entries)
            BY <1>13, <5>3
          <6>2. Age(dropped[x]) >= Len(entries) /\ Len(entries) \in Nat
            BY <4>3 DEF LossesKnown
          <6>3. h.sequence # 0
            BY <1>7
          <6> QED BY <4>1, <4>3, <5>1, <6>1, <6>2, <6>3
        <5> QED BY <5>2, <5>3
      <4> QED BY <3>2, <4>2, <4>3 DEF Complete
    <3> QED BY <1>11, <3>1, <3>2
  <2> QED BY <2>1, <2>2
<1> QED BY <1>14, <1>15, <1>16, <1>17, <1>18, <1>19, <1>20

LEMMA JournalInvNext == Journal!SensorAssumption /\ JournalInv /\ [Journal!Next]_(Journal!vars) => JournalInv'
<1> SUFFICES ASSUME Journal!SensorAssumption, JournalInv, [Journal!Next]_(Journal!vars) PROVE JournalInv'
  OBVIOUS
<1>1. ASSUME UNCHANGED <<attributed, entries, dropped, cursor, unread>>, high' \subseteq TrackSensors
      PROVE  JournalInv'
  <2>1. \A s : Age(s)' = Age(s) /\ Dist(s)' = Dist(s)
    BY <1>1 DEF Age, Dist, AgeAt, DistAt
  <2>2. Journal!TypeOK' /\ Journalled' /\ NoWrapYet' /\ CursorsFresh'
    BY <1>1, <2>1 DEF JournalInv, Journal!TypeOK, Journalled, NoWrapYet, CursorsFresh
  <2>3. LossesKnown'
    BY <1>1, <2>1 DEF JournalInv, LossesKnown
  <2>4. InOrder'
    BY <1>1, <2>1 DEF JournalInv, InOrder
  <2>5. Complete'
    BY <1>1, <2>1 DEF JournalInv, Complete
  <2> QED BY <2>2, <2>3, <2>4, <2>5 DEF JournalInv
<1>2. ASSUME NEW s \in TrackSensors, NEW old \in {0, 1}, NEW new \in {0, 1}, Journal!SensorReport(s, old, new)
      PROVE  JournalInv'
  <2>1. high' \subseteq TrackSensors /\ cursor' = cursor
    BY <1>2 DEF Journal!SensorReport, JournalInv, Journal!TypeOK
  <2>2. CASE UNCHANGED <<attributed, entries, dropped, unread>>
    BY <1>1, <2>1, <2>2
  <2>3. CASE \E t \in Trains : Journal!Attribute(t)
    BY <2>1, <2>3, AttributeKeeps
  <2> QED BY <1>2, <2>2, <2>3 DEF Journal!SensorReport, Journal!Unattributed
<1>3. CASE UNCHANGED Journal!vars
  BY <1>1, <1>3 DEF Journal!vars, JournalInv, Journal!TypeOK
<1>4. ASSUME NEW t \in Trains, Journal!Drain(t) \/ Journal!Baseline(t) PROVE JournalInv'
  BY <1>4, DrainKeeps, BaselineKeeps
<1> QED BY <1>2, <1>3, <1>4 DEF Journal!Next

\* Whatever pages are read when, they have no gaps, and a loss is told if and
\* only if entries were overwritten that the reader had not seen.
THEOREM JournalIsExact == Journal!Spec => []JournalExact
<1>0. Journal!SensorAssumption
  BY ComponentAssumptions
<1>1. Journal!Init => JournalInv
  BY <1>0, JournalInvInit
<1>2. JournalInv /\ [Journal!Next]_(Journal!vars) => JournalInv'
  BY <1>0, JournalInvNext
<1>3. JournalInv => JournalExact
  BY <1>0, PagesAreExact, LossesAreReal DEF JournalExact
<1> QED BY <1>1, <1>2, <1>3, PTL DEF Journal!Spec

-----------------------------------------------------------------------------
\* The screen.

Values == Glyphs \cup Words \cup {Screen!Blank, Screen!Text, ""}

Chunks == [at : Screen!Places \cup {"everywhere"}, to : Values]

Effect(c) == IF c.at = "everywhere" THEN Screen!Blank ELSE c.to

\* No chunk of the list concerns the place.
Silent(chunks, p) == \A j \in 1 .. Len(chunks) : chunks[j].at \notin {p, "everywhere"}

\* The last one that does is the i-th.
Decides(chunks, p, i) ==
  /\ i \in 1 .. Len(chunks) /\ chunks[i].at \in {p, "everywhere"}
  /\ \A j \in 1 .. Len(chunks) : i < j => chunks[j].at \notin {p, "everywhere"}

\* And it leaves v there.
Settles(chunks, p, v) == \E i \in 1 .. Len(chunks) : Decides(chunks, p, i) /\ Effect(chunks[i]) = v

LEMMA PlacesApart ==
  /\ "everywhere" \notin Screen!Places
  /\ "status" \in Screen!Places /\ "prompt" \in Screen!Places
  /\ \A c \in Cells : c \in Screen!Places /\ c # "status" /\ c # "prompt" /\ c # "everywhere"
<1>1. {"status", "prompt", "everywhere"} \cap Cells = {}
  BY ComponentAssumptions DEF Screen!DisplayAssumption
<1> QED BY <1>1 DEF Screen!Places

\* Some chunk concerns the place, and then the last of them decides.
LEMMA SilentOrSettled ==
  ASSUME NEW chunks \in Seq(Chunks), NEW p
  PROVE  Silent(chunks, p) \/ \E v : Settles(chunks, p, v)
<1> SUFFICES ASSUME ~Silent(chunks, p) PROVE \E i \in 1 .. Len(chunks) : Decides(chunks, p, i)
  BY DEF Settles
<1> DEFINE n == Len(chunks)
           T == {k \in 0 .. n - 1 : chunks[n - k].at \in {p, "everywhere"}}
<1>1. n \in Nat
  BY LenProperties
<1>2. PICK j \in 1 .. n : chunks[j].at \in {p, "everywhere"}
  BY DEF Silent
<1> HIDE DEF n
<1>3. n - j \in T
  <2>1. n - j \in 0 .. n - 1 /\ n - (n - j) = j
    BY <1>1
  <2> QED BY <1>2, <2>1
<1>4. T \subseteq Nat /\ T # {}
  BY <1>3
<1>5. PICK k \in T : \A m \in T : k <= m
  BY <1>4, SmallestExists
<1>6. n - k \in 1 .. n /\ chunks[n - k].at \in {p, "everywhere"}
  BY <1>1, <1>5
<1>7. ASSUME NEW i \in 1 .. n, n - k < i PROVE chunks[i].at \notin {p, "everywhere"}
  <2>1. n - i \in 0 .. n - 1 /\ n - i < k /\ n - (n - i) = i /\ k \in Nat
    BY <1>1, <1>5, <1>7
  <2>2. n - i \notin T
    BY <1>5, <2>1
  <2> QED BY <2>1, <2>2
<1>8. Decides(chunks, p, n - k)
  BY <1>6, <1>7 DEF Decides, n
<1> QED BY <1>6, <1>8 DEF n

LEMMA WhatShows ==
  ASSUME NEW chunks \in Seq(Chunks), NEW p \in Screen!Places, NEW s, DOMAIN s = Screen!Places
  PROVE  /\ Silent(chunks, p) => Screen!ApplyAll(s, chunks)[p] = s[p]
         /\ \A v : Settles(chunks, p, v) => Screen!ApplyAll(s, chunks)[p] = v
<1> DEFINE C == Screen!Concerns(chunks, p)
           last == CHOOSE i \in C : \A j \in C : j <= i
<1>1. Screen!ApplyAll(s, chunks)[p] =
        IF C = {} THEN s[p] ELSE Screen!Apply(s, chunks[last])[p]
  BY DEF Screen!ApplyAll
<1>2. C = {i \in 1 .. Len(chunks) : chunks[i].at \in {p, "everywhere"}} /\ Len(chunks) \in Nat
  BY LenProperties DEF Screen!Concerns
<1>3. Silent(chunks, p) => C = {}
  BY <1>2 DEF Silent
<1>4. ASSUME NEW v, Settles(chunks, p, v) PROVE Screen!ApplyAll(s, chunks)[p] = v
  <2>1. PICK i \in 1 .. Len(chunks) : Decides(chunks, p, i) /\ Effect(chunks[i]) = v
    BY <1>4 DEF Settles
  <2>2. i \in C
    BY <1>2, <2>1 DEF Decides
  <2>3. \A j \in C : j \in 1 .. Len(chunks) /\ ~(i < j)
    BY <1>2, <2>1 DEF Decides
  <2>4. \A j \in C : j <= i
    BY <1>2, <2>3
  <2>5. \A k \in C : (\A j \in C : j <= k) => k = i
    BY <1>2, <2>2, <2>3, <2>4
  <2> HIDE DEF C
  <2>6. last = i
    BY <2>2, <2>4, <2>5
  <2>7. Screen!ApplyAll(s, chunks)[p] = Screen!Apply(s, chunks[i])[p]
    BY <1>1, <2>2, <2>6
  <2>8. chunks[i].at \in {p, "everywhere"}
    BY <2>1 DEF Decides
  <2>9. Screen!Apply(s, chunks[i])[p] = Effect(chunks[i])
    BY <2>8, PlacesApart DEF Screen!Apply, Screen!Blanked, Effect
  <2> QED BY <2>1, <2>7, <2>9
<1> QED BY <1>1, <1>3, <1>4

\* What a list that goes behind another one changes of its effect.
LEMMA JoinedSettle ==
  ASSUME NEW a \in Seq(Chunks), NEW b \in Seq(Chunks), NEW p
  PROVE  /\ a \o b \in Seq(Chunks)
         /\ Silent(a, p) /\ Silent(b, p) => Silent(a \o b, p)
         /\ \A v : Settles(a, p, v) /\ Silent(b, p) => Settles(a \o b, p, v)
         /\ \A v : Settles(b, p, v) => Settles(a \o b, p, v)
<1> DEFINE w == a \o b
<1>1. /\ w \in Seq(Chunks) /\ Len(w) = Len(a) + Len(b)
      /\ \A i \in 1 .. Len(a) + Len(b) : w[i] = IF i <= Len(a) THEN a[i] ELSE b[i - Len(a)]
  BY ConcatProperties
<1> HIDE DEF w
<1>2. Len(a) \in Nat /\ Len(b) \in Nat
  BY LenProperties
<1>3. \A i \in 1 .. Len(w) : \/ i \in 1 .. Len(a) /\ w[i] = a[i]
                             \/ i > Len(a) /\ i - Len(a) \in 1 .. Len(b) /\ w[i] = b[i - Len(a)]
  <2> TAKE i \in 1 .. Len(w)
  <2>1. CASE i <= Len(a)
    BY <1>1, <1>2, <2>1
  <2>2. CASE ~(i <= Len(a))
    <3>1. i - Len(a) \in 1 .. Len(b) /\ i > Len(a)
      BY <1>1, <1>2, <2>2
    <3> QED BY <1>1, <2>2, <3>1
  <2> QED BY <2>1, <2>2
<1>4. Silent(a, p) /\ Silent(b, p) => Silent(w, p)
  BY <1>3 DEF Silent
<1>5. ASSUME NEW v, Settles(a, p, v), Silent(b, p) PROVE Settles(w, p, v)
  <2>1. PICK i \in 1 .. Len(a) : Decides(a, p, i) /\ Effect(a[i]) = v
    BY <1>5 DEF Settles
  <2>2. i \in 1 .. Len(w) /\ w[i] = a[i]
    BY <1>1, <1>2, <1>3
  <2>3. \A j \in 1 .. Len(w) : i < j => w[j].at \notin {p, "everywhere"}
    BY <1>3, <1>5, <2>1 DEF Silent, Decides
  <2>4. Decides(w, p, i)
    BY <2>1, <2>2, <2>3 DEF Decides
  <2> QED BY <2>1, <2>2, <2>4 DEF Settles
<1>6. ASSUME NEW v, Settles(b, p, v) PROVE Settles(w, p, v)
  <2>1. PICK i \in 1 .. Len(b) : Decides(b, p, i) /\ Effect(b[i]) = v
    BY <1>6 DEF Settles
  <2>2. PICK k \in 1 .. Len(w) : k - Len(a) = i /\ ~(k \in 1 .. Len(a))
    <3>1. Len(a) + i \in 1 .. Len(w) /\ (Len(a) + i) - Len(a) = i /\ ~(Len(a) + i \in 1 .. Len(a))
      BY <1>1, <1>2
    <3> QED BY <3>1
  <2>3. w[k] = b[i]
    BY <1>3, <2>2
  <2>4. ASSUME NEW j \in 1 .. Len(w), k < j PROVE w[j].at \notin {p, "everywhere"}
    <3>1. ~(j \in 1 .. Len(a)) /\ i < j - Len(a)
      BY <1>2, <2>2, <2>4
    <3>2. j - Len(a) \in 1 .. Len(b) /\ w[j] = b[j - Len(a)]
      BY <1>3, <3>1
    <3> QED BY <2>1, <3>1, <3>2 DEF Decides
  <2>5. Decides(w, p, k)
    BY <2>1, <2>3, <2>4 DEF Decides
  <2> QED BY <2>1, <2>3, <2>5 DEF Settles
<1> QED BY <1>1, <1>4, <1>5, <1>6 DEF w

\* Sending the first chunk changes nothing of what will be shown.
LEMMA FirstSent ==
  ASSUME NEW c \in Chunks, NEW rest \in Seq(Chunks), NEW p \in Screen!Places,
         NEW s, DOMAIN s = Screen!Places
  PROVE  Screen!ApplyAll(Screen!Apply(s, c), rest)[p] = Screen!ApplyAll(s, <<c>> \o rest)[p]
<1> DEFINE one == <<c>>
           t == Screen!Apply(s, c)
           w == one \o rest
<1>1. one \in Seq(Chunks) /\ Len(one) = 1 /\ one[1] = c
  OBVIOUS
<1>2. DOMAIN t = Screen!Places
  BY DEF Screen!Apply, Screen!Blanked
<1>3. t[p] = IF c.at \in {p, "everywhere"} THEN Effect(c) ELSE s[p]
  BY PlacesApart DEF Screen!Apply, Screen!Blanked, Effect
<1> HIDE DEF one, t
<1>4. /\ w \in Seq(Chunks)
      /\ Silent(one, p) /\ Silent(rest, p) => Silent(w, p)
      /\ \A v : Settles(one, p, v) /\ Silent(rest, p) => Settles(w, p, v)
      /\ \A v : Settles(rest, p, v) => Settles(w, p, v)
  BY <1>1, JoinedSettle
<1> HIDE DEF w
<1>5. /\ Silent(w, p) => Screen!ApplyAll(s, w)[p] = s[p]
      /\ \A v : Settles(w, p, v) => Screen!ApplyAll(s, w)[p] = v
  BY <1>4, WhatShows
<1>6. /\ Silent(rest, p) => Screen!ApplyAll(t, rest)[p] = t[p]
      /\ \A v : Settles(rest, p, v) => Screen!ApplyAll(t, rest)[p] = v
  BY <1>2, WhatShows
<1>7. CASE Silent(rest, p)
  <2>1. CASE c.at \in {p, "everywhere"}
    <3>1. Decides(one, p, 1)
      BY <1>1, <2>1 DEF Decides
    <3>2. Settles(one, p, Effect(c))
      BY <1>1, <3>1 DEF Settles
    <3> QED BY <1>3, <1>4, <1>5, <1>6, <1>7, <2>1, <3>2 DEF t, w, one
  <2>2. CASE c.at \notin {p, "everywhere"}
    <3>1. Silent(one, p)
      BY <1>1, <2>2 DEF Silent
    <3> QED BY <1>3, <1>4, <1>5, <1>6, <1>7, <2>2, <3>1 DEF t, w, one
  <2> QED BY <2>1, <2>2
<1>8. CASE \E v : Settles(rest, p, v)
  BY <1>4, <1>5, <1>6, <1>8 DEF t, w, one
<1> QED BY <1>7, <1>8, SilentOrSettled

-----------------------------------------------------------------------------
\* The order in which the cells are listed does not matter, but each one is.
LEMMA CellsListed ==
  ASSUME NEW S \in SUBSET Cells
  PROVE  /\ Screen!SetToSeq(S) \in Seq(Cells)
         /\ \A c : c \in S <=> \E i \in 1 .. Len(Screen!SetToSeq(S)) : Screen!SetToSeq(S)[i] = c
<1> DEFINE n == Cardinality(S)
           one(f) == \A a, b \in DOMAIN f : f[a] = f[b] => a = b
           l == CHOOSE f \in [1 .. n -> S] : one(f)
<1>1. IsFiniteSet(S)
  <2>1. IsFiniteSet(Cells)
    BY ComponentAssumptions DEF Screen!DisplayAssumption, Screen!IsFiniteSet, IsFiniteSet
  <2> QED BY <2>1, FS_Subset
<1>2. Screen!SetToSeq(S) = l
  BY DEF Screen!SetToSeq, Screen!IsInjective, Screen!Cardinality, Cardinality
<1>3. n \in Nat /\ ExistsBijection(1 .. n, S)
  BY <1>1, FS_CardinalityType
<1>4. \E f \in [1 .. n -> S] : one(f)
  BY <1>3 DEF ExistsBijection, Bijection, Injection, Surjection, IsInjective
<1>5. l \in [1 .. n -> S] /\ one(l)
  <2> HIDE DEF one
  <2> QED BY <1>4
<1> HIDE DEF l, n
<1>6. l \in Injection(1 .. n, S)
  BY <1>5 DEF Injection, IsInjective
<1>7. Cardinality(1 .. n) = Cardinality(S)
  BY <1>3, FS_Interval DEF n
<1>8. l \in Surjection(1 .. n, S)
  BY <1>1, <1>6, <1>7, FS_Injection
<1>9. l \in Seq(S) /\ l \in Seq(Cells)
  <2>1. l \in [1 .. n -> Cells]
    BY <1>5
  <2> QED BY <1>3, <1>5, <2>1, SeqDef
<1>10. Len(l) = n
  BY <1>3, <1>5, <1>9, LenProperties
<1>11. \A c : c \in S <=> \E i \in 1 .. Len(l) : l[i] = c
  BY <1>5, <1>8, <1>10 DEF Surjection
<1> QED BY <1>2, <1>9, <1>11

LEMMA UpdatesSettle ==
  ASSUME NEW S \in SUBSET Cells, NEW pic \in [Cells -> Glyphs]
  PROVE  LET u == Screen!Updates(Screen!SetToSeq(S), pic)
         IN  /\ u \in Seq(Chunks)
             /\ \A c \in S : Settles(u, c, pic[c])
             /\ \A p \in Screen!Places \ S : Silent(u, p)
<1> DEFINE l == Screen!SetToSeq(S)
           u == Screen!Updates(l, pic)
<1>1. l \in Seq(Cells) /\ \A c : c \in S <=> \E i \in 1 .. Len(l) : l[i] = c
  BY CellsListed
<1>2. u = [i \in DOMAIN l |-> [at |-> l[i], to |-> pic[l[i]]]]
  BY DEF Screen!Updates
<1> HIDE DEF l, u
<1>3. DOMAIN l = 1 .. Len(l) /\ Len(l) \in Nat /\ \A i \in 1 .. Len(l) : l[i] \in Cells
  BY <1>1, LenProperties, ElementOfSeq
<1>4. \A i \in 1 .. Len(l) : u[i] = [at |-> l[i], to |-> pic[l[i]]] /\ u[i] \in Chunks
  BY <1>2, <1>3, PlacesApart DEF Chunks, Values
<1>5. u \in Seq(Chunks) /\ Len(u) = Len(l)
  <2>1. u \in [1 .. Len(l) -> Chunks]
    BY <1>2, <1>3, <1>4
  <2>2. u \in Seq(Chunks)
    BY <1>3, <2>1, SeqDef
  <2>3. DOMAIN u = 1 .. Len(l) /\ DOMAIN u = 1 .. Len(u) /\ Len(u) \in Nat
    BY <2>1, <2>2, LenProperties
  <2> QED BY <1>3, <2>2, <2>3
<1>6. \A i \in 1 .. Len(u) : /\ u[i].at = l[i] /\ u[i].to = pic[l[i]] /\ l[i] \in Cells
                             /\ l[i] # "everywhere"
  <2> TAKE i \in 1 .. Len(u)
  <2>1. i \in 1 .. Len(l)
    BY <1>5
  <2>2. u[i] = [at |-> l[i], to |-> pic[l[i]]] /\ l[i] \in Cells
    BY <1>3, <1>4, <2>1
  <2> HIDE DEF u, l
  <2> QED BY <2>2, PlacesApart
<1>7. ASSUME NEW c \in S PROVE Settles(u, c, pic[c])
  <2>1. PICK k \in 1 .. Len(u) : l[k] = c
    BY <1>1, <1>5
  <2>2. ~Silent(u, c)
    BY <1>6, <2>1 DEF Silent
  <2>3. PICK v : Settles(u, c, v)
    BY <1>5, <2>2, SilentOrSettled
  <2>4. PICK i \in 1 .. Len(u) : Decides(u, c, i) /\ Effect(u[i]) = v
    BY <2>3 DEF Settles
  <2>5. u[i].at = l[i] /\ u[i].to = pic[l[i]] /\ l[i] # "everywhere"
    BY <1>6
  <2>6. l[i] = c
    BY <2>4, <2>5 DEF Decides
  <2>7. v = pic[c]
    BY <2>4, <2>5, <2>6 DEF Effect
  <2> QED BY <2>3, <2>7
<1>8. ASSUME NEW p \in Screen!Places \ S PROVE Silent(u, p)
  <2>1. \A i \in 1 .. Len(u) : l[i] \in S
    BY <1>1, <1>5
  <2> QED BY <1>6, <2>1 DEF Silent
<1> QED BY <1>5, <1>7, <1>8 DEF u, l

LEMMA OneChunk ==
  ASSUME NEW c \in Chunks, NEW p
  PROVE  /\ <<c>> \in Seq(Chunks)
         /\ c.at \in {p, "everywhere"} => Settles(<<c>>, p, Effect(c))
         /\ c.at \notin {p, "everywhere"} => Silent(<<c>>, p)
<1> DEFINE one == <<c>>
<1>1. one \in Seq(Chunks) /\ Len(one) = 1 /\ one[1] = c
  OBVIOUS
<1> HIDE DEF one
<1>2. c.at \in {p, "everywhere"} => Settles(one, p, Effect(c))
  BY <1>1 DEF Settles, Decides
<1>3. c.at \notin {p, "everywhere"} => Silent(one, p)
  BY <1>1 DEF Silent
<1> QED BY <1>1, <1>2, <1>3 DEF one

LEMMA NoChunk == <<>> \in Seq(Chunks) /\ \A p : Silent(<<>>, p)
  BY DEF Silent

\* A frame shows the picture: all of it, or what differs from the last one.
LEMMA DrawnSettles ==
  ASSUME picture \in [Cells -> Glyphs]
  PROVE  /\ Screen!Drawn(picture) \in Seq(Chunks)
         /\ Screen!FullRedraw => \A c \in Cells : Settles(Screen!Drawn(picture), c, picture[c])
         /\ ~Screen!FullRedraw =>
              /\ \A c \in Cells : IF picture[c] # renderer.previous[c]
                                  THEN Settles(Screen!Drawn(picture), c, picture[c])
                                  ELSE Silent(Screen!Drawn(picture), c)
              /\ Silent(Screen!Drawn(picture), "status")
<1> DEFINE D == Screen!Drawn(picture)
<1>1. CASE Screen!FullRedraw
  <2> DEFINE clear == [at |-> "everywhere", to |-> Screen!Blank]
             one == <<clear>>
             u == Screen!Updates(Screen!SetToSeq(Cells), picture)
  <2>1. D = one \o u
    BY <1>1 DEF Screen!Drawn
  <2>2. clear \in Chunks
    BY DEF Chunks, Values
  <2>3. one \in Seq(Chunks)
    BY <2>2, OneChunk
  <2>4. u \in Seq(Chunks) /\ \A c \in Cells : Settles(u, c, picture[c])
    BY UpdatesSettle
  <2> HIDE DEF one, u, D
  <2>5. D \in Seq(Chunks) /\ \A c \in Cells : Settles(D, c, picture[c])
    BY <2>1, <2>3, <2>4, JoinedSettle
  <2> QED BY <1>1, <2>5 DEF D
<1>2. CASE ~Screen!FullRedraw
  <2> DEFINE S == {c \in Cells : picture[c] # renderer.previous[c]}
  <2>1. D = Screen!Updates(Screen!SetToSeq(S), picture)
    BY <1>2 DEF Screen!Drawn
  <2>2. /\ D \in Seq(Chunks)
        /\ \A c \in S : Settles(D, c, picture[c])
        /\ \A p \in Screen!Places \ S : Silent(D, p)
    <3>1. S \in SUBSET Cells
      OBVIOUS
    <3> HIDE DEF S
    <3> QED BY <2>1, <3>1, UpdatesSettle
  <2>3. "status" \in Screen!Places \ S /\ \A c \in Cells : c \in Screen!Places
    BY PlacesApart
  <2> HIDE DEF D
  <2>4. \A c \in Cells : c \in S <=> picture[c] # renderer.previous[c]
    OBVIOUS
  <2> HIDE DEF S
  <2> QED BY <1>2, <2>2, <2>3, <2>4 DEF D
<1> QED BY <1>1, <1>2

LEMMA RestoreSettles ==
  ASSUME statusRow \in Values, commandLine \in Values
  PROVE  /\ Screen!Restore \in Seq(Chunks)
         /\ \A c \in Cells : Silent(Screen!Restore, c)
         /\ Settles(Screen!Restore, "prompt", commandLine)
         /\ IF dirty \/ ~renderer.initialized THEN Settles(Screen!Restore, "status", statusRow)
            ELSE Silent(Screen!Restore, "status")
<1> DEFINE row == [at |-> "status", to |-> statusRow]
           prompt == [at |-> "prompt", to |-> commandLine]
           a == IF dirty \/ ~renderer.initialized THEN <<row>> ELSE <<>>
           b == <<prompt>>
           R == Screen!Restore
<1>1. R = a \o b
  BY DEF Screen!Restore
<1>2. row \in Chunks /\ prompt \in Chunks
  BY PlacesApart DEF Chunks
<1>3. /\ row.at = "status" /\ row.at # "everywhere" /\ Effect(row) = statusRow
      /\ prompt.at = "prompt" /\ prompt.at # "everywhere" /\ Effect(prompt) = commandLine
  BY DEF Effect
<1> HIDE DEF row, prompt, R
<1>4. /\ b \in Seq(Chunks) /\ Settles(b, "prompt", commandLine)
      /\ Silent(b, "status") /\ \A c \in Cells : Silent(b, c)
  <2>1. \A c \in Cells : c # "prompt"
    BY PlacesApart
  <2> QED BY <1>2, <1>3, <2>1, OneChunk
<1>5. /\ a \in Seq(Chunks) /\ \A c \in Cells : Silent(a, c)
      /\ IF dirty \/ ~renderer.initialized THEN Settles(a, "status", statusRow) ELSE Silent(a, "status")
  <2>1. \A c \in Cells : c # "status"
    BY PlacesApart
  <2>2. CASE dirty \/ ~renderer.initialized
    BY <1>2, <1>3, <2>1, <2>2, OneChunk
  <2>3. CASE ~(dirty \/ ~renderer.initialized)
    BY <2>3, NoChunk
  <2> QED BY <2>2, <2>3
<1> HIDE DEF a, b
<1>6. /\ R \in Seq(Chunks)
      /\ \A p : Silent(a, p) /\ Silent(b, p) => Silent(R, p)
      /\ \A p, v : Settles(a, p, v) /\ Silent(b, p) => Settles(R, p, v)
      /\ \A p, v : Settles(b, p, v) => Settles(R, p, v)
  BY <1>1, <1>4, <1>5, JoinedSettle
<1> QED BY <1>4, <1>5, <1>6 DEF R

\* What is silent behind a list leaves what the list shows.
LEMMA SilentBehind ==
  ASSUME NEW a \in Seq(Chunks), NEW b \in Seq(Chunks), NEW p \in Screen!Places,
         NEW s, DOMAIN s = Screen!Places, Silent(b, p)
  PROVE  Screen!ApplyAll(s, a \o b)[p] = Screen!ApplyAll(s, a)[p]
<1> DEFINE w == a \o b
<1>1. /\ w \in Seq(Chunks)
      /\ Silent(a, p) => Silent(w, p)
      /\ \A v : Settles(a, p, v) => Settles(w, p, v)
  BY JoinedSettle
<1> HIDE DEF w
<1>2. Silent(a, p) \/ \E v : Settles(a, p, v)
  BY SilentOrSettled
<1>3. Screen!ApplyAll(s, w)[p] = Screen!ApplyAll(s, a)[p]
  BY <1>1, <1>2, WhatShows
<1> QED BY <1>3 DEF w

-----------------------------------------------------------------------------
Frames == {Screen!NoFrame} \cup [kind : {"full", "delta"}, chunks : Seq(Chunks) \ {<<>>}]

ScreenTypes ==
  /\ live \in BOOLEAN /\ dirty \in BOOLEAN
  /\ picture \in [Cells -> Glyphs] /\ statusRow \in Values /\ commandLine \in Values
  /\ DOMAIN screen = Screen!Places
  /\ renderer.initialized \in BOOLEAN
  /\ renderer = [initialized |-> renderer.initialized, previous |-> renderer.previous]
  /\ pump.active \in Frames /\ pump.pending \in Frames
  /\ pump.full_redraw_required \in BOOLEAN
  /\ pump = [active |-> pump.active, pending |-> pump.pending,
             full_redraw_required |-> pump.full_redraw_required,
             output_failed |-> pump.output_failed]

\* Nothing is pending behind nothing; and a caller that waits for an idle pump
\* never has a frame refused, so that only a reset asks it for a full frame.
PumpSound ==
  /\ Screen!Idle(pump) => pump.pending = Screen!NoFrame
  /\ patient /\ pump.full_redraw_required => ~renderer.initialized

ScreenInv == ScreenTypes /\ PumpSound /\ Screen!QueueLeadsToPicture

LEMMA FrameChunks ==
  ASSUME NEW f \in Frames
  PROVE  f.chunks \in Seq(Chunks)
         /\ (f # Screen!NoFrame => f.chunks # <<>> /\ f = [kind |-> f.kind, chunks |-> f.chunks]
                                   /\ f.kind \in {"full", "delta"})
<1>1. CASE f = Screen!NoFrame
  BY <1>1, NoChunk DEF Screen!NoFrame
<1>2. CASE f \in [kind : {"full", "delta"}, chunks : Seq(Chunks) \ {<<>>}]
  BY <1>2
<1> QED BY <1>1, <1>2 DEF Frames

\* A pump of which some fields are set anew.
LEMMA PumpSet ==
  ASSUME NEW p, NEW s, NEW x, NEW y, NEW z,
         p = [active |-> p.active, pending |-> p.pending,
              full_redraw_required |-> p.full_redraw_required, output_failed |-> p.output_failed]
  PROVE  /\ s = [p EXCEPT !.active = x] =>
              s = [active |-> x, pending |-> p.pending,
                   full_redraw_required |-> p.full_redraw_required, output_failed |-> p.output_failed]
         /\ s = [p EXCEPT !.pending = x, !.full_redraw_required = y] =>
              s = [active |-> p.active, pending |-> x,
                   full_redraw_required |-> y, output_failed |-> p.output_failed]
         /\ s = [p EXCEPT !.active = x, !.pending = y, !.full_redraw_required = z] =>
              s = [active |-> x, pending |-> y,
                   full_redraw_required |-> z, output_failed |-> p.output_failed]
         /\ s = [p EXCEPT !.active = x, !.pending = y, !.output_failed = z] =>
              s = [active |-> x, pending |-> y,
                   full_redraw_required |-> p.full_redraw_required, output_failed |-> z]
<1>1. ASSUME s = [p EXCEPT !.active = x]
      PROVE  s = [active |-> x, pending |-> p.pending,
                  full_redraw_required |-> p.full_redraw_required, output_failed |-> p.output_failed]
  BY <1>1
<1>2. ASSUME s = [p EXCEPT !.pending = x, !.full_redraw_required = y]
      PROVE  s = [active |-> p.active, pending |-> x,
                  full_redraw_required |-> y, output_failed |-> p.output_failed]
  BY <1>2
<1>3. ASSUME s = [p EXCEPT !.active = x, !.pending = y, !.full_redraw_required = z]
      PROVE  s = [active |-> x, pending |-> y,
                  full_redraw_required |-> z, output_failed |-> p.output_failed]
  BY <1>3
<1>4. ASSUME s = [p EXCEPT !.active = x, !.pending = y, !.output_failed = z]
      PROVE  s = [active |-> x, pending |-> y,
                  full_redraw_required |-> p.full_redraw_required, output_failed |-> z]
  BY <1>4
<1> QED BY <1>1, <1>2, <1>3, <1>4

\* An action that leaves screen, frames and retained picture alone.
LEMMA LooksKept ==
  ASSUME ScreenInv, UNCHANGED <<patient, renderer, pump, screen>>,
         shown' => shown, ~stained' => ~stained,
         ~dirty' => ~dirty /\ statusRow' = statusRow
  PROVE  PumpSound' /\ Screen!QueueLeadsToPicture'
<1>1. Screen!Arriving' = Screen!Arriving
  BY DEF Screen!Arriving, Screen!ApplyAll, Screen!Concerns, Screen!Apply, Screen!Blanked
<1>2. PumpSound'
  BY DEF ScreenInv, PumpSound, Screen!Idle
<1>3. Screen!QueueLeadsToPicture'
  BY <1>1 DEF ScreenInv, Screen!QueueLeadsToPicture
<1> QED BY <1>2, <1>3

\* The frame that is rendered.
LEMMA FrameSettles ==
  ASSUME ScreenTypes
  PROVE  LET F == Screen!Drawn(picture) \o Screen!Restore
         IN  /\ F \in Seq(Chunks) /\ F # <<>>
             /\ Screen!FullRedraw => \A c \in Cells : Settles(F, c, picture[c])
             /\ ~Screen!FullRedraw =>
                  \A c \in Cells : IF picture[c] # renderer.previous[c]
                                   THEN Settles(F, c, picture[c]) ELSE Silent(F, c)
             /\ dirty \/ ~renderer.initialized => Settles(F, "status", statusRow)
             /\ ~Screen!FullRedraw /\ ~dirty => Silent(F, "status")
<1> DEFINE D == Screen!Drawn(picture)
           R == Screen!Restore
           F == D \o R
<1>1. /\ D \in Seq(Chunks)
      /\ Screen!FullRedraw => \A c \in Cells : Settles(D, c, picture[c])
      /\ ~Screen!FullRedraw =>
           /\ \A c \in Cells : IF picture[c] # renderer.previous[c]
                               THEN Settles(D, c, picture[c]) ELSE Silent(D, c)
           /\ Silent(D, "status")
  BY DrawnSettles DEF ScreenTypes
<1>2. /\ R \in Seq(Chunks)
      /\ \A c \in Cells : Silent(R, c)
      /\ Settles(R, "prompt", commandLine)
      /\ IF dirty \/ ~renderer.initialized THEN Settles(R, "status", statusRow)
         ELSE Silent(R, "status")
  BY RestoreSettles DEF ScreenTypes
<1> HIDE DEF D, R
<1>3. /\ F \in Seq(Chunks)
      /\ \A p : Silent(D, p) /\ Silent(R, p) => Silent(F, p)
      /\ \A p, v : Settles(D, p, v) /\ Silent(R, p) => Settles(F, p, v)
      /\ \A p, v : Settles(R, p, v) => Settles(F, p, v)
  BY <1>1, <1>2, JoinedSettle
<1> HIDE DEF F
<1>4. F # <<>>
  <2>1. PICK i \in 1 .. Len(F) : TRUE
    BY <1>2, <1>3 DEF Settles
  <2>2. Len(F) # 0
    BY <2>1
  <2> QED BY <2>2
<1>5. ~Screen!FullRedraw => renderer.initialized
  BY DEF Screen!FullRedraw
<1>6. Screen!FullRedraw => \A c \in Cells : Settles(F, c, picture[c])
  BY <1>1, <1>2, <1>3
<1>7. ~Screen!FullRedraw =>
        \A c \in Cells : IF picture[c] # renderer.previous[c]
                         THEN Settles(F, c, picture[c]) ELSE Silent(F, c)
  BY <1>1, <1>2, <1>3
<1>8. dirty \/ ~renderer.initialized => Settles(F, "status", statusRow)
  BY <1>2, <1>3
<1>9. ~Screen!FullRedraw /\ ~dirty => Silent(F, "status")
  BY <1>1, <1>2, <1>3, <1>5
<1> QED BY <1>3, <1>4, <1>6, <1>7, <1>8, <1>9 DEF F, D, R

LEMMA RenderKeeps ==
  ASSUME ScreenInv, Screen!Render
  PROVE  ScreenInv'
<1> DEFINE kind == IF Screen!FullRedraw THEN "full" ELSE "delta"
           F == Screen!Drawn(picture) \o Screen!Restore
           frame == [kind |-> kind, chunks |-> F]
           spurned == Screen!RefusedBy(pump, frame)
           A == pump.active.chunks
<1>1. /\ patient => Screen!Idle(pump)
      /\ pump' = IF ~spurned THEN Screen!Accepted(pump, frame)
                 ELSE [pump EXCEPT !.pending = IF pump.full_redraw_required THEN @ ELSE Screen!NoFrame,
                                   !.full_redraw_required = TRUE]
      /\ renderer' = [initialized |-> live \/ ~spurned, previous |-> picture]
      /\ dirty' = FALSE /\ stained' = (stained /\ kind = "delta")
      /\ UNCHANGED <<live, patient, shown, picture, statusRow, commandLine, screen>>
  BY DEF Screen!Render, Screen!Committed
<1>2. /\ F \in Seq(Chunks) /\ F # <<>>
      /\ Screen!FullRedraw => \A c \in Cells : Settles(F, c, picture[c])
      /\ ~Screen!FullRedraw =>
           \A c \in Cells : IF picture[c] # renderer.previous[c]
                            THEN Settles(F, c, picture[c]) ELSE Silent(F, c)
      /\ dirty \/ ~renderer.initialized => Settles(F, "status", statusRow)
      /\ ~Screen!FullRedraw /\ ~dirty => Silent(F, "status")
  BY FrameSettles DEF ScreenInv
<1>3. ScreenTypes /\ PumpSound /\ Screen!QueueLeadsToPicture
  BY DEF ScreenInv
<1> HIDE DEF F
<1>4. frame \in Frames /\ frame # Screen!NoFrame /\ frame.kind = kind /\ frame.chunks = F
  BY <1>2 DEF Frames, Screen!NoFrame
<1>5. spurned <=> kind = "delta" /\ (pump.full_redraw_required \/ (~Screen!Idle(pump) /\ pump.pending # Screen!NoFrame))
  BY <1>4 DEF Screen!RefusedBy
<1>6. kind = "delta" <=> renderer.initialized /\ ~pump.full_redraw_required
  BY DEF Screen!FullRedraw
<1>7. kind \in {"full", "delta"} /\ (Screen!FullRedraw <=> kind # "delta")
  OBVIOUS
<1> HIDE DEF kind, frame, spurned
<1>8. A \in Seq(Chunks) /\ (Screen!Idle(pump) => A = <<>>)
  BY <1>3, FrameChunks DEF ScreenTypes, Screen!Idle, Screen!NoFrame
<1>9. CASE spurned
  <2>1. pump' = [active |-> pump.active,
                 pending |-> IF pump.full_redraw_required THEN pump.pending ELSE Screen!NoFrame,
                 full_redraw_required |-> TRUE, output_failed |-> pump.output_failed]
    <3>1. pump = [active |-> pump.active, pending |-> pump.pending,
                  full_redraw_required |-> pump.full_redraw_required,
                  output_failed |-> pump.output_failed]
      BY <1>3 DEF ScreenTypes
    <3> DEFINE x == IF pump.full_redraw_required THEN pump.pending ELSE Screen!NoFrame
    <3>2. pump' = [pump EXCEPT !.pending = x, !.full_redraw_required = TRUE]
      BY <1>1, <1>9
    <3> HIDE DEF x
    <3>3. pump' = [active |-> pump.active, pending |-> x,
                   full_redraw_required |-> TRUE, output_failed |-> pump.output_failed]
      BY <3>1, <3>2, PumpSet
    <3> QED BY <3>3 DEF x
  <2>2. ~pump.full_redraw_required
    BY <1>5, <1>6, <1>9
  <2>3. ~patient
    BY <1>1, <1>3, <1>5, <1>9, <2>2
  <2>4. Screen!NoFrame \in Frames
    BY DEF Frames
  <2>5. ScreenTypes'
    <3>1. renderer' = [initialized |-> live, previous |-> picture]
      BY <1>1, <1>3, <1>9 DEF ScreenTypes
    <3>2. /\ pump'.active \in Frames /\ pump'.pending \in Frames
          /\ pump'.full_redraw_required \in BOOLEAN
          /\ pump' = [active |-> pump'.active, pending |-> pump'.pending,
                      full_redraw_required |-> pump'.full_redraw_required,
                      output_failed |-> pump'.output_failed]
      BY <1>3, <2>1, <2>4 DEF ScreenTypes
    <3>3. renderer'.initialized \in BOOLEAN
          /\ renderer' = [initialized |-> renderer'.initialized, previous |-> renderer'.previous]
      BY <1>3, <3>1 DEF ScreenTypes
    <3> QED BY <1>1, <1>3, <3>2, <3>3 DEF ScreenTypes
  <2>6. PumpSound'
    BY <1>1, <1>3, <2>1, <2>2, <2>3 DEF PumpSound, Screen!Idle
  <2>7. Screen!QueueLeadsToPicture'
    BY <2>1 DEF Screen!QueueLeadsToPicture
  <2> QED BY <2>5, <2>6, <2>7 DEF ScreenInv
<1>10. CASE ~spurned
  <2>1. pump' = [active |-> IF Screen!Idle(pump) THEN frame ELSE pump.active,
                 pending |-> IF Screen!Idle(pump) THEN Screen!NoFrame ELSE frame,
                 full_redraw_required |-> pump.full_redraw_required /\ kind # "full",
                 output_failed |-> pump.output_failed]
    <3>1. pump = [active |-> pump.active, pending |-> pump.pending,
                  full_redraw_required |-> pump.full_redraw_required,
                  output_failed |-> pump.output_failed]
      BY <1>3 DEF ScreenTypes
    <3> DEFINE x == IF Screen!Idle(pump) THEN frame ELSE pump.active
               y == IF Screen!Idle(pump) THEN Screen!NoFrame ELSE frame
               z == pump.full_redraw_required /\ kind # "full"
    <3>2. pump' = [pump EXCEPT !.active = x, !.pending = y, !.full_redraw_required = z]
      BY <1>1, <1>4, <1>10 DEF Screen!Accepted
    <3> HIDE DEF x, y, z
    <3>3. pump' = [active |-> x, pending |-> y,
                   full_redraw_required |-> z, output_failed |-> pump.output_failed]
      BY <3>1, <3>2, PumpSet
    <3> QED BY <3>3 DEF x, y, z
  <2>2. ~pump'.full_redraw_required
    BY <1>6, <1>7, <2>1
  <2>3. ScreenTypes'
    <3>1. Screen!NoFrame \in Frames
      BY DEF Frames
    <3>2. pump'.active \in Frames /\ pump'.pending \in Frames
      BY <1>3, <1>4, <2>1, <3>1 DEF ScreenTypes
    <3>3. pump' = [active |-> pump'.active, pending |-> pump'.pending,
                   full_redraw_required |-> pump'.full_redraw_required,
                   output_failed |-> pump'.output_failed]
      BY <2>1
    <3>4. pump'.full_redraw_required = FALSE
      BY <1>3, <1>6, <1>7, <2>1 DEF ScreenTypes
    <3>5. renderer' = [initialized |-> TRUE, previous |-> picture]
      BY <1>1, <1>10
    <3>6. renderer'.initialized \in BOOLEAN
          /\ renderer' = [initialized |-> renderer'.initialized, previous |-> renderer'.previous]
      BY <3>5
    <3>7. pump'.full_redraw_required \in BOOLEAN
      BY <3>4
    <3> QED BY <1>1, <1>3, <3>2, <3>3, <3>6, <3>7 DEF ScreenTypes
  <2>4. PumpSound'
    <3>1. Screen!Idle(pump)' => pump'.pending = Screen!NoFrame
      BY <1>4, <2>1 DEF Screen!Idle
    <3> QED BY <2>2, <3>1 DEF PumpSound
  <2>5. pump'.active.chunks \o pump'.pending.chunks = A \o F
    <3>1. CASE Screen!Idle(pump)
      <4>1. pump'.active.chunks = F /\ pump'.pending.chunks = <<>>
        BY <1>4, <2>1, <3>1 DEF Screen!NoFrame
      <4>2. F \o <<>> = F /\ <<>> \o F = F
        BY <1>2, ConcatEmptySeq
      <4> QED BY <1>8, <3>1, <4>1, <4>2
    <3>2. CASE ~Screen!Idle(pump)
      BY <1>4, <2>1, <3>2
    <3> QED BY <3>1, <3>2
  <2> DEFINE W == A \o F
  <2>6. Screen!Arriving' = Screen!ApplyAll(screen, W)
    <3>1. Screen!Arriving' = Screen!ApplyAll(screen', pump'.active.chunks \o pump'.pending.chunks)
      BY DEF Screen!Arriving, Screen!ApplyAll, Screen!Concerns, Screen!Apply, Screen!Blanked
    <3> QED BY <1>1, <2>5, <3>1
  <2>7. /\ W \in Seq(Chunks)
        /\ \A p, v : Settles(F, p, v) => Settles(W, p, v)
    BY <1>2, <1>8, JoinedSettle
  <2>8. DOMAIN screen = Screen!Places
    BY <1>3 DEF ScreenTypes
  <2>9. ASSUME NEW p \in Screen!Places, Silent(F, p)
        PROVE  Screen!ApplyAll(screen, W)[p] = Screen!ApplyAll(screen, A)[p]
    BY <1>2, <1>8, <2>8, <2>9, SilentBehind
  <2> HIDE DEF W
  <2>10. ASSUME NEW p \in Screen!Places, NEW v, Settles(F, p, v)
         PROVE  Screen!ApplyAll(screen, W)[p] = v
    BY <2>7, <2>8, <2>10, WhatShows
  <2>11. kind = "delta" => Screen!Arriving = Screen!ApplyAll(screen, A)
    <3> SUFFICES ASSUME kind = "delta" PROVE Screen!Arriving = Screen!ApplyAll(screen, A)
      OBVIOUS
    <3>1. pump.pending = Screen!NoFrame
      BY <1>3, <1>5, <1>10 DEF PumpSound
    <3>2. pump.pending.chunks = <<>>
      BY <3>1 DEF Screen!NoFrame
    <3>3. A \o <<>> = A
      BY <1>8, ConcatEmptySeq
    <3> QED BY <3>2, <3>3 DEF Screen!Arriving
  <2>12. ASSUME shown', ~stained', NEW c \in Cells
         PROVE  Screen!Arriving'[c] = picture[c]
    <3>1. c \in Screen!Places
      BY PlacesApart
    <3>2. CASE kind # "delta"
      BY <1>2, <1>7, <2>6, <2>10, <3>1, <3>2
    <3>3. CASE kind = "delta" /\ picture[c] # renderer.previous[c]
      BY <1>2, <1>7, <2>6, <2>10, <3>1, <3>3
    <3>4. CASE kind = "delta" /\ picture[c] = renderer.previous[c]
      <4>1. Silent(F, c)
        BY <1>2, <1>7, <3>4
      <4>2. shown /\ ~stained
        BY <1>1, <2>12, <3>4
      <4>3. Screen!Arriving[c] = renderer.previous[c]
        BY <1>3, <1>6, <3>4, <4>2 DEF Screen!QueueLeadsToPicture
      <4> QED BY <2>6, <2>9, <2>11, <3>1, <3>4, <4>1, <4>3
    <3> QED BY <3>2, <3>3, <3>4
  <2>13. ASSUME shown', ~stained', patient
         PROVE  Screen!Arriving'["status"] = statusRow
    <3>1. "status" \in Screen!Places
      BY PlacesApart
    <3>2. CASE dirty \/ ~renderer.initialized
      BY <1>2, <2>6, <2>10, <3>1, <3>2
    <3>3. CASE ~dirty /\ renderer.initialized
      <4>1. ~pump.full_redraw_required /\ kind = "delta"
        BY <1>3, <1>6, <2>13, <3>3 DEF PumpSound
      <4>2. shown /\ ~stained /\ Silent(F, "status")
        BY <1>1, <1>2, <1>7, <2>13, <3>3, <4>1
      <4>3. Screen!Arriving["status"] = statusRow
        BY <1>3, <2>13, <3>3, <4>1, <4>2 DEF Screen!QueueLeadsToPicture
      <4> QED BY <2>6, <2>9, <2>11, <3>1, <4>1, <4>2, <4>3
    <3> QED BY <3>2, <3>3
  <2>14. Screen!QueueLeadsToPicture'
    BY <1>1, <2>12, <2>13 DEF Screen!QueueLeadsToPicture
  <2> QED BY <2>3, <2>4, <2>14 DEF ScreenInv
<1> QED BY <1>9, <1>10

\* A chunk is sent: what the screen will show in the end stays.
LEMMA ChunkKeeps ==
  ASSUME ScreenInv, Screen!Drain
  PROVE  ScreenInv'
<1> DEFINE f == pump.active
           pc1 == pump.pending.chunks
           h == Head(f.chunks)
           t == Tail(f.chunks)
<1>1. /\ f # Screen!NoFrame /\ screen' = Screen!Apply(screen, h)
      /\ pump' = Screen!Sent(pump)
      /\ UNCHANGED <<live, patient, shown, picture, statusRow, dirty, commandLine, renderer, stained>>
  BY DEF Screen!Drain, Screen!Idle, Screen!dashboard, Screen!wanted
<1>2. ScreenTypes /\ PumpSound /\ Screen!QueueLeadsToPicture
  BY DEF ScreenInv
<1>3. /\ f \in Frames /\ pump.pending \in Frames
      /\ pump = [active |-> f, pending |-> pump.pending,
                 full_redraw_required |-> pump.full_redraw_required,
                 output_failed |-> pump.output_failed]
      /\ DOMAIN screen = Screen!Places
  BY <1>2 DEF ScreenTypes
<1>4. /\ f.chunks \in Seq(Chunks) /\ f.chunks # <<>> /\ pc1 \in Seq(Chunks)
      /\ f = [kind |-> f.kind, chunks |-> f.chunks] /\ f.kind \in {"full", "delta"}
  BY <1>1, <1>3, FrameChunks
<1>5. /\ <<h>> \o t = f.chunks /\ h \in Chunks /\ t \in Seq(Chunks)
      /\ Len(f.chunks) \in Nat \ {0} /\ Len(t) = Len(f.chunks) - 1
  BY <1>4, HeadFirst, HeadTailProperties
<1>6. Screen!NoFrame \in Frames
  BY DEF Frames
<1>7. /\ pump'.full_redraw_required = pump.full_redraw_required
      /\ pump'.active \in Frames /\ pump'.pending \in Frames
      /\ pump' = [active |-> pump'.active, pending |-> pump'.pending,
                  full_redraw_required |-> pump'.full_redraw_required,
                  output_failed |-> pump'.output_failed]
      /\ pump'.active = Screen!NoFrame => pump'.pending = Screen!NoFrame
      /\ pump'.active.chunks \o pump'.pending.chunks = t \o pc1
  <2>1. CASE Len(f.chunks) > 1
    <3> DEFINE g == [kind |-> f.kind, chunks |-> t]
    <3>1. pump' = [pump EXCEPT !.active = [f EXCEPT !.chunks = t]]
      BY <1>1, <2>1 DEF Screen!Sent
    <3>2. [f EXCEPT !.chunks = t] = g
      <4> HIDE DEF f, t
      <4> QED BY <1>4
    <3>3. t # <<>>
      <4>1. Len(t) # 0
        BY <1>5, <2>1
      <4> HIDE DEF t
      <4> QED BY <4>1
    <3>4. g \in Frames /\ g # Screen!NoFrame /\ g.chunks = t
      BY <1>4, <1>5, <3>3 DEF Frames, Screen!NoFrame
    <3> HIDE DEF g
    <3>5. pump' = [active |-> g, pending |-> pump.pending,
                   full_redraw_required |-> pump.full_redraw_required,
                   output_failed |-> pump.output_failed]
      BY <1>3, <3>1, <3>2, PumpSet
    <3> QED BY <1>3, <3>4, <3>5
  <2>2. CASE ~(Len(f.chunks) > 1)
    <3> DEFINE o == pump.output_failed /\ f.kind # "full"
    <3>1. pump' = [pump EXCEPT !.active = pump.pending, !.pending = Screen!NoFrame, !.output_failed = o]
      BY <1>1, <2>2 DEF Screen!Sent
    <3> HIDE DEF o
    <3>2. pump' = [active |-> pump.pending, pending |-> Screen!NoFrame,
                   full_redraw_required |-> pump.full_redraw_required, output_failed |-> o]
      BY <1>3, <3>1, PumpSet
    <3>3. t = <<>>
      <4>1. Len(t) = 0
        BY <1>5, <2>2
      <4> QED BY <1>5, <4>1, EmptySeq
    <3>4. pc1 \o <<>> = pc1 /\ <<>> \o pc1 = pc1
      BY <1>4, ConcatEmptySeq
    <3>5. Screen!NoFrame.chunks = <<>>
      BY DEF Screen!NoFrame
    <3> QED BY <1>3, <1>6, <3>2, <3>3, <3>4, <3>5
  <2> QED BY <2>1, <2>2
<1> DEFINE rest == t \o pc1
<1>8. rest \in Seq(Chunks)
  BY <1>4, <1>5, ConcatProperties
<1>9. f.chunks \o pc1 = <<h>> \o rest
  <2>1. <<h>> \in Seq(Chunks)
    BY <1>5
  <2>2. Associates(<<h>>, t, pc1)
    BY <1>4, <1>5, <2>1, Associative
  <2> QED BY <1>5, <2>2 DEF Associates
<1>10. Screen!Arriving' = Screen!ApplyAll(Screen!Apply(screen, h), rest)
  BY <1>1, <1>7 DEF Screen!Arriving, Screen!ApplyAll, Screen!Concerns, Screen!Apply, Screen!Blanked
<1>11. Screen!Arriving = Screen!ApplyAll(screen, <<h>> \o rest)
  BY <1>9 DEF Screen!Arriving
<1> HIDE DEF rest, h
<1>12. \A p \in Screen!Places : Screen!Arriving'[p] = Screen!Arriving[p]
  BY <1>3, <1>5, <1>8, <1>10, <1>11, FirstSent
<1>13. \A c \in Cells : c \in Screen!Places
  BY PlacesApart
<1>14. "status" \in Screen!Places
  BY PlacesApart
<1>15. Screen!QueueLeadsToPicture'
  BY <1>1, <1>2, <1>7, <1>12, <1>13, <1>14 DEF Screen!QueueLeadsToPicture
<1>16. DOMAIN screen' = Screen!Places
  BY <1>1, <1>3 DEF Screen!Apply, Screen!Blanked
<1>17. ScreenTypes'
  BY <1>1, <1>2, <1>7, <1>16 DEF ScreenTypes
<1>18. PumpSound'
  BY <1>1, <1>2, <1>7 DEF PumpSound, Screen!Idle
<1> QED BY <1>15, <1>17, <1>18 DEF ScreenInv

\* The renderer is asked for a full frame: nothing is claimed of what is queued.
LEMMA ResetKeeps ==
  ASSUME ScreenInv, ~renderer'.initialized,
         renderer' = [renderer EXCEPT !.initialized = FALSE],
         \/ pump' = pump \/ pump' = Screen!NewPump
         \/ pump' = Screen!Discarded(pump)
         \/ pump' = [pump EXCEPT !.full_redraw_required = TRUE],
         live' \in BOOLEAN, dirty' \in BOOLEAN, picture' = picture,
         statusRow' \in Values, commandLine' \in Values, DOMAIN screen' = Screen!Places
  PROVE  ScreenInv'
<1>1. ScreenTypes /\ PumpSound
  BY DEF ScreenInv
<1>2. pump = [active |-> pump.active, pending |-> pump.pending,
              full_redraw_required |-> pump.full_redraw_required,
              output_failed |-> pump.output_failed]
  BY <1>1 DEF ScreenTypes
<1>3. /\ pump'.active \in Frames /\ pump'.pending \in Frames
      /\ pump'.full_redraw_required \in BOOLEAN
      /\ pump' = [active |-> pump'.active, pending |-> pump'.pending,
                  full_redraw_required |-> pump'.full_redraw_required,
                  output_failed |-> pump'.output_failed]
      /\ pump'.active = Screen!NoFrame => pump'.pending = Screen!NoFrame
  <2>1. Screen!NoFrame \in Frames
    BY DEF Frames
  <2>2. CASE pump' = pump
    BY <1>1, <1>2, <2>2 DEF ScreenTypes, PumpSound, Screen!Idle
  <2>3. CASE pump' = Screen!NewPump
    BY <2>1, <2>3 DEF Screen!NewPump
  <2>4. CASE pump' = Screen!Discarded(pump)
    <3>1. pump' = [active |-> Screen!NoFrame, pending |-> Screen!NoFrame,
                   full_redraw_required |-> TRUE, output_failed |-> TRUE]
      BY <2>4 DEF Screen!NewPump, Screen!Discarded
    <3> QED BY <2>1, <3>1
  <2>5. CASE pump' = [pump EXCEPT !.full_redraw_required = TRUE]
    <3>1. pump' = [active |-> pump.active, pending |-> pump.pending,
                   full_redraw_required |-> TRUE, output_failed |-> pump.output_failed]
      BY <1>2, <2>5
    <3> QED BY <1>1, <3>1 DEF ScreenTypes, PumpSound, Screen!Idle
  <2> QED BY <2>2, <2>3, <2>4, <2>5
<1>4. renderer'.initialized \in BOOLEAN
      /\ renderer' = [initialized |-> renderer'.initialized, previous |-> renderer'.previous]
  BY <1>1 DEF ScreenTypes
<1>5. ScreenTypes'
  BY <1>1, <1>3, <1>4 DEF ScreenTypes
<1>6. PumpSound'
  BY <1>3 DEF PumpSound, Screen!Idle
<1>7. Screen!QueueLeadsToPicture'
  BY DEF Screen!QueueLeadsToPicture
<1> QED BY <1>5, <1>6, <1>7 DEF ScreenInv

LEMMA ScreenNext ==
  ASSUME ScreenInv, [Screen!Next]_(Screen!vars)
  PROVE  ScreenInv'
<1>1. ScreenTypes /\ Words \subseteq Values /\ "" \in Values
  BY DEF ScreenInv, Values
<1>2. CASE Screen!Change
  <2>1. /\ UNCHANGED <<live, patient, shown, renderer, pump, screen, stained>>
        /\ \/ \E c \in Cells, g \in Glyphs : picture' = [picture EXCEPT ![c] = g]
                                            /\ UNCHANGED <<statusRow, dirty, commandLine>>
           \/ statusRow' \in Words /\ dirty' = TRUE /\ UNCHANGED <<picture, commandLine>>
           \/ commandLine' \in Words /\ UNCHANGED <<picture, statusRow, dirty>>
    BY <1>2 DEF Screen!Change, Screen!dashboard
  <2>2. PumpSound' /\ Screen!QueueLeadsToPicture'
    BY <2>1, LooksKept
  <2>3. ScreenTypes'
    BY <1>1, <2>1 DEF ScreenTypes
  <2> QED BY <2>2, <2>3 DEF ScreenInv
<1>3. CASE Screen!Render
  BY <1>3, RenderKeeps
<1>4. CASE Screen!Drain
  BY <1>4, ChunkKeeps
<1>5. CASE Screen!RenderFails
  <2>1. /\ pump' = [pump EXCEPT !.full_redraw_required = TRUE]
        /\ renderer' = [renderer EXCEPT !.initialized = FALSE]
        /\ statusRow' \in Words /\ dirty' = TRUE
        /\ UNCHANGED <<live, picture, commandLine, screen>>
    BY <1>5 DEF Screen!RenderFails, Screen!dashboard
  <2>2. /\ ~renderer'.initialized /\ live' \in BOOLEAN /\ commandLine' \in Values
        /\ DOMAIN screen' = Screen!Places
    BY <1>1, <2>1 DEF ScreenTypes
  <2> QED BY <1>1, <2>1, <2>2, ResetKeeps
<1>6. CASE Screen!DrainFails
  <2>1. /\ pump' = Screen!Discarded(pump)
        /\ renderer' = [renderer EXCEPT !.initialized = FALSE]
        /\ statusRow' \in Words /\ dirty' = TRUE
        /\ screen' \in {screen, Screen!Apply(screen, Head(pump.active.chunks))}
        /\ UNCHANGED <<live, picture, commandLine>>
    BY <1>6 DEF Screen!DrainFails, Screen!dashboard
  <2>2. ~renderer'.initialized /\ live' \in BOOLEAN /\ commandLine' \in Values
    BY <1>1, <2>1 DEF ScreenTypes
  <2>3. DOMAIN screen' = Screen!Places
    BY <1>1, <2>1 DEF ScreenTypes, Screen!Apply, Screen!Blanked
  <2> QED BY <1>1, <2>1, <2>2, <2>3, ResetKeeps
<1>7. CASE Screen!LiveCommand
  <2>1. /\ pump' = Screen!NewPump
        /\ renderer' = [renderer EXCEPT !.initialized = FALSE]
        /\ screen' \in {Screen!Blanked, [p \in Screen!Places |-> Screen!Text]}
        /\ commandLine' = ""
        /\ UNCHANGED <<statusRow, dirty>> \/ (statusRow' \in Words /\ dirty' = TRUE)
        /\ live' = live \/ live' \in BOOLEAN
        /\ picture' = picture
    BY <1>7 DEF Screen!LiveCommand
  <2>2. /\ ~renderer'.initialized /\ live' \in BOOLEAN /\ commandLine' \in Values
        /\ statusRow' \in Values /\ dirty' \in BOOLEAN
    BY <1>1, <2>1 DEF ScreenTypes
  <2>3. DOMAIN screen' = Screen!Places
    BY <2>1 DEF Screen!Blanked
  <2> QED BY <2>1, <2>2, <2>3, ResetKeeps
<1>8. CASE Screen!Stop
  <2>1. /\ UNCHANGED <<live, patient, shown, picture, renderer, pump, screen, stained>>
        /\ statusRow' \in Words /\ dirty' = TRUE /\ commandLine' = ""
    BY <1>8 DEF Screen!Stop
  <2>2. PumpSound' /\ Screen!QueueLeadsToPicture'
    BY <2>1, LooksKept
  <2>3. ScreenTypes'
    BY <1>1, <2>1 DEF ScreenTypes
  <2> QED BY <2>2, <2>3 DEF ScreenInv
<1>9. CASE Screen!Stopped
  <2>1. /\ shown' = FALSE /\ live' = FALSE /\ commandLine' = ""
        /\ UNCHANGED <<patient, picture, statusRow, dirty, renderer, pump, screen, stained>>
    BY <1>9 DEF Screen!Stopped
  <2>2. PumpSound' /\ Screen!QueueLeadsToPicture'
    BY <2>1, LooksKept
  <2>3. ScreenTypes'
    BY <1>1, <2>1 DEF ScreenTypes
  <2> QED BY <2>2, <2>3 DEF ScreenInv
<1>10. CASE Screen!Resume
  <2>1. /\ screen' = [p \in Screen!Places |-> Screen!Text]
        /\ statusRow' \in Words /\ dirty' = TRUE
        /\ UNCHANGED <<patient, picture, commandLine>>
        /\ \/ stained' = renderer.initialized /\ UNCHANGED <<live, renderer, pump>>
           \/ /\ live' = TRUE /\ pump' = Screen!NewPump
              /\ renderer' = [renderer EXCEPT !.initialized = FALSE]
    BY <1>10 DEF Screen!Resume
  <2>2. DOMAIN screen' = Screen!Places /\ commandLine' \in Values
    BY <1>1, <2>1 DEF ScreenTypes
  <2>3. CASE stained' = renderer.initialized /\ UNCHANGED <<live, renderer, pump>>
    <3>1. ScreenTypes'
      BY <1>1, <2>1, <2>2, <2>3 DEF ScreenTypes
    <3>2. PumpSound'
      BY <2>1, <2>3 DEF ScreenInv, PumpSound, Screen!Idle
    <3>3. Screen!QueueLeadsToPicture'
      BY <2>3 DEF Screen!QueueLeadsToPicture
    <3> QED BY <3>1, <3>2, <3>3 DEF ScreenInv
  <2>4. CASE /\ live' = TRUE /\ pump' = Screen!NewPump
             /\ renderer' = [renderer EXCEPT !.initialized = FALSE]
    <3>1. ~renderer'.initialized
      BY <1>1, <2>4 DEF ScreenTypes
    <3> QED BY <1>1, <2>1, <2>2, <2>4, <3>1, ResetKeeps
  <2> QED BY <2>1, <2>3, <2>4
<1>11. CASE UNCHANGED Screen!vars
  <2>1. UNCHANGED <<live, patient, shown, picture, statusRow, dirty, commandLine, renderer, pump,
                    screen, stained>>
    BY <1>11 DEF Screen!vars, Screen!dashboard, Screen!wanted
  <2>2. PumpSound' /\ Screen!QueueLeadsToPicture'
    BY <2>1, LooksKept
  <2>3. ScreenTypes'
    BY <1>1, <2>1 DEF ScreenTypes
  <2> QED BY <2>2, <2>3 DEF ScreenInv
<1> QED BY <1>2, <1>3, <1>4, <1>5, <1>6, <1>7, <1>8, <1>9, <1>10, <1>11 DEF Screen!Next

LEMMA ScreenInit ==
  ASSUME Screen!Init
  PROVE  ScreenInv
<1>1. Screen!NoFrame \in Frames /\ Glyphs # {}
  BY ComponentAssumptions DEF Frames, Screen!DisplayAssumption
<1>2. ScreenTypes
  BY <1>1 DEF Screen!Init, ScreenTypes, Values, Screen!NewPump
<1>3. ~renderer.initialized /\ pump.pending = Screen!NoFrame
  BY DEF Screen!Init, Screen!NewPump
<1>4. PumpSound /\ Screen!QueueLeadsToPicture
  BY <1>3 DEF PumpSound, Screen!QueueLeadsToPicture
<1> QED BY <1>2, <1>4 DEF ScreenInv

\* Whatever is dropped, refused, reset and retried on the way to the screen, a
\* difference is only ever sent to a screen that will show the picture it was
\* taken from.
THEOREM QueueIsTrue == Screen!Spec => []QueueLeadsToPicture
<1>1. Screen!Init => ScreenInv
  BY ScreenInit
<1>2. ScreenInv /\ [Screen!Next]_(Screen!vars) => ScreenInv'
  BY ScreenNext
<1>3. ScreenInv => QueueLeadsToPicture
  BY DEF ScreenInv, QueueLeadsToPicture
<1> QED BY <1>1, <1>2, <1>3, PTL DEF Screen!Spec

-----------------------------------------------------------------------------
(* A train that is followed by its sensors.  Of the reports that are still *)
(* to be read none is of a sensor ahead of the train on this leg of its    *)
(* route, and a leg passes no sensor twice.                                *)

Count == [count : Nat, foreign : Nat]
States == {"idle", "planning", "preparing", "ready", "looked", "checked", "launching", "running",
           "braking", "reversing", "arrived", "uncertain", "failed"}
Trip == [state : States, generation : Nat, route : Seq(Int), start : Nat \ {0},
         confirmed : Nat, prepared : Count, final : Count, cursor : Nat, missed : BOOLEAN,
         missing : Nat, spurious : Nat, tolerated : BOOLEAN, seen : BOOLEAN, turned : BOOLEAN]

Hand == [is : {"idle", "taken", "owned", "foreign"}, sensor : Int, generation : Nat]
Rolling == [at : Int, dir : Int, rolls : BOOLEAN]

TripTypes ==
  /\ trip \in Trip /\ reached \in Nat \ {0} /\ plan \in Nat /\ foreign \in Nat
  /\ train \in Rolling
  /\ reports \in Seq(Int) /\ server \in Hand
  /\ journal \in Seq([sensor : Int, generation : Nat])

\* Where a route comes back to a sensor it has turned round in between.
TurnsBack(route) ==
  \A i, k \in 1 .. Len(route) :
    i < k /\ route[i] = route[k] => \E m \in i .. k - 1 : route[m] = route[m + 1]

\* s is not passed again by j on this leg, beyond place n of the route.
NotAhead(s, j, n) == \A i \in n + 1 .. Trips!LegEnd(j) : j.route[i] # s

\* Nor are the sensors of the events after number c, of the report at hand and
\* of those on their way.
Heard(c, past, hand, way, j, n) ==
  /\ \A i \in c + 1 .. Len(past) : NotAhead(past[i].sensor, j, n)
  /\ hand.is # "idle" => NotAhead(hand.sensor, j, n)
  /\ \A i \in 1 .. Len(way) : NotAhead(way[i], j, n)

\* The numbers the job has seen, and the plans the events belong to.
Numbers ==
  /\ \A i \in 1 .. Len(journal) : journal[i].generation <= plan
  /\ server.generation <= plan
  /\ trip.prepared.count <= Len(journal) /\ trip.final.count <= Len(journal)
  /\ trip.cursor <= Len(journal)
  /\ trip.state \in {"preparing", "ready", "looked", "checked"} => trip.cursor = trip.prepared.count
  /\ trip.state = "checked" => trip.final.count <= trip.prepared.count

Position ==
  /\ TurnsBack(trip.route)
  /\ trip.start <= reached /\ trip.confirmed <= reached
  /\ trip.state = "planning" => trip.confirmed = 1 /\ trip.start = 1
  /\ trip.state \in {"looked", "checked"} =>
       Heard(trip.final.count, journal, server, reports, trip, reached)
  /\ trip.state \in {"launching", "running", "braking"} =>
       Heard(trip.cursor, journal, server, reports, trip, reached)

TripInv == TripTypes /\ Numbers /\ Position

LEMMA LegEnds ==
  ASSUME NEW j \in Trip
  PROVE  /\ Trips!LegEnd(j) \in Nat /\ Trips!LegEnd(j) <= Len(j.route)
         /\ \A m \in j.start .. Trips!LegEnd(j) - 1 : j.route[m] # j.route[m + 1]
<1> DEFINE turns == {i \in j.start .. Len(j.route) - 1 : j.route[i] = j.route[i + 1]}
<1>1. Len(j.route) \in Nat /\ j.start \in Nat
  BY LenProperties DEF Trip
<1>2. CASE turns = {}
  <2>1. Trips!LegEnd(j) = Len(j.route)
    BY <1>2 DEF Trips!LegEnd
  <2> QED BY <1>1, <1>2, <2>1
<1>3. CASE turns # {}
  <2>1. turns \subseteq Nat
    BY <1>1
  <2>2. \E i \in turns : \A k \in turns : i <= k
    BY <1>3, <2>1, SmallestExists
  <2>3. Trips!LegEnd(j) = CHOOSE i \in turns : \A k \in turns : i <= k
    BY <1>3 DEF Trips!LegEnd
  <2>4. Trips!LegEnd(j) \in turns /\ \A k \in turns : Trips!LegEnd(j) <= k
    BY <2>2, <2>3
  <2>5. ASSUME NEW m \in j.start .. Trips!LegEnd(j) - 1, j.route[m] = j.route[m + 1] PROVE FALSE
    <3>1. m \in turns
      BY <1>1, <2>4, <2>5
    <3> QED BY <1>1, <2>1, <2>4, <2>5, <3>1
  <2> QED BY <1>1, <2>4, <2>5
<1> QED BY <1>2, <1>3

LEMMA LegStays ==
  ASSUME NEW j, NEW k, j.route = k.route, j.start = k.start
  PROVE  Trips!LegEnd(j) = Trips!LegEnd(k)
BY DEF Trips!LegEnd

\* A sensor of the leg is not passed again on it.
LEMMA PassedOnce ==
  ASSUME NEW j \in Trip, TurnsBack(j.route), NEW n \in Nat, j.start <= n, n <= Trips!LegEnd(j)
  PROVE  NotAhead(j.route[n], j, n)
<1>1. Len(j.route) \in Nat /\ j.start \in Nat \ {0}
  BY LenProperties DEF Trip
<1>2. Trips!LegEnd(j) \in Nat /\ Trips!LegEnd(j) <= Len(j.route)
  BY LegEnds
<1>3. \A m \in j.start .. Trips!LegEnd(j) - 1 : j.route[m] # j.route[m + 1]
  BY LegEnds
<1>4. ASSUME NEW i \in n + 1 .. Trips!LegEnd(j), j.route[i] = j.route[n] PROVE FALSE
  <2>1. n \in 1 .. Len(j.route) /\ i \in 1 .. Len(j.route) /\ n < i
    BY <1>1, <1>2
  <2>2. PICK m \in n .. i - 1 : j.route[m] = j.route[m + 1]
    BY <1>4, <2>1 DEF TurnsBack
  <2>3. m \in j.start .. Trips!LegEnd(j) - 1
    BY <1>1, <1>2, <2>2
  <2> QED BY <1>3, <2>2, <2>3
<1> QED BY <1>4 DEF NotAhead

LEMMA SpanTurns ==
  ASSUME NEW a \in Int, NEW b \in Int
  PROVE  /\ Trips!Span(a, b) \in Seq(Int)
         /\ \A i, k \in 1 .. Len(Trips!Span(a, b)) : i < k => Trips!Span(a, b)[i] # Trips!Span(a, b)[k]
         /\ Len(Trips!Span(a, b)) \in Nat \ {0}
         /\ Trips!Span(a, b)[1] = a /\ Trips!Span(a, b)[Len(Trips!Span(a, b))] = b
<1> DEFINE s == Trips!Span(a, b)
<1>1. CASE a <= b
  <2>1. s = [i \in 1 .. b - a + 1 |-> a + i - 1]
    BY <1>1 DEF Trips!Span
  <2>2. b - a + 1 \in Nat \ {0} /\ \A i \in 1 .. b - a + 1 : a + i - 1 \in Int
    BY <1>1
  <2>3. s \in Seq(Int) /\ Len(s) = b - a + 1
    BY <2>1, <2>2
  <2>4. \A i \in 1 .. b - a + 1 : s[i] = a + i - 1
    BY <2>1
  <2> HIDE DEF s
  <2> QED BY <2>2, <2>3, <2>4 DEF s
<1>2. CASE ~(a <= b)
  <2>1. s = [i \in 1 .. a - b + 1 |-> a - i + 1]
    BY <1>2 DEF Trips!Span
  <2>2. a - b + 1 \in Nat \ {0} /\ \A i \in 1 .. a - b + 1 : a - i + 1 \in Int
    BY <1>2
  <2>3. s \in Seq(Int) /\ Len(s) = a - b + 1
    BY <2>1, <2>2
  <2>4. \A i \in 1 .. a - b + 1 : s[i] = a - i + 1
    BY <2>1
  <2> HIDE DEF s
  <2> QED BY <2>2, <2>3, <2>4 DEF s
<1> QED BY <1>1, <1>2

LEMMA JoinedTurns ==
  ASSUME NEW s \in Seq(Int), NEW t \in Seq(Int), Len(s) # 0, Len(t) # 0, s[Len(s)] = t[1],
         \A i, k \in 1 .. Len(s) : i < k => s[i] # s[k],
         \A i, k \in 1 .. Len(t) : i < k => t[i] # t[k]
  PROVE  s \o t \in Seq(Int) /\ TurnsBack(s \o t)
<1> DEFINE r == s \o t
<1>1. Len(s) \in Nat /\ Len(t) \in Nat
  BY LenProperties
<1>2. /\ r \in Seq(Int) /\ Len(r) = Len(s) + Len(t)
      /\ \A i \in 1 .. Len(s) + Len(t) : r[i] = IF i <= Len(s) THEN s[i] ELSE t[i - Len(s)]
  BY ConcatProperties
<1> HIDE DEF r
<1>3. ASSUME NEW i \in 1 .. Len(s) + Len(t), NEW k \in 1 .. Len(s) + Len(t), i < k, r[i] = r[k]
      PROVE  \E m \in i .. k - 1 : r[m] = r[m + 1]
  <2>0. i \in Nat /\ k \in Nat
    BY <1>1
  <2>1. CASE k <= Len(s)
    <3>1. i \in 1 .. Len(s) /\ k \in 1 .. Len(s) /\ r[i] = s[i] /\ r[k] = s[k]
      BY <1>1, <1>2, <1>3, <2>1
    <3> QED BY <1>3, <3>1
  <2>2. CASE i > Len(s)
    <3>1. i - Len(s) \in 1 .. Len(t) /\ k - Len(s) \in 1 .. Len(t) /\ i - Len(s) < k - Len(s)
      BY <1>1, <1>3, <2>0, <2>2
    <3>2. /\ r[i] = IF i <= Len(s) THEN s[i] ELSE t[i - Len(s)]
          /\ r[k] = IF k <= Len(s) THEN s[k] ELSE t[k - Len(s)]
      BY <1>2
    <3>3. ~(i <= Len(s)) /\ ~(k <= Len(s))
      BY <1>1, <1>3, <2>0, <2>2
    <3>4. r[i] = t[i - Len(s)] /\ r[k] = t[k - Len(s)]
      BY <3>2, <3>3
    <3> QED BY <1>3, <3>1, <3>4
  <2>3. CASE i <= Len(s) /\ k > Len(s)
    <3>1. Len(s) \in i .. k - 1 /\ Len(s) \in 1 .. Len(s) + Len(t) /\ Len(s) + 1 \in 1 .. Len(s) + Len(t)
      BY <1>1, <2>0, <2>3
    <3>2. PICK n \in 1 .. Len(s) + Len(t) : n = Len(s)
      BY <3>1
    <3>3. PICK m \in 1 .. Len(s) + Len(t) : m = Len(s) + 1
      BY <3>1
    <3>4. n <= Len(s) /\ ~(m <= Len(s)) /\ m - Len(s) = 1
      BY <1>1, <3>2, <3>3
    <3>5. r[n] = s[n]
      BY <1>2, <3>4
    <3>6. r[m] = t[m - Len(s)]
      BY <1>2, <3>4
    <3>7. r[n] = r[m]
      BY <3>2, <3>4, <3>5, <3>6
    <3> QED BY <3>1, <3>2, <3>3, <3>7
  <2> QED BY <1>1, <2>0, <2>1, <2>2, <2>3
<1>4. TurnsBack(r)
  BY <1>2, <1>3 DEF TurnsBack
<1> QED BY <1>2, <1>4 DEF r

LEMMA RoutesTurn ==
  ASSUME TripInv, NEW d \in {1, -1}, NEW r \in Trips!Routes(d)
  PROVE  r \in Seq(Int) /\ TurnsBack(r)
<1> DEFINE from == IF d = 1 THEN train.at ELSE train.at + 1
<1>1. from \in Int /\ Trips!Sensors \subseteq Int
  BY DEF TripInv, TripTypes, Rolling, Trips!Sensors
<1> HIDE DEF from
<1>2. \/ \E e \in Trips!Sensors : r = Trips!Span(from, e)
      \/ \E e, b \in Trips!Sensors : r = Trips!Span(from, e) \o Trips!Span(e, b)
  BY DEF Trips!Routes, from
<1>3. CASE \E e \in Trips!Sensors : r = Trips!Span(from, e)
  <2>1. PICK e \in Trips!Sensors : r = Trips!Span(from, e)
    BY <1>3
  <2>2. e \in Int
    BY <1>1
  <2>3. /\ Trips!Span(from, e) \in Seq(Int)
        /\ \A i, k \in 1 .. Len(Trips!Span(from, e)) : i < k => Trips!Span(from, e)[i] # Trips!Span(from, e)[k]
    BY <1>1, <2>2, SpanTurns
  <2>4. TurnsBack(Trips!Span(from, e))
    BY <2>3 DEF TurnsBack
  <2> QED BY <2>1, <2>3, <2>4
<1>4. CASE \E e, b \in Trips!Sensors : r = Trips!Span(from, e) \o Trips!Span(e, b)
  <2>1. PICK e \in Trips!Sensors, b \in Trips!Sensors : r = Trips!Span(from, e) \o Trips!Span(e, b)
    BY <1>4
  <2> DEFINE s == Trips!Span(from, e)
             t == Trips!Span(e, b)
  <2>2. e \in Int /\ b \in Int
    BY <1>1
  <2>3. /\ s \in Seq(Int) /\ Len(s) # 0 /\ s[Len(s)] = e
        /\ \A i, k \in 1 .. Len(s) : i < k => s[i] # s[k]
    BY <1>1, <2>2, SpanTurns
  <2>4. /\ t \in Seq(Int) /\ Len(t) # 0 /\ t[1] = e
        /\ \A i, k \in 1 .. Len(t) : i < k => t[i] # t[k]
    BY <2>2, SpanTurns
  <2>5. r = s \o t
    BY <2>1
  <2> HIDE DEF s, t
  <2>6. s \o t \in Seq(Int) /\ TurnsBack(s \o t)
    BY <2>3, <2>4, JoinedTurns
  <2> QED BY <2>5, <2>6
<1> QED BY <1>2, <1>3, <1>4

LEMMA HeardSame ==
  ASSUME NEW c, NEW past, NEW hand, NEW way, NEW j, NEW k, NEW n,
         Heard(c, past, hand, way, j, n), j.route = k.route, j.start = k.start
  PROVE  Heard(c, past, hand, way, k, n)
BY LegStays DEF Heard, NotAhead

\* Nothing has come to be read, and nothing is under way.
LEMMA NothingHeard ==
  ASSUME NEW c \in Nat, NEW past, NEW hand, NEW way, NEW j, NEW n,
         Len(past) \in Nat, Len(past) <= c, hand.is = "idle", way = <<>>
  PROVE  Heard(c, past, hand, way, j, n)
<1>1. \A i \in c + 1 .. Len(past) : FALSE
  OBVIOUS
<1>2. \A i \in 1 .. Len(way) : FALSE
  OBVIOUS
<1> QED BY <1>1, <1>2 DEF Heard

\* A new job, of which nothing is known.
LEMMA Fresh ==
  /\ Trips!NoJob \in Trip /\ Trips!NoJob.state = "idle" /\ Trips!NoJob.start = 1
  /\ Trips!NoJob.confirmed = 1 /\ Trips!NoJob.cursor = 0 /\ Trips!NoJob.route = <<>>
  /\ Trips!NoJob.prepared.count = 0 /\ Trips!NoJob.final.count = 0
<1>1. <<>> \in Seq(Int) /\ [count |-> 0, foreign |-> 0] \in Count
  BY DEF Count
<1>2. Trips!NoJob \in Trip
  BY <1>1 DEF Trips!NoJob, Trip, States
<1>3. /\ Trips!NoJob.state = "idle" /\ Trips!NoJob.start = 1
      /\ Trips!NoJob.confirmed = 1 /\ Trips!NoJob.cursor = 0 /\ Trips!NoJob.route = <<>>
  BY DEF Trips!NoJob
<1>4. Trips!NoJob.prepared.count = 0 /\ Trips!NoJob.final.count = 0
  BY DEF Trips!NoJob
<1> QED BY <1>2, <1>3, <1>4

LEMMA TripInit ==
  ASSUME Trips!Init
  PROVE  TripInv
<1>1. /\ trip = Trips!NoJob /\ reached = 1 /\ plan = 0 /\ foreign = 0 /\ reports = <<>>
      /\ train = [at |-> 0, dir |-> 1, rolls |-> FALSE]
      /\ server = [is |-> "idle", sensor |-> 0, generation |-> 0] /\ journal = <<>>
  BY DEF Trips!Init, Trips!Idle
<1>2. /\ trip \in Trip /\ trip.state = "idle" /\ trip.route = <<>> /\ trip.start = 1
      /\ trip.confirmed = 1 /\ trip.prepared.count = 0 /\ trip.final.count = 0 /\ trip.cursor = 0
  BY <1>1, Fresh
<1>3. TripTypes
  <2>1. /\ train \in Rolling
        /\ server \in Hand
    BY <1>1 DEF Rolling, Hand
  <2>2. reports \in Seq(Int) /\ journal \in Seq([sensor : Int, generation : Nat])
    BY <1>1
  <2> QED BY <1>1, <1>2, <2>1, <2>2 DEF TripTypes
<1>4. Numbers
  BY <1>1, <1>2 DEF Numbers
<1>5. Position
  BY <1>1, <1>2 DEF Position, TurnsBack
<1> QED BY <1>3, <1>4, <1>5 DEF TripInv

LEMMA Lengths ==
  ASSUME TripTypes
  PROVE  /\ Len(journal) \in Nat /\ Len(reports) \in Nat
         /\ trip.cursor \in Nat /\ trip.prepared.count \in Nat /\ trip.final.count \in Nat
         /\ trip.start \in Nat \ {0} /\ trip.confirmed \in Nat /\ trip.route \in Seq(Int)
BY LenProperties DEF TripTypes, Trip, Count

\* The job changes its state, and what is under way and read stays.
LEMMA StateMoves ==
  ASSUME TripInv, UNCHANGED <<reached, reports, server, plan, journal, foreign>>,
         train' \in Rolling, trip' \in Trip,
         trip'.route = trip.route, trip'.start = trip.start,
         trip'.confirmed <= reached, trip'.cursor <= Len(journal),
         trip'.prepared = trip.prepared, trip'.final.count <= Len(journal),
         trip'.state # "planning",
         trip'.state \in {"preparing", "ready", "looked", "checked"} => trip'.cursor = trip'.prepared.count,
         trip'.state = "checked" => trip'.final.count <= trip'.prepared.count,
         trip'.state \in {"looked", "checked"} =>
           Heard(trip'.final.count, journal, server, reports, trip, reached),
         trip'.state \in {"launching", "running", "braking"} =>
           Heard(trip'.cursor, journal, server, reports, trip, reached)
  PROVE  TripInv'
<1>1. TripTypes'
  BY DEF TripInv, TripTypes
<1>2. Numbers'
  BY DEF TripInv, Numbers
<1>3. \A c : Heard(c, journal, server, reports, trip, reached) => Heard(c, journal, server, reports, trip', reached)
  BY HeardSame
<1>4. Position'
  BY <1>3 DEF TripInv, Position
<1> QED BY <1>1, <1>2, <1>4 DEF TripInv

\* Only the pipeline of the reports moves.
LEMMA ReportsMove ==
  ASSUME TripInv, UNCHANGED <<trip, train, reached, plan>>, foreign' \in Nat,
         reports' \in Seq(Int), server' \in Hand,
         journal' \in Seq([sensor : Int, generation : Nat]), Len(journal) <= Len(journal'),
         server'.generation <= plan,
         \A i \in 1 .. Len(journal') : journal'[i].generation <= plan,
         \A c \in Nat : c <= Len(journal) /\ Heard(c, journal, server, reports, trip, reached)
                          /\ trip.state \in {"looked", "checked", "launching", "running", "braking"}
                          => Heard(c, journal', server', reports', trip, reached)
  PROVE  TripInv'
<1>1. TripTypes'
  BY DEF TripInv, TripTypes
<1>0. /\ Len(journal) \in Nat /\ Len(journal') \in Nat
      /\ trip.cursor \in Nat /\ trip.prepared.count \in Nat /\ trip.final.count \in Nat
  BY <1>1, LenProperties, Lengths DEF TripInv, TripTypes
<1>2. Numbers'
  BY <1>0 DEF TripInv, Numbers
<1>3. Position'
  BY <1>0 DEF TripInv, Position, Numbers
<1> QED BY <1>1, <1>2, <1>3 DEF TripInv

LEMMA Longer ==
  ASSUME NEW S, NEW s \in Seq(S), NEW e \in S
  PROVE  /\ Append(s, e) \in Seq(S) /\ Len(Append(s, e)) = Len(s) + 1 /\ Len(s) \in Nat
         /\ \A i \in 1 .. Len(s) : Append(s, e)[i] = s[i]
         /\ Append(s, e)[Len(s) + 1] = e
BY AppendProperties, LenProperties

\* A report more, of a sensor that is not passed again on this leg.
LEMMA HeardMore ==
  ASSUME NEW c, NEW past, NEW hand, NEW way \in Seq(Int), NEW j, NEW n, NEW s \in Int,
         Heard(c, past, hand, way, j, n), NotAhead(s, j, n)
  PROVE  Heard(c, past, hand, Append(way, s), j, n)
<1>1. /\ Len(Append(way, s)) = Len(way) + 1 /\ Len(way) \in Nat
      /\ \A i \in 1 .. Len(way) : Append(way, s)[i] = way[i]
      /\ Append(way, s)[Len(way) + 1] = s
  BY Longer
<1>2. \A i \in 1 .. Len(way) + 1 : i \in 1 .. Len(way) \/ i = Len(way) + 1
  BY <1>1
<1> QED BY <1>1, <1>2 DEF Heard

\* The train goes on: less of the leg is ahead.
LEMMA HeardFurther ==
  ASSUME NEW c, NEW past, NEW hand, NEW way, NEW j \in Trip, NEW n \in Nat,
         Heard(c, past, hand, way, j, n)
  PROVE  Heard(c, past, hand, way, j, n + 1)
<1>1. Trips!LegEnd(j) \in Nat
  BY LegEnds
<1>2. \A i \in n + 1 + 1 .. Trips!LegEnd(j) : i \in n + 1 .. Trips!LegEnd(j)
  BY <1>1
<1>3. \A s : NotAhead(s, j, n) => NotAhead(s, j, n + 1)
  BY <1>2 DEF NotAhead
<1> QED BY <1>3 DEF Heard

LEMMA TripRolls ==
  ASSUME TripInv, Trips!Rolls
  PROVE  TripInv'
<1> DEFINE s == Trips!NextSensor
           L == Trips!LegEnd(trip)
<1>1. /\ UNCHANGED <<server, plan, journal, foreign, trip>>
      /\ train' = [train EXCEPT !.at = @ + train.dir]
      /\ Trips!OnItsLeg \/ Trips!Recrosses
      /\ reached' = IF Trips!OnItsLeg THEN reached + 1 ELSE reached
      /\ reports' = Append(reports, s) \/ reports' = reports
  BY DEF Trips!Rolls
<1>2. /\ trip \in Trip /\ TurnsBack(trip.route) /\ trip.start <= reached /\ trip.confirmed <= reached
      /\ reached \in Nat \ {0} /\ trip.start \in Nat \ {0} /\ train \in Rolling
      /\ reports \in Seq(Int) /\ trip.confirmed \in Nat
  BY Lengths DEF TripInv, TripTypes, Position
<1>3. s \in Int
  BY <1>2 DEF Trips!NextSensor, Rolling
<1>4. L \in Nat
  BY <1>2, LegEnds
<1>5. reached' \in {reached, reached + 1} /\ NotAhead(s, trip, reached')
  <2>1. CASE Trips!OnItsLeg
    <3>1. reached < L /\ s = trip.route[reached + 1] /\ reached' = reached + 1
      BY <1>1, <2>1 DEF Trips!OnItsLeg
    <3>2. reached + 1 \in Nat /\ trip.start <= reached + 1 /\ reached + 1 <= L
      BY <1>2, <1>4, <3>1
    <3> HIDE DEF s, L
    <3>3. NotAhead(trip.route[reached + 1], trip, reached + 1)
      BY <1>2, <3>2, PassedOnce DEF L
    <3> QED BY <3>1, <3>3
  <2>2. CASE ~Trips!OnItsLeg
    <3>1. reached' = reached /\ reached = trip.start /\ s = trip.route[reached]
      BY <1>1, <2>2 DEF Trips!Recrosses
    <3>2. CASE reached <= L
      <4>1. NotAhead(trip.route[reached], trip, reached)
        BY <1>2, <3>2, PassedOnce
      <4> QED BY <3>1, <4>1
    <3>3. CASE ~(reached <= L)
      <4>1. \A i \in reached + 1 .. L : FALSE
        BY <1>2, <1>4, <3>3
      <4> QED BY <3>1, <4>1 DEF NotAhead
    <3> QED BY <3>2, <3>3
  <2> QED BY <2>1, <2>2
<1> HIDE DEF s, L
<1>6. ASSUME NEW c, Heard(c, journal, server, reports, trip, reached)
      PROVE  Heard(c, journal, server, reports', trip, reached')
  <2>1. Heard(c, journal, server, reports, trip, reached')
    BY <1>2, <1>5, <1>6, HeardFurther
  <2> QED BY <1>1, <1>2, <1>3, <1>5, <2>1, HeardMore
<1>7. TripTypes'
  <2>1. reports' \in Seq(Int)
    <3>1. Append(reports, s) \in Seq(Int)
      BY <1>2, <1>3, Longer
    <3> QED BY <1>1, <1>2, <3>1
  <2>2. train' \in Rolling
    BY <1>1, <1>2 DEF Rolling
  <2>3. reached' \in Nat \ {0}
    BY <1>2, <1>5
  <2> QED BY <1>1, <2>1, <2>2, <2>3 DEF TripInv, TripTypes
<1>8. Numbers'
  BY <1>1 DEF TripInv, Numbers
<1>9. Position'
  <2>1. trip.start <= reached' /\ trip.confirmed <= reached'
    BY <1>2, <1>5
  <2> QED BY <1>1, <1>6, <2>1 DEF TripInv, Position
<1> QED BY <1>7, <1>8, <1>9 DEF TripInv

LEMMA TripNoise ==
  ASSUME TripInv, Trips!Noise
  PROVE  TripInv'
<1>1. PICK s \in Trips!Sensors :
        /\ trip.state \in {"launching", "running", "braking", "looked", "checked"} => s \notin Trips!Ahead
        /\ reports' = Append(reports, s)
  BY DEF Trips!Noise
<1>2. UNCHANGED <<train, reached, server, plan, journal, foreign, trip>>
  BY DEF Trips!Noise
<1>3. s \in Int /\ trip \in Trip /\ reached \in Nat
  BY DEF Trips!Sensors, TripInv, TripTypes
<1>4. trip.state \in {"launching", "running", "braking", "looked", "checked"} => NotAhead(s, trip, reached)
  <2>1. Trips!LegEnd(trip) \in Nat /\ Trips!LegEnd(trip) <= Len(trip.route) /\ Len(trip.route) \in Nat
    BY <1>3, LegEnds, LenProperties DEF Trip
  <2>2. \A i \in reached + 1 .. Trips!LegEnd(trip) : i \in reached + 1 .. Len(trip.route)
    BY <1>3, <2>1
  <2> QED BY <1>1, <2>2 DEF Trips!Ahead, NotAhead
<1>5. /\ reports \in Seq(Int) /\ Append(reports, s) \in Seq(Int) /\ Len(journal) \in Nat
      /\ TripTypes /\ Numbers
  BY <1>3, Longer, Lengths DEF TripInv, TripTypes
<1>6. \A c \in Nat : Heard(c, journal, server, reports, trip, reached)
                       /\ trip.state \in {"looked", "checked", "launching", "running", "braking"}
                       => Heard(c, journal, server, Append(reports, s), trip, reached)
  BY <1>3, <1>4, <1>5, HeardMore
<1> QED BY <1>1, <1>2, <1>5, <1>6, ReportsMove DEF TripTypes, Numbers

LEMMA TripService ==
  ASSUME TripInv, Trips!Service
  PROVE  TripInv'
<1>0. /\ reports \in Seq(Int) /\ server \in Hand /\ foreign \in Nat /\ plan \in Nat
      /\ journal \in Seq([sensor : Int, generation : Nat])
      /\ Len(journal) \in Nat /\ server.generation <= plan
      /\ \A i \in 1 .. Len(journal) : journal[i].generation <= plan
  BY Lengths DEF TripInv, TripTypes, Numbers
<1>1. CASE Trips!Take
  <2>1. /\ server.is = "idle" /\ reports # <<>>
        /\ server' = [is |-> "taken", sensor |-> Head(reports), generation |-> 0]
        /\ reports' = Tail(reports)
        /\ UNCHANGED <<train, reached, plan, journal, foreign, trip>>
    BY <1>1 DEF Trips!Take
  <2>2. /\ Tail(reports) \in Seq(Int) /\ Head(reports) \in Int /\ Head(reports) = reports[1]
        /\ Len(Tail(reports)) = Len(reports) - 1 /\ Len(reports) \in Nat \ {0}
        /\ \A i \in 1 .. Len(Tail(reports)) : Tail(reports)[i] = reports[i + 1]
    BY <1>0, <2>1, HeadTailProperties, LenProperties, ElementOfSeq
  <2>3. server' \in Hand /\ server'.generation <= plan
    BY <1>0, <2>1, <2>2 DEF Hand
  <2>4. \A i \in 1 .. Len(Tail(reports)) : i + 1 \in 1 .. Len(reports)
    BY <2>2
  <2>5. ASSUME NEW c, Heard(c, journal, server, reports, trip, reached)
        PROVE  Heard(c, journal, server', reports', trip, reached)
    <3>1. /\ \A i \in c + 1 .. Len(journal) : NotAhead(journal[i].sensor, trip, reached)
          /\ \A i \in 1 .. Len(reports) : NotAhead(reports[i], trip, reached)
      BY <2>5 DEF Heard
    <3>2. 1 \in 1 .. Len(reports)
      BY <2>2
    <3>3. NotAhead(server'.sensor, trip, reached)
      BY <2>1, <2>2, <3>1, <3>2
    <3>4. \A i \in 1 .. Len(reports') : NotAhead(reports'[i], trip, reached)
      BY <2>1, <2>2, <2>4, <3>1
    <3> QED BY <3>1, <3>3, <3>4 DEF Heard
  <2> QED BY <1>0, <2>1, <2>2, <2>3, <2>5, ReportsMove
<1>2. CASE Trips!Lookup
  <2>1. /\ server' = [server EXCEPT !.is = "owned", !.generation = plan] \/ server' = [server EXCEPT !.is = "foreign"]
        /\ server.is = "taken"
        /\ UNCHANGED <<train, reached, reports, plan, journal, foreign, trip>>
    BY <1>2 DEF Trips!Lookup
  <2>2. server' \in Hand /\ server'.generation <= plan /\ server'.sensor = server.sensor
    <3>1. CASE server' = [server EXCEPT !.is = "owned", !.generation = plan]
      <4>1. server' = [is |-> "owned", sensor |-> server.sensor, generation |-> plan]
        BY <1>0, <3>1 DEF Hand
      <4>2. server.sensor \in Int /\ server.generation \in Nat
        BY <1>0 DEF Hand
      <4> QED BY <1>0, <4>1, <4>2 DEF Hand
    <3>2. CASE server' = [server EXCEPT !.is = "foreign"]
      <4>1. server' = [is |-> "foreign", sensor |-> server.sensor, generation |-> server.generation]
        BY <1>0, <3>2 DEF Hand
      <4>2. server.sensor \in Int /\ server.generation \in Nat
        BY <1>0 DEF Hand
      <4> QED BY <1>0, <4>1, <4>2 DEF Hand
    <3> QED BY <2>1, <3>1, <3>2
  <2>3. ASSUME NEW c, Heard(c, journal, server, reports, trip, reached)
        PROVE  Heard(c, journal, server', reports, trip, reached)
    BY <2>1, <2>2, <2>3 DEF Heard
  <2> QED BY <1>0, <2>1, <2>2, <2>3, ReportsMove
<1>3. CASE Trips!Record
  <2> DEFINE e == [sensor |-> server.sensor, generation |-> server.generation]
  <2>1. /\ \/ journal' = Append(journal, e) /\ foreign' = foreign
           \/ foreign' = foreign + 1 /\ journal' = journal
        /\ server' = [is |-> "idle", sensor |-> 0, generation |-> 0] /\ server.is # "idle"
        /\ UNCHANGED <<train, reached, reports, plan, trip>>
    BY <1>3 DEF Trips!Record, Trips!Idle
  <2>2. server' \in Hand /\ server'.generation <= plan /\ foreign' \in Nat /\ server'.is = "idle"
    BY <1>0, <2>1 DEF Hand
  <2>3. e \in [sensor : Int, generation : Nat] /\ e.generation <= plan /\ e.sensor = server.sensor
    BY <1>0 DEF Hand
  <2> HIDE DEF e
  <2>4. /\ Append(journal, e) \in Seq([sensor : Int, generation : Nat])
        /\ Len(Append(journal, e)) = Len(journal) + 1
        /\ \A i \in 1 .. Len(journal) : Append(journal, e)[i] = journal[i]
        /\ Append(journal, e)[Len(journal) + 1] = e
    BY <1>0, <2>3, Longer
  <2>5. /\ journal' \in Seq([sensor : Int, generation : Nat]) /\ Len(journal) <= Len(journal')
        /\ \A i \in 1 .. Len(journal') : (i \in 1 .. Len(journal) /\ journal'[i] = journal[i])
                                         \/ (i = Len(journal) + 1 /\ journal'[i] = e)
    <3>1. CASE journal' = journal
      BY <1>0, <3>1
    <3>2. CASE journal' = Append(journal, e)
      <4>1. \A i \in 1 .. Len(journal) + 1 : i \in 1 .. Len(journal) \/ i = Len(journal) + 1
        BY <1>0
      <4> QED BY <1>0, <2>4, <3>2, <4>1
    <3> QED BY <2>1, <3>1, <3>2
  <2>6. \A i \in 1 .. Len(journal') : journal'[i].generation <= plan
    BY <1>0, <2>3, <2>5
  <2>7. ASSUME NEW c \in Nat, Heard(c, journal, server, reports, trip, reached)
        PROVE  Heard(c, journal', server', reports, trip, reached)
    <3>1. /\ \A i \in c + 1 .. Len(journal) : NotAhead(journal[i].sensor, trip, reached)
          /\ NotAhead(e.sensor, trip, reached)
          /\ \A i \in 1 .. Len(reports) : NotAhead(reports[i], trip, reached)
      BY <2>1, <2>3, <2>7 DEF Heard
    <3>2. ASSUME NEW i \in c + 1 .. Len(journal') PROVE NotAhead(journal'[i].sensor, trip, reached)
      <4>1. i \in 1 .. Len(journal')
        BY <1>0, <2>4, <2>1
      <4>2. CASE i \in 1 .. Len(journal) /\ journal'[i] = journal[i]
        <5>1. i \in c + 1 .. Len(journal)
          BY <1>0, <4>2
        <5> QED BY <3>1, <4>2, <5>1
      <4> QED BY <2>5, <3>1, <4>1, <4>2
    <3> QED BY <2>2, <3>1, <3>2 DEF Heard
  <2> QED BY <1>0, <2>1, <2>2, <2>5, <2>6, <2>7, ReportsMove
<1> QED BY <1>1, <1>2, <1>3 DEF Trips!Service

LEMMA ToKeeps ==
  ASSUME NEW j \in Trip, NEW s \in States, NEW k, k = [j EXCEPT !.state = s]
  PROVE  /\ k \in Trip /\ k.state = s /\ k.route = j.route /\ k.start = j.start
         /\ k.confirmed = j.confirmed /\ k.cursor = j.cursor
         /\ k.prepared = j.prepared /\ k.final = j.final
<1>1. k \in Trip
  BY DEF Trip
<1>2. k.state = s /\ k.route = j.route /\ k.start = j.start
  BY DEF Trip
<1>3. k.confirmed = j.confirmed /\ k.cursor = j.cursor
  BY DEF Trip
<1>4. k.prepared = j.prepared /\ k.final = j.final
  BY DEF Trip
<1> QED BY <1>1, <1>2, <1>3, <1>4

LEMMA TripFacts ==
  ASSUME TripInv
  PROVE  /\ trip \in Trip /\ train \in Rolling /\ reached \in Nat \ {0} /\ plan \in Nat /\ foreign \in Nat
         /\ Len(journal) \in Nat /\ trip.confirmed <= reached /\ trip.start <= reached
         /\ trip.cursor \in Nat /\ trip.cursor <= Len(journal)
         /\ trip.prepared.count <= Len(journal) /\ trip.final.count <= Len(journal)
         /\ trip.prepared.count \in Nat /\ trip.final.count \in Nat
BY Lengths DEF TripInv, TripTypes, Numbers, Position

\* To a state where nothing more is asked of the job.
LEMMA TripRests ==
  ASSUME TripInv, UNCHANGED <<train, reached, reports, server, plan, journal, foreign>>,
         NEW s \in {"ready", "arrived", "uncertain", "failed"},
         trip.state = "preparing" \/ s # "ready",
         trip' = [trip EXCEPT !.state = s]
  PROVE  TripInv'
<1>1. s \in States
  BY DEF States
<1>2. /\ trip' \in Trip /\ trip'.state = s /\ trip'.route = trip.route /\ trip'.start = trip.start
      /\ trip'.confirmed = trip.confirmed /\ trip'.cursor = trip.cursor
      /\ trip'.prepared = trip.prepared /\ trip'.final = trip.final
  BY <1>1, TripFacts, ToKeeps
<1>3. trip'.state = "ready" => trip'.cursor = trip'.prepared.count
  BY <1>2 DEF TripInv, Numbers
<1>4. train' \in Rolling /\ trip'.confirmed <= reached /\ trip'.cursor <= Len(journal)
      /\ trip'.final.count <= Len(journal)
  BY <1>2, TripFacts
<1> QED BY <1>2, <1>3, <1>4, StateMoves

LEMMA TripFails ==
  ASSUME TripInv, Trips!Fails
  PROVE  TripInv'
BY TripRests DEF Trips!Fails, Trips!To, Trips!JobOnly, Trips!Pipeline

LEMMA TripLaunches ==
  ASSUME TripInv,
         Trips!Prepares \/ Trips!LaunchLooks \/ Trips!LaunchChecks \/ Trips!LaunchSends \/ Trips!LaunchConfirmed
  PROVE  TripInv'
<1>1. CASE Trips!Prepares
  <2>1. CASE Trips!Fails
    BY <2>1, TripFails
  <2>2. CASE trip' = [trip EXCEPT !.state = "ready"] /\ Trips!JobOnly
    BY <1>1, <2>2, TripRests DEF Trips!Prepares, Trips!JobOnly, Trips!Pipeline
  <2> QED BY <1>1, <2>1, <2>2 DEF Trips!Prepares, Trips!To
<1>2. CASE Trips!LaunchLooks
  <2> DEFINE shot == [count |-> Len(journal), foreign |-> foreign]
  <2>1. /\ trip.state = "ready" /\ reports = <<>> /\ server.is = "idle"
        /\ trip' = [trip EXCEPT !.state = "looked", !.final = shot]
        /\ UNCHANGED <<train, reached, reports, server, plan, journal, foreign>>
    BY <1>2 DEF Trips!LaunchLooks, Trips!ReportsArrived, Trips!Idle, Trips!Snapshot, Trips!JobOnly, Trips!Pipeline
  <2>2. shot \in Count /\ shot.count = Len(journal) /\ trip \in Trip
    BY TripFacts DEF Count
  <2> HIDE DEF shot
  <2>3. trip' \in Trip
    BY <2>1, <2>2 DEF Trip, States
  <2>4. trip'.route = trip.route /\ trip'.start = trip.start /\ trip'.confirmed = trip.confirmed
    BY <2>1, <2>2 DEF Trip
  <2>5. trip'.cursor = trip.cursor /\ trip'.prepared = trip.prepared
    BY <2>1, <2>2 DEF Trip
  <2>6. trip'.state = "looked" /\ trip'.final = shot
    BY <2>1, <2>2 DEF Trip
  <2>7. Heard(Len(journal), journal, server, reports, trip, reached)
    BY <2>1, TripFacts, NothingHeard
  <2>8. trip.cursor = trip.prepared.count
    BY <2>1 DEF TripInv, Numbers
  <2> QED BY <2>1, <2>2, <2>3, <2>4, <2>5, <2>6, <2>7, <2>8, TripFacts, StateMoves
<1>3. CASE Trips!LaunchChecks
  <2>1. CASE Trips!Fails
    BY <2>1, TripFails
  <2>2. CASE ~Trips!Fails
    <3>1. /\ trip.state = "looked" /\ trip' = [trip EXCEPT !.state = "checked"]
          /\ Len(journal) <= trip.prepared.count
          /\ UNCHANGED <<train, reached, reports, server, plan, journal, foreign>>
      BY <1>3, <2>2 DEF Trips!LaunchChecks, Trips!To, Trips!CleanAfter, Trips!JobOnly, Trips!Pipeline
    <3>2. /\ trip' \in Trip /\ trip'.state = "checked" /\ trip'.route = trip.route /\ trip'.start = trip.start
          /\ trip'.confirmed = trip.confirmed /\ trip'.cursor = trip.cursor
          /\ trip'.prepared = trip.prepared /\ trip'.final = trip.final
      BY <3>1, TripFacts, ToKeeps DEF States
    <3>3. trip.cursor = trip.prepared.count /\ Heard(trip.final.count, journal, server, reports, trip, reached)
      BY <3>1 DEF TripInv, Numbers, Position
    <3>4. trip.final.count <= trip.prepared.count
      BY <3>1, TripFacts
    <3> QED BY <3>1, <3>2, <3>3, <3>4, TripFacts, StateMoves
  <2> QED BY <2>1, <2>2
<1>4. CASE Trips!LaunchSends
  <2>1. /\ trip.state = "checked"
        /\ trip' = [trip EXCEPT !.state = "launching", !.cursor = trip.final.count, !.final = trip.final]
        /\ train' = [train EXCEPT !.rolls = TRUE]
        /\ UNCHANGED <<reached, reports, server, plan, journal, foreign>>
    BY <1>4 DEF Trips!LaunchSends, Trips!LaunchNumbers, Trips!Pipeline
  <2>2. trip \in Trip /\ train \in Rolling /\ trip.final \in Count /\ trip.final.count \in Nat
    BY TripFacts DEF Trip
  <2>3. trip' \in Trip
    BY <2>1, <2>2 DEF Trip, States
  <2>4. trip'.route = trip.route /\ trip'.start = trip.start /\ trip'.confirmed = trip.confirmed
    BY <2>1, <2>2 DEF Trip
  <2>5. trip'.cursor = trip.final.count /\ trip'.prepared = trip.prepared
    BY <2>1, <2>2 DEF Trip
  <2>6. trip'.state = "launching" /\ trip'.final = trip.final
    BY <2>1, <2>2 DEF Trip
  <2>7. train' \in Rolling
    BY <2>1, <2>2 DEF Rolling
  <2>8. Heard(trip.final.count, journal, server, reports, trip, reached)
    BY <2>1 DEF TripInv, Position
  <2> QED BY <2>1, <2>3, <2>4, <2>5, <2>6, <2>7, <2>8, TripFacts, StateMoves
<1>5. CASE Trips!LaunchConfirmed
  <2>1. /\ trip.state = "launching" /\ trip' = [trip EXCEPT !.state = "running"]
        /\ UNCHANGED <<train, reached, reports, server, plan, journal, foreign>>
    BY <1>5 DEF Trips!LaunchConfirmed, Trips!To, Trips!JobOnly, Trips!Pipeline
  <2>2. /\ trip' \in Trip /\ trip'.state = "running" /\ trip'.route = trip.route /\ trip'.start = trip.start
        /\ trip'.confirmed = trip.confirmed /\ trip'.cursor = trip.cursor
        /\ trip'.prepared = trip.prepared /\ trip'.final = trip.final
    BY <2>1, TripFacts, ToKeeps DEF States
  <2>3. Heard(trip.cursor, journal, server, reports, trip, reached)
    BY <2>1 DEF TripInv, Position
  <2> QED BY <2>1, <2>2, <2>3, TripFacts, StateMoves
<1> QED BY <1>1, <1>2, <1>3, <1>4, <1>5

\* A stray report that nobody owns is put up with: nothing else changes.
LEMMA AcceptedKeeps ==
  ASSUME TripInv, NEW k,
         k = [trip EXCEPT !.final.foreign = foreign, !.tolerated = TRUE, !.spurious = 1]
  PROVE  /\ k \in Trip /\ k.state = trip.state /\ k.route = trip.route /\ k.start = trip.start
         /\ k.confirmed = trip.confirmed /\ k.cursor = trip.cursor
         /\ k.prepared = trip.prepared /\ k.final.count = trip.final.count
<1>1. trip \in Trip /\ foreign \in Nat /\ trip.final \in Count
  BY TripFacts DEF Trip
<1> DEFINE f == [trip.final EXCEPT !.foreign = foreign]
<1>2. f \in Count /\ f.count = trip.final.count
  BY <1>1 DEF Count
<1>3. k = [trip EXCEPT !.final = f, !.tolerated = TRUE, !.spurious = 1]
  BY <1>1 DEF Trip
<1> HIDE DEF f
<1>4. k \in Trip
  <2>1. 1 \in Nat /\ TRUE \in BOOLEAN
    OBVIOUS
  <2>2. [trip EXCEPT !.final = f] \in Trip
    BY <1>1, <1>2 DEF Trip
  <2>3. k = [[[trip EXCEPT !.final = f] EXCEPT !.tolerated = TRUE] EXCEPT !.spurious = 1]
    BY <1>1, <1>3 DEF Trip
  <2> QED BY <2>1, <2>2, <2>3 DEF Trip
<1>5. k.state = trip.state /\ k.route = trip.route /\ k.start = trip.start
  BY <1>1, <1>3 DEF Trip
<1>6. k.confirmed = trip.confirmed /\ k.cursor = trip.cursor
  BY <1>1, <1>3 DEF Trip
<1>7. k.prepared = trip.prepared /\ k.final = f
  BY <1>1, <1>3 DEF Trip
<1> QED BY <1>2, <1>4, <1>5, <1>6, <1>7

LEMMA AcceptedTrip ==
  ASSUME TripInv, NEW k, k = Trips!Accepted
  PROVE  /\ k \in Trip /\ k.state = trip.state /\ k.route = trip.route /\ k.start = trip.start
         /\ k.confirmed = trip.confirmed /\ k.cursor = trip.cursor
         /\ k.prepared = trip.prepared /\ k.final.count = trip.final.count
<1>1. CASE k = trip
  BY <1>1, TripFacts
<1>2. CASE k = [trip EXCEPT !.final.foreign = foreign, !.tolerated = TRUE, !.spurious = 1]
  BY <1>2, AcceptedKeeps
<1> QED BY <1>1, <1>2 DEF Trips!Accepted

LEMMA TripHears ==
  ASSUME TripInv, Trips!HearsForeign
  PROVE  TripInv'
<1>1. CASE Trips!Fails
  BY <1>1, TripFails
<1>2. CASE ~Trips!Fails
  <2>1. /\ trip.state \in {"running", "braking"}
        /\ trip' = [trip EXCEPT !.final.foreign = foreign, !.tolerated = TRUE, !.spurious = 1]
        /\ UNCHANGED <<train, reached, reports, server, plan, journal, foreign>>
    BY <1>2 DEF Trips!HearsForeign, Trips!Followed, Trips!JobOnly, Trips!Pipeline
  <2>2. /\ trip' \in Trip /\ trip'.state = trip.state /\ trip'.route = trip.route /\ trip'.start = trip.start
        /\ trip'.confirmed = trip.confirmed /\ trip'.cursor = trip.cursor
        /\ trip'.prepared = trip.prepared /\ trip'.final.count = trip.final.count
    BY <2>1, AcceptedKeeps
  <2>3. Heard(trip.cursor, journal, server, reports, trip, reached)
    BY <2>1 DEF TripInv, Position
  <2>4. trip'.state \notin {"planning", "preparing", "ready", "looked", "checked"}
    BY <2>1, <2>2
  <2> QED BY <2>1, <2>2, <2>3, <2>4, TripFacts, StateMoves
<1> QED BY <1>1, <1>2

\* What an event moves a job to has been passed.
LEMMA MatchedPassed ==
  ASSUME TripInv, trip.state \in {"running", "braking"}, trip.cursor < Len(journal)
  PROVE  Trips!Matched \in Nat /\ Trips!Matched <= reached
<1> DEFINE c == trip.confirmed + 1
           m == Trips!Matched
           e == Trips!Event
<1>1. /\ trip \in Trip /\ reached \in Nat /\ trip.confirmed \in Nat
      /\ Trips!LegEnd(trip) \in Nat
  BY TripFacts, LegEnds, Lengths DEF TripInv
<1>2. NotAhead(e.sensor, trip, reached)
  <2>1. Heard(trip.cursor, journal, server, reports, trip, reached)
    BY DEF TripInv, Position
  <2>2. trip.cursor + 1 \in trip.cursor + 1 .. Len(journal)
    BY TripFacts
  <2> QED BY <2>1, <2>2 DEF Heard, Trips!Event
<1>3. \/ m = 0
      \/ m = c /\ c <= Trips!LegEnd(trip) /\ e.sensor = trip.route[c]
      \/ m = c + 1 /\ c + 1 <= Trips!LegEnd(trip) /\ e.sensor = trip.route[c + 1]
  BY DEF Trips!Matched
<1>4. c \in Nat /\ c + 1 \in Nat
  BY <1>1
<1>5. \A o \in Nat : o <= Trips!LegEnd(trip) /\ e.sensor = trip.route[o] => o <= reached
  <2> SUFFICES ASSUME NEW o \in Nat, o <= Trips!LegEnd(trip), e.sensor = trip.route[o], ~(o <= reached)
               PROVE FALSE
    OBVIOUS
  <2>1. o \in reached + 1 .. Trips!LegEnd(trip)
    BY <1>1
  <2> QED BY <1>2, <2>1 DEF NotAhead
<1> HIDE DEF m, c, e
<1> QED BY <1>1, <1>3, <1>4, <1>5 DEF m

LEMMA HeardLess ==
  ASSUME NEW c \in Nat, NEW past, Len(past) \in Nat, NEW hand, NEW way, NEW j, NEW n,
         Heard(c, past, hand, way, j, n)
  PROVE  Heard(c + 1, past, hand, way, j, n)
<1>1. \A i \in c + 1 + 1 .. Len(past) : i \in c + 1 .. Len(past)
  OBVIOUS
<1> QED BY <1>1 DEF Heard

\* A job that has read one report more is a job.
LEMMA ReadsOn ==
  ASSUME NEW j \in Trip
  PROVE  [j EXCEPT !.cursor = @ + 1] \in Trip
<1>1. j.cursor + 1 \in Nat
  BY DEF Trip
<1> QED BY <1>1 DEF Trip

LEMMA TripObserves ==
  ASSUME TripInv, Trips!Observes
  PROVE  TripInv'
<1>1. /\ trip.state \in {"running", "braking"} /\ trip.cursor < Len(journal)
      /\ trip \in Trip /\ trip.cursor \in Nat /\ Len(journal) \in Nat /\ reached \in Nat
  BY TripFacts DEF Trips!Observes, Trips!Followed
<1>2. Heard(trip.cursor + 1, journal, server, reports, trip, reached)
  <2>1. Heard(trip.cursor, journal, server, reports, trip, reached)
    BY <1>1 DEF TripInv, Position
  <2> QED BY <1>1, <2>1, HeardLess
<1>3. Trips!Matched \in Nat /\ Trips!Matched <= reached
  BY <1>1, MatchedPassed
<1> DEFINE read == [trip EXCEPT !.cursor = @ + 1]
           skips == Trips!Matched = trip.confirmed + 2
           atEnd == Trips!Matched = Trips!LegEnd(trip)
           moved == [read EXCEPT !.confirmed = Trips!Matched, !.missed = @ \/ skips,
                       !.missing = IF skips THEN @ + 1 ELSE @,
                       !.seen = @ \/ (atEnd /\ ~skips),
                       !.state = IF atEnd THEN "braking" ELSE @]
<1>4. \/ Trips!Fails
      \/ trip' = read /\ Trips!JobOnly
      \/ trip' = [read EXCEPT !.spurious = 1] /\ Trips!JobOnly
      \/ trip' = moved /\ UNCHANGED <<train, reached, reports, server, plan, journal, foreign>>
  BY DEF Trips!Observes, Trips!Read, Trips!Pipeline
<1>5. /\ read \in Trip /\ read.cursor = trip.cursor + 1 /\ read.state = trip.state
      /\ read.route = trip.route /\ read.start = trip.start /\ read.confirmed = trip.confirmed
      /\ read.prepared = trip.prepared /\ read.final = trip.final
  <2> HIDE DEF skips, atEnd, moved
  <2>1. read \in Trip
    BY <1>1, ReadsOn
  <2>2. read.cursor = trip.cursor + 1 /\ read.state = trip.state
    BY <1>1 DEF Trip
  <2>3. read.route = trip.route /\ read.start = trip.start /\ read.confirmed = trip.confirmed
    BY <1>1 DEF Trip
  <2>4. read.prepared = trip.prepared /\ read.final = trip.final
    BY <1>1 DEF Trip
  <2> QED BY <2>1, <2>2, <2>3, <2>4
<1> HIDE DEF read
<1>6. ASSUME trip' \in Trip, trip'.cursor = trip.cursor + 1, trip'.state \in {"running", "braking"},
             trip'.route = trip.route, trip'.start = trip.start, trip'.confirmed <= reached,
             trip'.prepared = trip.prepared, trip'.final = trip.final,
             UNCHANGED <<train, reached, reports, server, plan, journal, foreign>>
      PROVE  TripInv'
  <2>1. trip'.cursor <= Len(journal)
    BY <1>1, <1>6
  <2>2. trip'.state \notin {"planning", "preparing", "ready", "looked", "checked"}
    BY <1>6
  <2>3. Heard(trip'.cursor, journal, server, reports, trip, reached)
    BY <1>2, <1>6
  <2>4. train' \in Rolling /\ trip'.final.count <= Len(journal)
    BY <1>6, TripFacts
  <2> HIDE DEF skips, atEnd, moved
  <2> QED BY <1>6, <2>1, <2>2, <2>3, <2>4, StateMoves
<1>7. CASE Trips!Fails
  BY <1>7, TripFails
<1>8. CASE trip' = read /\ Trips!JobOnly
  BY <1>1, <1>5, <1>6, <1>8, TripFacts DEF Trips!JobOnly, Trips!Pipeline
<1>9. CASE trip' = [read EXCEPT !.spurious = 1] /\ Trips!JobOnly
  <2>1. trip' \in Trip
    BY <1>5, <1>9 DEF Trip
  <2>2. trip'.cursor = trip.cursor + 1 /\ trip'.state = trip.state
    BY <1>5, <1>9 DEF Trip
  <2>3. trip'.route = trip.route /\ trip'.start = trip.start /\ trip'.confirmed = trip.confirmed
    BY <1>5, <1>9 DEF Trip
  <2>4. trip'.prepared = trip.prepared /\ trip'.final = trip.final
    BY <1>5, <1>9 DEF Trip
  <2> QED BY <1>1, <1>6, <1>9, <2>1, <2>2, <2>3, <2>4, TripFacts DEF Trips!JobOnly, Trips!Pipeline
<1>10. CASE trip' = moved /\ UNCHANGED <<train, reached, reports, server, plan, journal, foreign>>
  <2>1. skips \in BOOLEAN /\ atEnd \in BOOLEAN
    OBVIOUS
  <2> HIDE DEF skips, atEnd
  <2>2. trip' \in Trip
    <3>1. /\ (read.missed \/ skips) \in BOOLEAN /\ (read.seen \/ (atEnd /\ ~skips)) \in BOOLEAN
      OBVIOUS
    <3>2. (IF skips THEN read.missing + 1 ELSE read.missing) \in Nat
      BY <1>5 DEF Trip
    <3>3. (IF atEnd THEN "braking" ELSE read.state) \in States
      BY <1>5 DEF Trip, States
    <3> QED BY <1>3, <1>5, <1>10, <3>1, <3>2, <3>3 DEF Trip
  <2>3. trip'.cursor = trip.cursor + 1
    BY <1>5, <1>10 DEF Trip
  <2>4. trip'.state \in {trip.state, "braking"}
    BY <1>5, <1>10 DEF Trip
  <2>5. trip'.route = trip.route /\ trip'.start = trip.start
    BY <1>5, <1>10 DEF Trip
  <2>6. trip'.confirmed = Trips!Matched
    BY <1>5, <1>10 DEF Trip
  <2>7. trip'.prepared = trip.prepared /\ trip'.final = trip.final
    BY <1>5, <1>10 DEF Trip
  <2> QED BY <1>1, <1>3, <1>6, <1>10, <2>2, <2>3, <2>4, <2>5, <2>6, <2>7
<1> QED BY <1>4, <1>7, <1>8, <1>9, <1>10

LEMMA TripStops ==
  ASSUME TripInv, Trips!DeadlineStops
  PROVE  TripInv'
<1>1. /\ trip.state = "running" /\ trip' = [trip EXCEPT !.state = "braking"]
      /\ UNCHANGED <<train, reached, reports, server, plan, journal, foreign>>
  BY DEF Trips!DeadlineStops, Trips!To, Trips!JobOnly, Trips!Pipeline
<1>2. /\ trip' \in Trip /\ trip'.state = "braking" /\ trip'.route = trip.route /\ trip'.start = trip.start
      /\ trip'.confirmed = trip.confirmed /\ trip'.cursor = trip.cursor
      /\ trip'.prepared = trip.prepared /\ trip'.final = trip.final
  BY <1>1, TripFacts, ToKeeps DEF States
<1>3. Heard(trip.cursor, journal, server, reports, trip, reached)
  BY <1>1 DEF TripInv, Position
<1> QED BY <1>1, <1>2, <1>3, TripFacts, StateMoves

LEMMA TripSettles ==
  ASSUME TripInv, Trips!Settles
  PROVE  TripInv'
<1> DEFINE s == Trips!LegEnd(trip) + 1
           turn == [trip EXCEPT !.state = "reversing", !.start = s, !.confirmed = s,
                      !.missed = FALSE, !.seen = FALSE, !.turned = FALSE]
<1>1. UNCHANGED <<train, reports, server, plan, journal, foreign>>
  BY DEF Trips!Settles, Trips!Pipeline
<1>2. \/ trip' = [trip EXCEPT !.state = "arrived"] /\ UNCHANGED reached
      \/ trip' = [trip EXCEPT !.state = "uncertain"] /\ UNCHANGED reached
      \/ trip' = [trip EXCEPT !.state = "failed"] /\ UNCHANGED reached
      \/ trip' = turn /\ reached' = turn.start
  BY DEF Trips!Settles, Trips!To
<1>3. trip \in Trip /\ s \in Nat \ {0}
  BY TripFacts, LegEnds
<1>4. CASE UNCHANGED reached /\ (\/ trip' = [trip EXCEPT !.state = "arrived"]
                                 \/ trip' = [trip EXCEPT !.state = "uncertain"]
                                 \/ trip' = [trip EXCEPT !.state = "failed"])
  <2>1. UNCHANGED <<train, reached, reports, server, plan, journal, foreign>>
    BY <1>1, <1>4
  <2>2. CASE trip' = [trip EXCEPT !.state = "arrived"]
    BY <2>1, <2>2, TripRests
  <2>3. CASE trip' = [trip EXCEPT !.state = "uncertain"]
    BY <2>1, <2>3, TripRests
  <2>4. CASE trip' = [trip EXCEPT !.state = "failed"]
    BY <2>1, <2>4, TripRests
  <2> QED BY <1>4, <2>2, <2>3, <2>4
<1>5. CASE trip' = turn /\ reached' = turn.start
  <2> HIDE DEF s
  <2>1. trip' \in Trip
    BY <1>3, <1>5 DEF Trip, States
  <2>2. trip'.state = "reversing" /\ trip'.start = s /\ trip'.confirmed = s
    BY <1>3, <1>5 DEF Trip
  <2>3. trip'.route = trip.route /\ trip'.cursor = trip.cursor
    BY <1>3, <1>5 DEF Trip
  <2>4. trip'.prepared = trip.prepared /\ trip'.final = trip.final
    BY <1>3, <1>5 DEF Trip
  <2>5. reached' = s
    BY <1>3, <1>5 DEF Trip
  <2>6. TripTypes'
    BY <1>1, <1>3, <2>1, <2>5 DEF TripInv, TripTypes
  <2>7. Numbers'
    BY <1>1, <2>2, <2>3, <2>4 DEF TripInv, Numbers
  <2>8. Position'
    <3>1. TurnsBack(trip'.route)
      BY <2>3 DEF TripInv, Position
    <3>2. trip'.start <= reached' /\ trip'.confirmed <= reached'
      BY <1>3, <2>2, <2>5
    <3> QED BY <2>2, <3>1, <3>2 DEF Position
  <2> QED BY <2>6, <2>7, <2>8 DEF TripInv
<1> QED BY <1>2, <1>4, <1>5

LEMMA TripTurns ==
  ASSUME TripInv, Trips!ReversingFails \/ Trips!Turns \/ Trips!Relaunches
  PROVE  TripInv'
<1>1. CASE Trips!ReversingFails
  BY <1>1, TripFails DEF Trips!ReversingFails
<1> DEFINE a == Trips!Accepted
<1>2. /\ a \in Trip /\ a.state = trip.state /\ a.route = trip.route /\ a.start = trip.start
      /\ a.confirmed = trip.confirmed /\ a.cursor = trip.cursor
      /\ a.prepared = trip.prepared /\ a.final.count = trip.final.count
  BY AcceptedTrip
<1> HIDE DEF a
<1>3. CASE Trips!Turns
  <2>1. /\ trip.state = "reversing" /\ trip' = [a EXCEPT !.turned = TRUE]
        /\ train' = [train EXCEPT !.dir = -train.dir]
        /\ UNCHANGED <<reached, reports, server, plan, journal, foreign>>
    BY <1>3 DEF Trips!Turns, Trips!Reversing, Trips!Pipeline, a
  <2>2. trip' \in Trip
    BY <1>2, <2>1 DEF Trip
  <2>3. trip'.state = "reversing" /\ trip'.route = trip.route /\ trip'.start = trip.start
    BY <1>2, <2>1 DEF Trip
  <2>4. trip'.confirmed = trip.confirmed /\ trip'.cursor = trip.cursor
    BY <1>2, <2>1 DEF Trip
  <2>5. trip'.prepared = trip.prepared /\ trip'.final.count = trip.final.count
    BY <1>2, <2>1 DEF Trip
  <2>6. train' \in Rolling
    <3>1. train \in Rolling
      BY TripFacts
    <3>2. -train.dir \in Int
      BY <3>1 DEF Rolling
    <3> QED BY <2>1, <3>1, <3>2 DEF Rolling
  <2> QED BY <2>1, <2>2, <2>3, <2>4, <2>5, <2>6, TripFacts, StateMoves
<1>4. CASE Trips!Relaunches
  <2>1. /\ trip.state = "reversing" /\ trip' = [a EXCEPT !.state = "running"]
        /\ train' = [train EXCEPT !.rolls = TRUE]
        /\ reports = <<>> /\ server.is = "idle" /\ Len(journal) <= trip.cursor
        /\ UNCHANGED <<reached, reports, server, plan, journal, foreign>>
    BY <1>4 DEF Trips!Relaunches, Trips!Reversing, Trips!Unmoved, Trips!CleanAfter,
                Trips!ReportsArrived, Trips!Idle, Trips!Pipeline, a
  <2>2. trip' \in Trip
    BY <1>2, <2>1 DEF Trip, States
  <2>3. trip'.state = "running" /\ trip'.route = trip.route /\ trip'.start = trip.start
    BY <1>2, <2>1 DEF Trip
  <2>4. trip'.confirmed = trip.confirmed /\ trip'.cursor = trip.cursor
    BY <1>2, <2>1 DEF Trip
  <2>5. trip'.prepared = trip.prepared /\ trip'.final.count = trip.final.count
    BY <1>2, <2>1 DEF Trip
  <2>6. train' \in Rolling
    BY <2>1, TripFacts DEF Rolling
  <2>7. Heard(trip.cursor, journal, server, reports, trip, reached)
    BY <2>1, TripFacts, NothingHeard
  <2> QED BY <2>1, <2>2, <2>3, <2>4, <2>5, <2>6, <2>7, TripFacts, StateMoves
<1> QED BY <1>1, <1>3, <1>4

LEMMA TripHalts ==
  ASSUME TripInv, Trips!Halts
  PROVE  TripInv'
<1>1. /\ train' = [train EXCEPT !.rolls = FALSE]
      /\ UNCHANGED <<trip, reached, reports, server, plan, journal, foreign>>
  BY DEF Trips!Halts, Trips!Pipeline
<1>2. train' \in Rolling
  BY <1>1, TripFacts DEF Rolling
<1>3. TripTypes' /\ Numbers' /\ Position'
  BY <1>1, <1>2 DEF TripInv, TripTypes, Numbers, Position
<1> QED BY <1>3 DEF TripInv

LEMMA TripLooks ==
  ASSUME TripInv, Trips!Looks
  PROVE  TripInv' /\ trip'.cursor = 0
<1> DEFINE shot == [count |-> Len(journal), foreign |-> foreign]
           j == Trips!NoJob
<1>1. /\ trip' = [j EXCEPT !.state = "planning", !.prepared = shot]
      /\ UNCHANGED <<train, reached, reports, server, plan, journal, foreign>>
  BY DEF Trips!Looks, Trips!Snapshot, Trips!JobOnly, Trips!Pipeline
<1>2. /\ j \in Trip /\ j.start = 1 /\ j.confirmed = 1 /\ j.cursor = 0 /\ j.route = <<>>
      /\ j.final.count = 0
  BY Fresh
<1>3. shot \in Count /\ shot.count = Len(journal)
  BY TripFacts DEF Count
<1> HIDE DEF shot, j
<1>4. trip' \in Trip
  BY <1>1, <1>2, <1>3 DEF Trip, States
<1>5. trip'.state = "planning" /\ trip'.start = 1 /\ trip'.confirmed = 1
  BY <1>1, <1>2 DEF Trip
<1>6. trip'.cursor = 0 /\ trip'.route = <<>> /\ trip'.final.count = 0
  BY <1>1, <1>2 DEF Trip
<1>7. trip'.prepared = shot
  BY <1>1, <1>2 DEF Trip
<1>8. TripTypes'
  BY <1>1, <1>4 DEF TripInv, TripTypes
<1>9. Numbers'
  BY <1>1, <1>3, <1>5, <1>6, <1>7, TripFacts DEF TripInv, Numbers
<1>10. Position'
  <2>1. TurnsBack(<<>>)
    BY DEF TurnsBack
  <2> QED BY <1>1, <1>5, <1>6, <2>1, TripFacts DEF Position
<1> QED BY <1>6, <1>8, <1>9, <1>10 DEF TripInv

LEMMA EventPlans ==
  ASSUME TripInv
  PROVE  \A i \in 1 .. Len(journal) : journal[i].generation <= plan /\ journal[i].generation \in Nat
<1> SUFFICES ASSUME NEW i \in 1 .. Len(journal)
             PROVE  journal[i].generation <= plan /\ journal[i].generation \in Nat
  OBVIOUS
<1>1. journal[i].generation <= plan
  BY DEF TripInv, Numbers
<1>2. journal \in Seq([sensor : Int, generation : Nat])
  BY DEF TripInv, TripTypes
<1>3. journal[i] \in [sensor : Int, generation : Nat]
  BY <1>2, ElementOfSeq
<1> QED BY <1>1, <1>3

LEMMA TripRemoved ==
  ASSUME TripInv, Trips!Removed
  PROVE  TripInv' /\ trip'.cursor = 0
<1>1. /\ trip' = Trips!NoJob /\ plan' = plan + 1 /\ reached' = 1
      /\ UNCHANGED <<train, reports, server, journal, foreign>>
  BY DEF Trips!Removed, Trips!Pipeline
<1>2. /\ trip' \in Trip /\ trip'.state = "idle" /\ trip'.start = 1
      /\ trip'.confirmed = 1 /\ trip'.cursor = 0 /\ trip'.route = <<>>
      /\ trip'.prepared.count = 0 /\ trip'.final.count = 0
  BY <1>1, Fresh
<1>3. TripTypes'
  BY <1>1, <1>2, TripFacts DEF TripInv, TripTypes
<1>4. Numbers'
  <2>1. server.generation <= plan /\ server.generation \in Nat
    BY DEF TripInv, Numbers, TripTypes, Hand
  <2>2. \A i \in 1 .. Len(journal) : journal[i].generation <= plan /\ journal[i].generation \in Nat
    BY EventPlans
  <2>3. \A i \in 1 .. Len(journal) : journal[i].generation <= plan + 1
    BY <2>2, TripFacts
  <2> QED BY <1>1, <1>2, <2>1, <2>3, TripFacts DEF Numbers
<1>5. Position'
  <2>1. TurnsBack(<<>>)
    BY DEF TurnsBack
  <2> QED BY <1>1, <1>2, <2>1 DEF Position
<1> QED BY <1>2, <1>3, <1>4, <1>5 DEF TripInv

LEMMA TripPlans ==
  ASSUME TripInv, Trips!Plans
  PROVE  /\ TripInv' /\ trip'.generation = plan + 1 /\ trip'.cursor = trip.prepared.count
<1>0. PICK d \in {1, -1} : \E r \in Trips!Routes(d) :
        /\ trip' = [trip EXCEPT !.state = "preparing", !.generation = plan + 1,
                                !.route = r, !.cursor = trip.prepared.count]
        /\ train' = [train EXCEPT !.dir = d]
  BY DEF Trips!Plans
<1>1. PICK r \in Trips!Routes(d) :
        /\ trip' = [trip EXCEPT !.state = "preparing", !.generation = plan + 1,
                                !.route = r, !.cursor = trip.prepared.count]
        /\ train' = [train EXCEPT !.dir = d]
  BY <1>0
<1>2. /\ plan' = plan + 1 /\ reached' = 1 /\ trip.state = "planning"
      /\ UNCHANGED <<reports, server, journal, foreign>>
  BY DEF Trips!Plans, Trips!Pipeline
<1>3. r \in Seq(Int) /\ TurnsBack(r)
  BY RoutesTurn
<1>4. trip \in Trip /\ plan + 1 \in Nat /\ trip.prepared.count \in Nat
  BY TripFacts
<1>5. trip' \in Trip
  BY <1>1, <1>3, <1>4 DEF Trip, States
<1>6. trip'.state = "preparing" /\ trip'.generation = plan + 1 /\ trip'.cursor = trip.prepared.count
  BY <1>1, <1>4 DEF Trip
<1>7. trip'.route = r /\ trip'.start = trip.start /\ trip'.confirmed = trip.confirmed
  BY <1>1, <1>4 DEF Trip
<1>8. trip'.prepared = trip.prepared /\ trip'.final = trip.final
  BY <1>1, <1>4 DEF Trip
<1>9. train' \in Rolling
  BY <1>1, TripFacts DEF Rolling
<1>10. TripTypes'
  BY <1>2, <1>4, <1>5, <1>9 DEF TripInv, TripTypes
<1>11. Numbers'
  <2>1. server.generation <= plan /\ server.generation \in Nat
    BY DEF TripInv, Numbers, TripTypes, Hand
  <2>2. \A i \in 1 .. Len(journal) : journal[i].generation <= plan /\ journal[i].generation \in Nat
    BY EventPlans
  <2>3. \A i \in 1 .. Len(journal) : journal[i].generation <= plan + 1
    BY <2>2, TripFacts
  <2> QED BY <1>2, <1>6, <1>8, <2>1, <2>3, TripFacts DEF Numbers
<1>12. Position'
  <2>1. trip.confirmed = 1 /\ trip.start = 1
    BY <1>2 DEF TripInv, Position
  <2> QED BY <1>2, <1>3, <1>6, <1>7, <2>1 DEF Position
<1> QED BY <1>6, <1>10, <1>11, <1>12 DEF TripInv

LEMMA TripNext ==
  ASSUME TripInv, [Trips!Next]_(Trips!vars)
  PROVE  TripInv'
<1>1. CASE Trips!Next
  BY <1>1, TripService, TripLaunches, TripLooks, TripPlans, TripHears, TripObserves, TripStops,
     TripSettles, TripTurns, TripRolls, TripHalts, TripNoise, TripRemoved
     DEF Trips!Next, Trips!Launches, Trips!Follows, Trips!Track
<1>2. CASE UNCHANGED Trips!vars
  <2>1. UNCHANGED <<trip, train, reached, reports, server, plan, journal, foreign>>
    BY <1>2 DEF Trips!vars
  <2>2. TripTypes' /\ Numbers' /\ Position'
    BY <2>1 DEF TripInv, TripTypes, Numbers, Position
  <2> QED BY <2>2 DEF TripInv
<1> QED BY <1>1, <1>2

\* No event of a job's plan is passed over when it begins to read.
LEMMA EventsSeen ==
  ASSUME TripInv, [Trips!Next]_(Trips!vars)
  PROVE  \A i \in trip.cursor + 1 .. trip'.cursor :
           journal[i].generation = trip'.generation => trip.state \in {"running", "braking"}
<1>0. trip \in Trip /\ trip.cursor \in Nat /\ plan \in Nat /\ Len(journal) \in Nat
  BY TripFacts
<1>1. CASE trip'.cursor = trip.cursor \/ trip'.cursor = 0
  BY <1>0, <1>1
<1>2. CASE trip.state \in {"running", "braking"}
  BY <1>2
<1>3. CASE Trips!Plans
  <2>1. trip'.generation = plan + 1 /\ trip'.cursor = trip.prepared.count
    BY <1>3, TripPlans
  <2>2. \A i \in 1 .. Len(journal) : journal[i].generation <= plan /\ journal[i].generation \in Nat
    BY EventPlans
  <2>3. trip.prepared.count <= Len(journal) /\ trip.prepared.count \in Nat
    BY TripFacts
  <2>4. \A i \in trip.cursor + 1 .. trip.prepared.count : i \in 1 .. Len(journal)
    BY <1>0, <2>3
  <2> QED BY <1>0, <2>1, <2>2, <2>4
<1>4. CASE Trips!LaunchSends
  <2>1. /\ trip.state = "checked"
        /\ trip' = [trip EXCEPT !.state = "launching", !.cursor = trip.final.count, !.final = trip.final]
    BY <1>4 DEF Trips!LaunchSends, Trips!LaunchNumbers
  <2>2. trip'.cursor = trip.final.count
    BY <1>0, <2>1 DEF Trip
  <2>3. trip.final.count <= trip.cursor
    BY <2>1 DEF TripInv, Numbers
  <2>4. trip.final.count \in Nat
    BY TripFacts
  <2> QED BY <1>0, <2>2, <2>3, <2>4
<1> DEFINE Still == trip'.cursor = trip.cursor
<1>5. ASSUME NEW s \in STRING, trip' = [trip EXCEPT !.state = s] PROVE Still
  BY <1>0, <1>5 DEF Trip
<1>6. Trips!Fails => Still
  BY <1>5 DEF Trips!Fails, Trips!To
<1>7. Trips!Prepares => Still
  <2>1. Trips!Prepares => Trips!Fails \/ trip' = [trip EXCEPT !.state = "ready"]
    BY DEF Trips!Prepares, Trips!To
  <2>2. trip' = [trip EXCEPT !.state = "ready"] => Still
    BY <1>5
  <2> HIDE DEF Still
  <2> QED BY <1>6, <2>1, <2>2
<1>8. Trips!LaunchChecks \/ Trips!LaunchConfirmed => Still
  <2>1. Trips!LaunchChecks => Trips!Fails \/ trip' = [trip EXCEPT !.state = "checked"]
    BY DEF Trips!LaunchChecks, Trips!To
  <2>2. Trips!LaunchConfirmed => trip' = [trip EXCEPT !.state = "running"]
    BY DEF Trips!LaunchConfirmed, Trips!To
  <2>3. trip' = [trip EXCEPT !.state = "checked"] => Still
    BY <1>5
  <2>4. trip' = [trip EXCEPT !.state = "running"] => Still
    BY <1>5
  <2> HIDE DEF Still
  <2> QED BY <1>6, <2>1, <2>2, <2>3, <2>4
<1>9. Trips!LaunchLooks => Still
  BY <1>0 DEF Trips!LaunchLooks, Trip
<1>10. Trips!HearsForeign \/ Trips!Observes => trip.state \in {"running", "braking"}
  BY DEF Trips!HearsForeign, Trips!Observes, Trips!Followed
<1>11. Trips!DeadlineStops => Still
  BY <1>5 DEF Trips!DeadlineStops, Trips!To
<1>12. Trips!Settles => trip.state = "braking"
  BY DEF Trips!Settles
<1>13. Trips!ReversingFails => Still
  BY <1>6 DEF Trips!ReversingFails
<1>14. Trips!Turns \/ Trips!Relaunches => Still
  <2> DEFINE a == Trips!Accepted
  <2>1. a \in Trip /\ a.cursor = trip.cursor
    BY AcceptedTrip
  <2>2. Trips!Turns \/ Trips!Relaunches =>
          trip' = [a EXCEPT !.turned = TRUE] \/ trip' = [a EXCEPT !.state = "running"]
    BY DEF Trips!Turns, Trips!Relaunches
  <2> HIDE DEF a
  <2> QED BY <2>1, <2>2 DEF Trip
<1>15. Trips!Service \/ Trips!Track \/ Trips!Noise \/ UNCHANGED Trips!vars => Still
  BY DEF Trips!Service, Trips!Take, Trips!Lookup, Trips!Record, Trips!Track, Trips!Rolls, Trips!Halts,
         Trips!Noise, Trips!vars
<1>16. Trips!Looks \/ Trips!Removed => trip'.cursor = 0
  BY TripLooks, TripRemoved
<1> HIDE DEF Still
<1>17. Still => trip'.cursor = trip.cursor
  BY DEF Still
<1> QED BY <1>1, <1>2, <1>3, <1>4, <1>7, <1>8, <1>9, <1>10, <1>11, <1>12, <1>13, <1>14, <1>15, <1>16, <1>17
        DEF Trips!Next, Trips!Launches, Trips!Follows

\* The job never takes its train to be further than it is, and passes over no
\* event of its plan when it begins to read the journal: for a track of any
\* length, any number of trips, and of lost, stray and late reports.
THEOREM ReportsAreUsedOnce == Trips!Spec => ReportsUsedOnce
<1>1. Trips!Init => TripInv
  BY TripInit
<1>2. TripInv /\ [Trips!Next]_(Trips!vars) => TripInv'
  BY TripNext
<1>3. TripInv => Trips!ConfirmedIsPassed
  BY DEF TripInv, Position, Trips!ConfirmedIsPassed
<1>4. TripInv /\ [Trips!Next]_(Trips!vars) =>
        [\A i \in trip.cursor + 1 .. trip'.cursor :
           journal[i].generation = trip'.generation => trip.state \in {"running", "braking"}]_(Trips!vars)
  BY EventsSeen
<1> HIDE DEF TripInv
<1> QED BY <1>1, <1>2, <1>3, <1>4, PTL DEF Trips!Spec, ReportsUsedOnce, Trips!EventsAreSeen

-----------------------------------------------------------------------------
(* What the dashboard believes of a train.  While it collects a plan, what *)
(* it has is the beginning of one that was published; and what it shows is *)
(* never newer than the job.                                               *)

Waypoint == [at : Nat, sensor : RouteSensors \cup {Plans!NoSensor}]
JobRecord == [state : {"empty", "waiting", "moving", "stopped", "arrived"},
              start : {"label", "current", "calibration"}, plan_generation : Nat,
              projection_valid : BOOLEAN, publication_serial : Nat]
Publication == [valid : BOOLEAN, publication_serial : Nat, plan_generation : Nat,
                waypoints : Seq(Waypoint)]
SensorEvent == [plan_generation : Nat, sequence : 0 .. MaxEvents]
View == [active : BOOLEAN, plan_generation : Nat, localization_placeholder : BOOLEAN,
         awaiting_current_sensor : BOOLEAN, handoff : BOOLEAN, last_sensor_sequence : Nat,
         confirmed : Nat, displayed : Nat, at_destination : BOOLEAN, waypoints : Seq(Waypoint)]
Marked == [active : BOOLEAN, plan_generation : Nat, high_water : Nat]

ViewTypes ==
  /\ job \in JobRecord /\ publication \in Publication /\ serial \in Nat
  /\ events \in [RouteSensors -> SensorEvent]
  /\ console \in {"look", "sense", "header", "page", "sync"}
  /\ seen \in [job : JobRecord, events : [RouteSensors -> SensorEvent]]
  /\ header \in Publication /\ scratch \in Seq(Waypoint)
  /\ ui \in View /\ overlay \in Marked /\ published \subseteq Nat \X RoutePlans

\* The marker is short of every sensor that has not reported.
Short(t) == \A i \in Plans!UnconfirmedSensors(t) : t.displayed < t.waypoints[i].at

Collected ==
  /\ publication.publication_serial <= serial
  /\ publication.valid => <<publication.plan_generation, publication.waypoints>> \in published
  /\ console \in {"look", "sense", "header"} => scratch = <<>>
  /\ console = "page" =>
       /\ header.plan_generation = seen.job.plan_generation
       /\ <<header.plan_generation, header.waypoints>> \in published
       /\ header.publication_serial <= serial
       /\ header.publication_serial = publication.publication_serial =>
            header.waypoints = publication.waypoints
       /\ Len(scratch) <= Len(header.waypoints)
       /\ \A i \in 1 .. Len(scratch) : scratch[i] = header.waypoints[i]

\* What may be shown by view u and marker o of a job of generation n, with the plans p published.
Believed(u, o, n, p) ==
  u.active =>
    /\ u.waypoints # <<>> /\ u.plan_generation = o.high_water /\ u.plan_generation <= n
    /\ u.localization_placeholder /\ Len(u.waypoints) > 1 => u.plan_generation < n
    /\ Len(u.waypoints) > 2 => <<u.plan_generation, u.waypoints>> \in p
    /\ Short(u)

Believes ==
  /\ Believed(ui, overlay, job.plan_generation, published)
  /\ console # "look" => /\ seen.job.plan_generation <= job.plan_generation
                         /\ Believed(ui, overlay, seen.job.plan_generation, published)

\* From t and o to u and v: plans get newer, and a marker moves forward.
Moved(t, o, u, v) ==
  /\ v.high_water >= o.high_water
  /\ u.active => u.plan_generation = v.high_water
  /\ (t.active /\ u.active /\ u.plan_generation = t.plan_generation
        /\ Len(u.waypoints) = Len(t.waypoints))
     => u.displayed >= t.displayed /\ u.confirmed >= t.confirmed

ViewInv == ViewTypes /\ Collected /\ Believes

LEMMA LeastOf ==
  ASSUME NEW T, T \subseteq Nat, T # {}
  PROVE  Plans!Min(T) \in T /\ \A n \in T : Plans!Min(T) <= n
<1>1. \E m \in T : \A n \in T : m <= n
  BY SmallestExists
<1>2. Plans!Min(T) = CHOOSE m \in T : \A n \in T : m <= n
  BY DEF Plans!Min
<1> QED BY <1>1, <1>2

LEMMA GreatestOf ==
  ASSUME NEW T, T \subseteq Nat, T # {}, NEW b \in Nat, \A n \in T : n <= b
  PROVE  Plans!Max(T) \in T /\ \A n \in T : n <= Plans!Max(T)
<1> DEFINE D == {b - n : n \in T}
<1>1. D \subseteq Nat /\ D # {}
  <2>1. \A n \in T : b - n \in Nat
    OBVIOUS
  <2> QED BY <2>1
<1>2. PICK d \in D : \A e \in D : d <= e
  <2> HIDE DEF D
  <2> QED BY <1>1, SmallestExists
<1>3. PICK m \in T : d = b - m
  BY <1>2
<1>4. \A n \in T : m >= n
  <2> SUFFICES ASSUME NEW n \in T PROVE m >= n
    OBVIOUS
  <2>1. b - m <= b - n
    BY <1>2, <1>3
  <2> QED BY <2>1
<1>5. Plans!Max(T) = CHOOSE x \in T : \A n \in T : x >= n
  BY DEF Plans!Max
<1>6. Plans!Max(T) \in T /\ \A n \in T : Plans!Max(T) >= n
  BY <1>4, <1>5
<1>7. \A n \in T : n \in Nat
  OBVIOUS
<1> HIDE DEF D
<1> QED BY <1>6, <1>7

LEMMA OfTwo ==
  ASSUME NEW a \in Int, NEW b \in Int
  PROVE  /\ Plans!Max({a, b}) = (IF a >= b THEN a ELSE b)
         /\ Plans!Min({a, b}) = (IF a <= b THEN a ELSE b)
<1>1. Plans!Max({a, b}) = CHOOSE x \in {a, b} : \A n \in {a, b} : x >= n
  BY DEF Plans!Max
<1>2. Plans!Min({a, b}) = CHOOSE x \in {a, b} : \A n \in {a, b} : x <= n
  BY DEF Plans!Min
<1>3. \E x \in {a, b} : \A n \in {a, b} : x >= n
  OBVIOUS
<1>4. \E x \in {a, b} : \A n \in {a, b} : x <= n
  OBVIOUS
<1>5. Plans!Max({a, b}) \in {a, b} /\ Plans!Max({a, b}) >= a /\ Plans!Max({a, b}) >= b
  BY <1>1, <1>3
<1>6. Plans!Min({a, b}) \in {a, b} /\ Plans!Min({a, b}) <= a /\ Plans!Min({a, b}) <= b
  BY <1>2, <1>4
<1> QED BY <1>5, <1>6

LEMMA LeastOfTwo ==
  ASSUME NEW a \in Int, NEW b \in Int
  PROVE  Plans!Min({a, b}) = IF a <= b THEN a ELSE b
BY OfTwo

\* t has gone on to u: along the same plan, and not back.
Onward(t, u) ==
  /\ u \in View /\ Short(u)
  /\ u.active = t.active /\ u.plan_generation = t.plan_generation /\ u.waypoints = t.waypoints
  /\ u.localization_placeholder = t.localization_placeholder
  /\ u.confirmed >= t.confirmed /\ u.displayed >= t.displayed

LEMMA OnwardOn ==
  ASSUME NEW t \in View, NEW u, NEW v, Onward(t, u), Onward(u, v)
  PROVE  Onward(t, v)
<1>1. /\ t.confirmed \in Nat /\ u.confirmed \in Nat /\ v.confirmed \in Nat
      /\ t.displayed \in Nat /\ u.displayed \in Nat /\ v.displayed \in Nat
  BY DEF View, Onward
<1> QED BY <1>1 DEF Onward

LEMMA ViewFacts ==
  ASSUME NEW t \in View
  PROVE  /\ t.waypoints \in Seq(Waypoint) /\ Len(t.waypoints) \in Nat
         /\ DOMAIN t.waypoints = 1 .. Len(t.waypoints)
         /\ \A i \in DOMAIN t.waypoints : t.waypoints[i].at \in Nat
         /\ t.confirmed \in Nat /\ t.displayed \in Nat /\ t.last_sensor_sequence \in Nat
         /\ t.plan_generation \in Nat
<1>1. t.waypoints \in Seq(Waypoint)
  BY DEF View
<1>2. Len(t.waypoints) \in Nat /\ DOMAIN t.waypoints = 1 .. Len(t.waypoints)
  BY <1>1, LenProperties
<1>3. \A i \in DOMAIN t.waypoints : t.waypoints[i] \in Waypoint
  BY <1>1, <1>2, ElementOfSeq
<1>4. t.confirmed \in Nat /\ t.displayed \in Nat /\ t.last_sensor_sequence \in Nat /\ t.plan_generation \in Nat
  BY DEF View
<1> QED BY <1>1, <1>2, <1>3, <1>4 DEF Waypoint

\* One event: its way-point is confirmed, or nothing.
LEMMA ConfirmGoesOn ==
  ASSUME NEW state \in [train : View, stuck : BOOLEAN], Short(state.train), NEW s \in RouteSensors,
         seen.events[s].sequence \in Nat
  PROVE  /\ Plans!Confirm(state, s) \in [train : View, stuck : BOOLEAN]
         /\ Onward(state.train, Plans!Confirm(state, s).train)
<1> DEFINE t == state.train
           fits == {i \in DOMAIN t.waypoints : t.waypoints[i].sensor = s /\ t.waypoints[i].at > t.confirmed}
           places == {t.waypoints[i].at : i \in fits}
           m == Plans!Min(places)
           number == seen.events[s].sequence
           new == Plans!Confirm(state, s)
<1>1. t \in View /\ Short(t) /\ number \in Nat
  OBVIOUS
<1>2. Onward(t, t)
  BY <1>1, ViewFacts DEF Onward
<1>3. \/ new = state
      \/ new = [state EXCEPT !.stuck = TRUE]
      \/ fits = {} /\ new = [state EXCEPT !.train.last_sensor_sequence = number]
      \/ fits # {} /\ new = [state EXCEPT !.train = [t EXCEPT
            !.last_sensor_sequence = number, !.awaiting_current_sensor = FALSE,
            !.confirmed = m, !.displayed = Plans!Max({t.displayed, m})]]
  BY DEF Plans!Confirm
<1>4. CASE new = state
  BY <1>2, <1>4
<1>5. CASE new = [state EXCEPT !.stuck = TRUE]
  BY <1>2, <1>5
<1>6. CASE new = [state EXCEPT !.train.last_sensor_sequence = number]
  <2> DEFINE u == [t EXCEPT !.last_sensor_sequence = number]
  <2>1. new.train = u /\ new.stuck = state.stuck /\ new = [train |-> u, stuck |-> state.stuck]
    BY <1>6
  <2>2. u \in View
    BY <1>1 DEF View
  <2>3. /\ u.active = t.active /\ u.plan_generation = t.plan_generation /\ u.waypoints = t.waypoints
    BY <1>1 DEF View
  <2>4. /\ u.localization_placeholder = t.localization_placeholder
        /\ u.confirmed = t.confirmed /\ u.displayed = t.displayed
    BY <1>1 DEF View
  <2> HIDE DEF u
  <2>5. Short(u)
    BY <1>1, <2>3, <2>4 DEF Short, Plans!UnconfirmedSensors
  <2>6. u.confirmed >= t.confirmed /\ u.displayed >= t.displayed
    BY <1>1, <2>4, ViewFacts
  <2>7. Onward(t, u)
    BY <2>2, <2>3, <2>4, <2>5, <2>6 DEF Onward
  <2> QED BY <2>1, <2>2, <2>7
<1>7. CASE fits # {} /\ new = [state EXCEPT !.train = [t EXCEPT
            !.last_sensor_sequence = number, !.awaiting_current_sensor = FALSE,
            !.confirmed = m, !.displayed = Plans!Max({t.displayed, m})]]
  <2> DEFINE d == Plans!Max({t.displayed, m})
             u == [t EXCEPT !.last_sensor_sequence = number, !.awaiting_current_sensor = FALSE,
                     !.confirmed = m, !.displayed = d]
  <2>11. new.train = u /\ new = [train |-> u, stuck |-> state.stuck]
    BY <1>7
  <2>1. places \subseteq Nat /\ places # {}
    <3>1. \A i \in fits : t.waypoints[i].at \in Nat
      BY <1>1, ViewFacts
    <3>2. PICK i \in fits : TRUE
      BY <1>7
    <3> HIDE DEF fits
    <3> QED BY <3>1, <3>2
  <2>2. m \in places
    <3> HIDE DEF places
    <3> QED BY <2>1, LeastOf
  <2>3. m \in Nat /\ m > t.confirmed
    BY <2>1, <2>2
  <2>4. PICK k \in fits : m = t.waypoints[k].at
    BY <2>2
  <2>5. k \in Plans!UnconfirmedSensors(t)
    <3>1. s # Plans!NoSensor
      BY ComponentAssumptions DEF Plans!LiveViewAssumption
    <3>2. k \in DOMAIN t.waypoints /\ t.waypoints[k].sensor = s /\ t.waypoints[k].at > t.confirmed
      BY <2>4
    <3> QED BY <3>1, <3>2 DEF Plans!UnconfirmedSensors
  <2> HIDE DEF m, fits, places
  <2>6. t.displayed \in Nat /\ t.confirmed \in Nat
    BY <1>1, ViewFacts
  <2>7. d \in Nat /\ d >= t.displayed /\ d = (IF t.displayed >= m THEN t.displayed ELSE m)
    BY <2>3, <2>6, OfTwo
  <2> HIDE DEF d
  <2>8. u \in View
    BY <1>1, <2>3, <2>7 DEF View
  <2>9. u.active = t.active /\ u.plan_generation = t.plan_generation /\ u.waypoints = t.waypoints
    BY <1>1 DEF View
  <2>10. u.localization_placeholder = t.localization_placeholder /\ u.confirmed = m /\ u.displayed = d
    BY <1>1 DEF View
  <2> HIDE DEF u
  <2>12. Short(u)
    <3> SUFFICES ASSUME NEW i \in Plans!UnconfirmedSensors(u) PROVE u.displayed < u.waypoints[i].at
      BY DEF Short
    <3>1. i \in DOMAIN t.waypoints /\ t.waypoints[i].sensor # Plans!NoSensor /\ t.waypoints[i].at > m
      BY <2>9, <2>10 DEF Plans!UnconfirmedSensors
    <3>2. t.waypoints[i].at \in Nat
      BY <1>1, <3>1, ViewFacts
    <3>3. t.waypoints[i].at > t.confirmed
      BY <2>3, <2>6, <3>1, <3>2
    <3>4. t.displayed < t.waypoints[i].at
      BY <1>1, <3>1, <3>3 DEF Short, Plans!UnconfirmedSensors
    <3> QED BY <2>3, <2>6, <2>7, <2>9, <2>10, <3>1, <3>2, <3>4
  <2>13. u.confirmed >= t.confirmed /\ u.displayed >= t.displayed
    BY <2>3, <2>6, <2>7, <2>10
  <2>14. Onward(t, u)
    BY <2>8, <2>9, <2>10, <2>12, <2>13 DEF Onward
  <2> QED BY <2>8, <2>11, <2>14
<1> QED BY <1>3, <1>4, <1>5, <1>6, <1>7

\* The event with number n, where t has not dealt with it.
Numbered(t, n) ==
  {s \in RouteSensors : /\ seen.events[s].plan_generation = t.plan_generation
                        /\ seen.events[s].sequence = n /\ n > t.last_sensor_sequence}

\* g tells what has become of t after each of the first n events.
Follows(g, t, n) ==
  g = [k \in 0 .. n |->
         IF k = 0 THEN [train |-> t, stuck |-> FALSE]
         ELSE IF Numbered(t, k) = {} THEN g[k - 1]
         ELSE Plans!Confirm(g[k - 1], CHOOSE s \in Numbered(t, k) : TRUE)]

LEMMA FollowsExists ==
  ASSUME NEW t
  PROVE  \A n \in Nat : \E g : Follows(g, t, n)
<1> DEFINE S == {n \in Nat : \E g : Follows(g, t, n)}
<1>1. 0 \in S
  <2> DEFINE g == [k \in 0 .. 0 |-> [train |-> t, stuck |-> FALSE]]
  <2>1. Follows(g, t, 0)
    BY DEF Follows
  <2> QED BY <2>1
<1>2. ASSUME NEW n \in Nat, n \in S PROVE n + 1 \in S
  <2>1. PICK g : Follows(g, t, n)
    BY <1>2
  <2> DEFINE h == [k \in 0 .. n + 1 |->
                     IF k <= n THEN g[k]
                     ELSE IF Numbered(t, k) = {} THEN g[n]
                     ELSE Plans!Confirm(g[n], CHOOSE s \in Numbered(t, k) : TRUE)]
  <2>2. ASSUME NEW k \in 0 .. n + 1
        PROVE  h[k] = IF k = 0 THEN [train |-> t, stuck |-> FALSE]
                      ELSE IF Numbered(t, k) = {} THEN h[k - 1]
                      ELSE Plans!Confirm(h[k - 1], CHOOSE s \in Numbered(t, k) : TRUE)
    <3>1. CASE k = 0
      BY <3>1, <2>1 DEF Follows
    <3>2. CASE k # 0 /\ k <= n
      <4>1. k \in 0 .. n /\ k - 1 \in 0 .. n /\ k - 1 \in 0 .. n + 1 /\ k - 1 <= n
        BY <3>2
      <4>2. h[k] = g[k] /\ h[k - 1] = g[k - 1]
        BY <3>2, <4>1
      <4>3. g[k] = IF Numbered(t, k) = {} THEN g[k - 1]
                   ELSE Plans!Confirm(g[k - 1], CHOOSE s \in Numbered(t, k) : TRUE)
        BY <3>2, <4>1, <2>1 DEF Follows
      <4> QED BY <3>2, <4>2, <4>3
    <3>3. CASE k = n + 1
      <4>1. h[k - 1] = g[n] /\ k # 0
        BY <3>3
      <4>2. h[k] = IF Numbered(t, k) = {} THEN g[n]
                   ELSE Plans!Confirm(g[n], CHOOSE s \in Numbered(t, k) : TRUE)
        BY <3>3
      <4> HIDE DEF h
      <4> QED BY <4>1, <4>2
    <3> QED BY <3>1, <3>2, <3>3
  <2>3. Follows(h, t, n + 1)
    <3>1. h = [k \in 0 .. n + 1 |-> h[k]]
      OBVIOUS
    <3> HIDE DEF h
    <3> QED BY <3>1, <2>2 DEF Follows
  <2> QED BY <2>3
<1>3. Nat \subseteq S
  <2> HIDE DEF S
  <2> QED BY <1>1, <1>2, Induction
<1> QED BY <1>3

\* The events that have come move the marker forward, if at all.
LEMMA EventsGoOn ==
  ASSUME NEW t \in View, Short(t), seen.events \in [RouteSensors -> SensorEvent]
  PROVE  Onward(t, Plans!ApplyNewEvents(t))
<1> DEFINE numbers == {seen.events[s].sequence : s \in RouteSensors}
           last == Plans!Max(numbers)
           g == CHOOSE h : Follows(h, t, last)
<1>1. MaxEvents \in Nat /\ RouteSensors # {}
  BY ComponentAssumptions DEF Plans!LiveViewAssumption
<1>2. \A s \in RouteSensors : seen.events[s].sequence \in 0 .. MaxEvents
  BY DEF SensorEvent
<1>3. last \in Nat
  <2>1. numbers \subseteq Nat /\ \A n \in numbers : n <= MaxEvents
    BY <1>1, <1>2
  <2>2. numbers # {}
    BY <1>1
  <2> HIDE DEF numbers
  <2>3. last \in numbers
    BY <1>1, <2>1, <2>2, GreatestOf
  <2> QED BY <2>1, <2>3
<1>4. Plans!ApplyNewEvents(t) = g[last].train
  BY DEF Plans!ApplyNewEvents, Follows, Numbered
<1> HIDE DEF last
<1>5. Follows(g, t, last)
  BY <1>3, FollowsExists
<1> HIDE DEF g
<1> DEFINE Good(n) == g[n] \in [train : View, stuck : BOOLEAN] /\ Onward(t, g[n].train)
           P == {n \in Nat : n <= last => Good(n)}
<1>6. 0 \in P
  <2>1. 0 \in 0 .. last
    BY <1>3
  <2>2. g[0] = [train |-> t, stuck |-> FALSE]
    BY <1>5, <2>1 DEF Follows
  <2>3. Onward(t, t)
    BY ViewFacts DEF Onward
  <2>4. g[0] \in [train : View, stuck : BOOLEAN] /\ g[0].train = t
    BY <2>2
  <2>5. Good(0)
    BY <2>3, <2>4
  <2> HIDE DEF Good
  <2> QED BY <2>5
<1>7. ASSUME NEW n \in Nat, n \in P PROVE n + 1 \in P
  <2> SUFFICES ASSUME n + 1 <= last PROVE Good(n + 1)
    OBVIOUS
  <2>1. g[n] \in [train : View, stuck : BOOLEAN] /\ Onward(t, g[n].train)
    BY <1>3, <1>7
  <2>2. n + 1 \in 0 .. last /\ n + 1 # 0 /\ n + 1 - 1 = n
    BY <1>3
  <2>3. PICK k \in 0 .. last : k = n + 1 /\ k # 0 /\ k - 1 = n
    BY <2>2
  <2>4. g[k] = IF Numbered(t, k) = {} THEN g[n]
               ELSE Plans!Confirm(g[n], CHOOSE s \in Numbered(t, k) : TRUE)
    BY <1>5, <2>3 DEF Follows
  <2>5. CASE Numbered(t, k) = {}
    BY <2>1, <2>3, <2>4, <2>5
  <2>6. CASE Numbered(t, k) # {}
    <3> DEFINE s == CHOOSE x \in Numbered(t, k) : TRUE
    <3>1. s \in Numbered(t, k)
      BY <2>6
    <3>2. s \in RouteSensors /\ g[k] = Plans!Confirm(g[n], s)
      BY <2>4, <2>6, <3>1 DEF Numbered
    <3> HIDE DEF s
    <3>3. seen.events[s].sequence \in Nat
      BY <1>1, <1>2, <3>2
    <3>4. Short(g[n].train)
      BY <2>1 DEF Onward
    <3>5. g[k] \in [train : View, stuck : BOOLEAN] /\ Onward(g[n].train, g[k].train)
      BY <2>1, <3>2, <3>3, <3>4, ConfirmGoesOn
    <3>6. Onward(t, g[k].train)
      BY <2>1, <3>5, OnwardOn
    <3> QED BY <2>3, <3>5, <3>6
  <2> QED BY <2>5, <2>6
<1>8. last \in P
  <2> HIDE DEF P
  <2> QED BY <1>3, <1>6, <1>7, Induction
<1> QED BY <1>3, <1>4, <1>8

\* A marker moves by its own reckoning up to the next sensor.
LEMMA PredictionGoesOn ==
  ASSUME NEW t \in View, Short(t), t.waypoints # <<>>, NEW progress \in Nat
  PROVE  Onward(t, Plans!Predicted(t, progress))
<1> DEFINE new == Plans!Predicted(t, progress)
           open == Plans!UnconfirmedSensors(t)
           places == {t.waypoints[i].at : i \in open}
           gate == Plans!Gate(t)
           end == t.waypoints[Len(t.waypoints)].at
           near == Plans!Min({progress, end})
           far == Plans!Max({t.displayed, near})
           hold == open # {} /\ gate - 1 >= t.displayed
           d == IF hold THEN Plans!Min({far, gate - 1}) ELSE far
<1> SUFFICES Onward(t, new)
  OBVIOUS
<1>1. new = t \/ new = [t EXCEPT !.displayed = d]
  BY DEF Plans!Predicted
<1>2. /\ t.displayed \in Nat /\ t.confirmed \in Nat
      /\ DOMAIN t.waypoints = 1 .. Len(t.waypoints) /\ Len(t.waypoints) \in Nat
      /\ \A i \in DOMAIN t.waypoints : t.waypoints[i].at \in Nat
  BY ViewFacts
<1>3. end \in Nat
  <2>1. Len(t.waypoints) # 0
    BY ViewFacts
  <2>2. Len(t.waypoints) \in DOMAIN t.waypoints
    BY <1>2, <2>1
  <2> QED BY <1>2, <2>2
<1> HIDE DEF end
<1>4. near \in Nat
  <2>1. near = IF progress <= end THEN progress ELSE end
    BY <1>3, LeastOfTwo
  <2> QED BY <1>3, <2>1
<1> HIDE DEF near
<1>5. far \in Nat /\ far >= t.displayed
  <2>1. far = IF t.displayed >= near THEN t.displayed ELSE near
    BY <1>2, <1>4, OfTwo
  <2> QED BY <1>2, <1>4, <2>1
<1>6. open # {} => gate \in places /\ gate \in Nat /\ \A p \in places : gate <= p
  <2> SUFFICES ASSUME open # {} PROVE gate \in places /\ gate \in Nat /\ \A p \in places : gate <= p
    OBVIOUS
  <2>1. gate = Plans!Min(places)
    BY DEF Plans!Gate
  <2>2. \A i \in open : t.waypoints[i].at \in Nat
    BY <1>2 DEF Plans!UnconfirmedSensors
  <2>3. places \subseteq Nat /\ places # {}
    <3> HIDE DEF open
    <3> QED BY <2>2
  <2> HIDE DEF places, gate
  <2>4. gate \in places /\ \A p \in places : gate <= p
    BY <2>1, <2>3, LeastOf
  <2> QED BY <2>3, <2>4
<1>7. open # {} => gate > t.displayed
  <2> SUFFICES ASSUME open # {} PROVE gate > t.displayed
    OBVIOUS
  <2>1. PICK i \in open : gate = t.waypoints[i].at
    BY <1>6
  <2> HIDE DEF gate
  <2> QED BY <1>2, <1>6, <2>1 DEF Short
<1> HIDE DEF far, gate
<1>8. open # {} => hold
  BY <1>2, <1>6, <1>7
<1>9. d \in Nat /\ d >= t.displayed
  <2>1. CASE hold
    <3>1. gate \in Nat /\ gate - 1 \in Int /\ gate - 1 >= t.displayed
      BY <1>6, <2>1
    <3>2. d = IF far <= gate - 1 THEN far ELSE gate - 1
      <4>1. Plans!Min({far, gate - 1}) = IF far <= gate - 1 THEN far ELSE gate - 1
        BY <1>5, <3>1, LeastOfTwo
      <4> HIDE DEF hold
      <4> QED BY <2>1, <4>1
    <3> HIDE DEF d
    <3> QED BY <1>2, <1>5, <3>1, <3>2
  <2>2. CASE ~hold
    BY <1>5, <2>2
  <2> QED BY <2>1, <2>2
<1>10. \A i \in open : d < t.waypoints[i].at
  <2> SUFFICES ASSUME NEW i \in open PROVE d < t.waypoints[i].at
    OBVIOUS
  <2>1. hold /\ gate \in Nat /\ gate <= t.waypoints[i].at
    BY <1>6, <1>8
  <2>2. t.waypoints[i].at \in Nat
    BY <1>2 DEF Plans!UnconfirmedSensors
  <2>3. d = IF far <= gate - 1 THEN far ELSE gate - 1
    <3>1. gate - 1 \in Int
      BY <2>1
    <3>2. Plans!Min({far, gate - 1}) = IF far <= gate - 1 THEN far ELSE gate - 1
      BY <1>5, <3>1, LeastOfTwo
    <3> HIDE DEF hold
    <3> QED BY <2>1, <3>2
  <2> HIDE DEF d, open, hold
  <2> QED BY <1>5, <2>1, <2>2, <2>3
<1> HIDE DEF d
<1>11. CASE new = t
  <2>1. Onward(t, t)
    BY <1>2 DEF Onward
  <2> HIDE DEF new
  <2> QED BY <1>11, <2>1
<1>12. CASE new = [t EXCEPT !.displayed = d]
  <2> HIDE DEF new
  <2>1. new \in View
    BY <1>9, <1>12 DEF View
  <2>2. new.active = t.active /\ new.plan_generation = t.plan_generation /\ new.waypoints = t.waypoints
    BY <1>12 DEF View
  <2>3. /\ new.localization_placeholder = t.localization_placeholder
        /\ new.confirmed = t.confirmed /\ new.displayed = d
    BY <1>12 DEF View
  <2>4. Plans!UnconfirmedSensors(new) = open
    BY <2>2, <2>3 DEF Plans!UnconfirmedSensors
  <2>5. Short(new)
    <3> HIDE DEF open
    <3> QED BY <1>10, <2>2, <2>3, <2>4 DEF Short
  <2> QED BY <1>2, <1>9, <2>1, <2>2, <2>3, <2>5 DEF Onward
<1> QED BY <1>1, <1>11, <1>12

LEMMA NextPage ==
  ASSUME NEW S, NEW w \in Seq(S), NEW s \in Seq(S), Len(s) <= Len(w),
         \A i \in 1 .. Len(s) : s[i] = w[i], NEW rest, rest = SubSeq(w, Len(s) + 1, Len(w)),
         NEW c \in Nat, c <= Len(rest), NEW more, more = s \o SubSeq(rest, 1, c)
  PROVE  /\ more \in Seq(S) /\ Len(more) <= Len(w)
         /\ \A i \in 1 .. Len(more) : more[i] = w[i]
         /\ Len(more) >= Len(w) => more = w
<1>1. Len(s) \in Nat /\ Len(w) \in Nat
  BY LenProperties
<1>2. /\ rest \in Seq(S) /\ Len(rest) = Len(w) - Len(s)
      /\ \A i \in 1 .. Len(w) - Len(s) : rest[i] = w[Len(s) + i]
  <2>1. Len(s) + 1 \in Nat \ {0} /\ Len(s) + 1 \in 1 .. Len(w) + 1
    BY <1>1
  <2>2. \A i \in Len(s) + 1 .. Len(w) : i \in 1 .. Len(w)
    BY <1>1
  <2>3. /\ SubSeq(w, Len(s) + 1, Len(w)) \in Seq(S)
        /\ Len(SubSeq(w, Len(s) + 1, Len(w))) = IF Len(s) + 1 <= Len(w) THEN Len(w) - (Len(s) + 1) + 1 ELSE 0
        /\ \A i \in 1 .. Len(w) - (Len(s) + 1) + 1 : SubSeq(w, Len(s) + 1, Len(w))[i] = w[Len(s) + 1 + i - 1]
    BY <1>1, <2>1, <2>2, SubSeqProperties
  <2>4. Len(rest) = Len(w) - Len(s)
    BY <1>1, <2>3
  <2>5. ASSUME NEW i \in 1 .. Len(w) - Len(s) PROVE rest[i] = w[Len(s) + i]
    <3>1. i \in 1 .. Len(w) - (Len(s) + 1) + 1 /\ Len(s) + 1 + i - 1 = Len(s) + i
      BY <1>1
    <3> QED BY <2>3, <3>1
  <2> QED BY <2>3, <2>4, <2>5
<1> DEFINE page == SubSeq(rest, 1, c)
<1>3. page \in Seq(S) /\ Len(page) = c /\ \A i \in 1 .. c : page[i] = rest[i]
  <2>1. \A i \in 1 .. c : i \in 1 .. Len(rest)
    BY <1>1, <1>2
  <2>2. /\ SubSeq(rest, 1, c) \in Seq(S)
        /\ Len(SubSeq(rest, 1, c)) = IF 1 <= c THEN c - 1 + 1 ELSE 0
        /\ \A i \in 1 .. c - 1 + 1 : SubSeq(rest, 1, c)[i] = rest[1 + i - 1]
    BY <1>2, <2>1, SubSeqProperties
  <2>3. Len(page) = c
    BY <2>2
  <2>4. ASSUME NEW i \in 1 .. c PROVE page[i] = rest[i]
    <3>1. i \in 1 .. c - 1 + 1 /\ 1 + i - 1 = i
      OBVIOUS
    <3> QED BY <2>2, <3>1
  <2> QED BY <2>2, <2>3, <2>4
<1> HIDE DEF page
<1>4. /\ more \in Seq(S) /\ Len(more) = Len(s) + c
      /\ \A i \in 1 .. Len(s) + c : more[i] = IF i <= Len(s) THEN s[i] ELSE page[i - Len(s)]
  <2>1. more = s \o page
    BY DEF page
  <2> QED BY <1>3, <2>1, ConcatProperties
<1>5. Len(more) <= Len(w)
  BY <1>1, <1>2, <1>4
<1>6. ASSUME NEW i \in 1 .. Len(more) PROVE more[i] = w[i]
  <2>1. i \in 1 .. Len(s) + c
    BY <1>4
  <2>2. CASE i <= Len(s)
    <3>1. i \in 1 .. Len(s) /\ more[i] = s[i]
      BY <1>4, <2>1, <2>2
    <3> QED BY <3>1
  <2>3. CASE ~(i <= Len(s))
    <3>1. more[i] = page[i - Len(s)]
      BY <1>4, <2>1, <2>3
    <3>2. i - Len(s) \in 1 .. c /\ i - Len(s) \in 1 .. Len(w) - Len(s) /\ Len(s) + (i - Len(s)) = i
      BY <1>1, <1>2, <2>1, <2>3
    <3>3. PICK k \in 1 .. c : k = i - Len(s)
      BY <3>2
    <3>4. page[k] = rest[k] /\ rest[k] = w[Len(s) + k] /\ Len(s) + k = i
      BY <1>2, <1>3, <3>2, <3>3
    <3> QED BY <3>1, <3>3, <3>4
  <2> QED BY <2>2, <2>3
<1>7. ASSUME Len(more) >= Len(w) PROVE more = w
  <2>1. Len(more) = Len(w)
    BY <1>1, <1>4, <1>5, <1>7
  <2>2. \A i \in 1 .. Len(w) : more[i] = w[i]
    BY <1>6, <2>1
  <2> QED BY <1>4, <2>1, <2>2, SeqEqual
<1> QED BY <1>4, <1>5, <1>6, <1>7

LEMMA BelievedOn ==
  ASSUME NEW u \in View, NEW o, NEW n \in Nat, NEW m \in Nat, n <= m, NEW p, NEW r, p \subseteq r,
         Believed(u, o, n, p)
  PROVE  Believed(u, o, m, r)
<1>1. u.plan_generation \in Nat
  BY ViewFacts
<1> QED BY <1>1 DEF Believed

LEMMA ViewParts ==
  ASSUME ViewInv
  PROVE  /\ job \in JobRecord /\ publication \in Publication /\ serial \in Nat
         /\ seen.job \in JobRecord /\ seen.events \in [RouteSensors -> SensorEvent]
         /\ header \in Publication /\ scratch \in Seq(Waypoint) /\ ui \in View /\ overlay \in Marked
         /\ job.plan_generation \in Nat /\ seen.job.plan_generation \in Nat
         /\ publication.publication_serial \in Nat /\ header.publication_serial \in Nat
         /\ ui.plan_generation \in Nat /\ overlay.high_water \in Nat
<1>1. /\ job \in JobRecord /\ publication \in Publication /\ serial \in Nat
      /\ seen.job \in JobRecord /\ seen.events \in [RouteSensors -> SensorEvent]
      /\ header \in Publication /\ scratch \in Seq(Waypoint) /\ ui \in View /\ overlay \in Marked
  BY DEF ViewInv, ViewTypes
<1>2. /\ job.plan_generation \in Nat /\ seen.job.plan_generation \in Nat
      /\ publication.publication_serial \in Nat /\ header.publication_serial \in Nat
      /\ overlay.high_water \in Nat
  BY <1>1 DEF JobRecord, Publication, Marked
<1>3. ui.plan_generation \in Nat
  BY <1>1, ViewFacts
<1> QED BY <1>1, <1>2, <1>3

\* A plan that is taken.
LEMMA AcceptShows ==
  ASSUME ViewInv, console # "look", NEW g, g = seen.job.plan_generation,
         NEW w \in Seq(Waypoint), w # <<>>, NEW at \in Int,
         Len(w) > 2 => <<g, w>> \in published,
         Plans!Accept(g, w, at)
  PROVE  /\ ui' \in View /\ overlay' \in Marked
         /\ Believed(ui', overlay', seen.job.plan_generation, published)
         /\ Moved(ui, overlay, ui', overlay')
<1>1. /\ ui \in View /\ overlay \in Marked /\ g \in Nat /\ Len(w) \in Nat
      /\ Believed(ui, overlay, g, published)
      /\ ui.plan_generation \in Nat /\ overlay.high_water \in Nat
      /\ ui.displayed \in Nat /\ ui.confirmed \in Nat /\ Len(ui.waypoints) \in Nat
  BY ViewParts, ViewFacts, LenProperties DEF ViewInv, Believes
<1> DEFINE retained == seen.job.start = "current" /\ overlay.active
           aligned == at >= 0
           pl == seen.job.start = "current" /\ Len(w) = 1
           aw == retained /\ Len(w) > 1 /\ ~aligned
           d == IF retained /\ Len(w) > 1 /\ aligned THEN at ELSE 0
           c == IF retained /\ Len(w) > 1 /\ aligned THEN at
                ELSE IF Plans!Upgrade(g, w) THEN ui.confirmed ELSE 0
           new == [active |-> TRUE, plan_generation |-> g, localization_placeholder |-> pl,
                   awaiting_current_sensor |-> aw, handoff |-> FALSE,
                   last_sensor_sequence |-> ui.last_sensor_sequence,
                   confirmed |-> c, displayed |-> d, at_destination |-> FALSE, waypoints |-> w]
           mark == [active |-> TRUE, plan_generation |-> g, high_water |-> g]
<1>2. CASE ~Plans!Upgrade(g, w) /\ ~Plans!Newer(g)
  <2>1. UNCHANGED <<ui, overlay>>
    BY <1>2 DEF Plans!Accept
  <2>2. Moved(ui, overlay, ui, overlay)
    BY <1>1 DEF Moved, Believed
  <2> QED BY <1>1, <2>1, <2>2
<1>3. CASE Plans!Upgrade(g, w) \/ Plans!Newer(g)
  <2>1. ui' = new /\ overlay' = mark
    BY <1>3 DEF Plans!Accept, Plans!NoView
  <2>2. c \in Nat /\ d \in Nat /\ d <= c
    BY <1>1
  <2>3. pl \in BOOLEAN /\ aw \in BOOLEAN /\ ui.last_sensor_sequence \in Nat
    BY <1>1, ViewFacts
  <2>4. pl => Len(w) = 1
    OBVIOUS
  <2> HIDE DEF c, d, pl, aw
  <2>5. new \in View /\ mark \in Marked
    BY <1>1, <2>2, <2>3 DEF View, Marked
  <2>6. Short(new)
    <3> SUFFICES ASSUME NEW i \in Plans!UnconfirmedSensors(new) PROVE d < w[i].at
      BY DEF Short
    <3>1. i \in DOMAIN w /\ w[i].at > c
      BY DEF Plans!UnconfirmedSensors
    <3>2. w[i].at \in Nat
      <4>1. new.waypoints = w
        OBVIOUS
      <4> HIDE DEF new
      <4> QED BY <2>5, <3>1, <4>1, ViewFacts
    <3> QED BY <2>2, <3>1, <3>2
  <2>7. Believed(new, mark, g, published)
    <3>1. /\ new.waypoints = w /\ new.plan_generation = g /\ mark.high_water = g
          /\ new.localization_placeholder = pl
      OBVIOUS
    <3>2. ~(new.localization_placeholder /\ Len(new.waypoints) > 1)
      <4> HIDE DEF new
      <4> SUFFICES ASSUME new.localization_placeholder, Len(new.waypoints) > 1 PROVE FALSE
        OBVIOUS
      <4>1. Len(w) = 1
        BY <2>4, <3>1
      <4>2. Len(w) > 1
        BY <3>1
      <4> QED BY <4>1, <4>2
    <3>3. Len(new.waypoints) > 2 => <<new.plan_generation, new.waypoints>> \in published
      BY <3>1
    <3>4. new.waypoints # <<>> /\ new.plan_generation = mark.high_water /\ new.plan_generation <= g
      BY <1>1, <3>1
    <3> HIDE DEF new, mark
    <3> QED BY <2>6, <3>2, <3>3, <3>4 DEF Believed
  <2>8. g >= overlay.high_water
    BY <1>1, <1>3 DEF Plans!Upgrade, Plans!Newer, Believed
  <2>9. ~(ui.active /\ g = ui.plan_generation /\ Len(w) = Len(ui.waypoints))
    <3> SUFFICES ASSUME ui.active, g = ui.plan_generation, Len(w) = Len(ui.waypoints) PROVE FALSE
      OBVIOUS
    <3>1. Plans!Upgrade(g, w)
      BY <1>1, <1>3 DEF Plans!Newer
    <3>2. ui.localization_placeholder /\ Len(ui.waypoints) > 1
      BY <3>1 DEF Plans!Upgrade
    <3> QED BY <1>1, <3>2 DEF Believed
  <2>10. Moved(ui, overlay, new, mark)
    <3>1. new.waypoints = w /\ new.plan_generation = g /\ mark.high_water = g
      OBVIOUS
    <3> HIDE DEF new, mark
    <3> QED BY <2>8, <2>9, <3>1 DEF Moved
  <2> HIDE DEF new, mark
  <2> QED BY <2>1, <2>5, <2>7, <2>10
<1> QED BY <1>2, <1>3

Stays == UNCHANGED <<console, seen, header, scratch, ui, overlay>>

\* The dispatcher's record of the job gets newer, and a publication does not
\* change, except for being withdrawn, under the number it has.
LEMMA JobMoves ==
  ASSUME ViewInv, Stays, job' \in JobRecord, job.plan_generation <= job'.plan_generation,
         publication' \in Publication, serial' \in Nat, serial <= serial',
         events' \in [RouteSensors -> SensorEvent], published \subseteq published',
         published' \subseteq Nat \X RoutePlans, publication'.publication_serial <= serial',
         publication'.valid => <<publication'.plan_generation, publication'.waypoints>> \in published',
         \/ publication'.publication_serial > serial
         \/ /\ publication'.publication_serial = publication.publication_serial
            /\ publication'.waypoints = publication.waypoints
  PROVE  ViewInv'
<1>1. ViewTypes'
  BY DEF ViewInv, ViewTypes, Stays
<1>2. Collected'
  <2>1. console' = "page" =>
          /\ header'.plan_generation = seen'.job.plan_generation
          /\ <<header'.plan_generation, header'.waypoints>> \in published'
          /\ Len(scratch') <= Len(header'.waypoints)
          /\ \A i \in 1 .. Len(scratch') : scratch'[i] = header'.waypoints[i]
    BY DEF ViewInv, Collected, Stays
  <2>2. console' = "page" => header'.publication_serial <= serial /\ header'.publication_serial <= serial'
    BY ViewParts DEF ViewInv, Collected, Stays
  <2>3. console' = "page" /\ header'.publication_serial = publication'.publication_serial =>
          header'.waypoints = publication'.waypoints
    <3> SUFFICES ASSUME console' = "page", header'.publication_serial = publication'.publication_serial
                 PROVE  header'.waypoints = publication'.waypoints
      OBVIOUS
    <3>1. ~(publication'.publication_serial > serial)
      BY <2>2, ViewParts DEF Stays
    <3> QED BY <3>1 DEF ViewInv, Collected, Stays
  <2>4. console' \in {"look", "sense", "header"} => scratch' = <<>>
    BY DEF ViewInv, Collected, Stays
  <2> QED BY <2>1, <2>2, <2>3, <2>4 DEF Collected
<1>3. Believes'
  <2>1. job'.plan_generation \in Nat
    BY DEF JobRecord
  <2>2. Believed(ui, overlay, job'.plan_generation, published')
    BY <2>1, ViewParts, BelievedOn DEF ViewInv, Believes
  <2>3. console # "look" => /\ seen.job.plan_generation <= job'.plan_generation
                            /\ Believed(ui, overlay, seen.job.plan_generation, published')
    <3>1. ui \in View /\ seen.job.plan_generation \in Nat /\ job.plan_generation \in Nat
      BY ViewParts
    <3>2. console # "look" => /\ seen.job.plan_generation <= job.plan_generation
                              /\ Believed(ui, overlay, seen.job.plan_generation, published)
      BY DEF ViewInv, Believes
    <3>3. console # "look" => Believed(ui, overlay, seen.job.plan_generation, published')
      BY <3>1, <3>2, BelievedOn
    <3> QED BY <2>1, <3>1, <3>2, <3>3
  <2> QED BY <2>2, <2>3 DEF Believes, Stays
<1> QED BY <1>1, <1>2, <1>3 DEF ViewInv

LEMMA WithdrawnFacts ==
  ASSUME ViewInv
  PROVE  /\ Plans!Withdrawn \in Publication /\ Plans!Withdrawn.valid = FALSE
         /\ Plans!Withdrawn.publication_serial = publication.publication_serial
         /\ Plans!Withdrawn.waypoints = publication.waypoints
<1>1. publication \in Publication
  BY ViewParts
<1>2. Plans!Withdrawn \in Publication /\ Plans!Withdrawn.valid = FALSE
  BY <1>1 DEF Plans!Withdrawn, Publication
<1>3. /\ Plans!Withdrawn.publication_serial = publication.publication_serial
      /\ Plans!Withdrawn.waypoints = publication.waypoints
  BY <1>1 DEF Plans!Withdrawn, Publication
<1> QED BY <1>2, <1>3

LEMMA NoJobRecord == Plans!NoJob \in JobRecord
BY DEF Plans!NoJob, JobRecord

\* Nothing is published.
LEMMA NothingPublished ==
  ASSUME ViewInv, Stays, job' \in JobRecord, job.plan_generation <= job'.plan_generation,
         publication' = Plans!Withdrawn \/ publication' = publication,
         UNCHANGED <<serial, published>>, events' \in [RouteSensors -> SensorEvent]
  PROVE  ViewInv'
<1>1. publication.publication_serial <= serial /\ serial \in Nat /\ publication \in Publication
      /\ published \subseteq Nat \X RoutePlans
  BY ViewParts DEF ViewInv, ViewTypes, Collected
<1>2. publication.valid => <<publication.plan_generation, publication.waypoints>> \in published
  BY DEF ViewInv, Collected
<1>3. CASE publication' = Plans!Withdrawn
  <2>1. /\ publication' \in Publication /\ publication'.publication_serial = publication.publication_serial
        /\ publication'.waypoints = publication.waypoints /\ ~publication'.valid
    BY <1>3, WithdrawnFacts
  <2> QED BY <1>1, <2>1, JobMoves
<1>4. CASE publication' = publication
  BY <1>1, <1>2, <1>4, JobMoves
<1> QED BY <1>3, <1>4

LEMMA ViewDispatches ==
  ASSUME ViewInv, Plans!Dispatcher
  PROVE  ViewInv'
<1>0. /\ Stays /\ job \in JobRecord /\ events \in [RouteSensors -> SensorEvent]
      /\ job.plan_generation \in Nat /\ serial \in Nat
  BY ViewParts DEF Plans!Dispatcher, Plans!console, Stays, ViewInv, ViewTypes
<1>1. CASE Plans!Stage
  <2>1. PICK start \in {"label", "current", "calibration"},
             g \in {job.plan_generation, job.plan_generation + 1} :
          job' = [Plans!NoJob EXCEPT !.state = "waiting", !.start = start, !.plan_generation = g]
    BY <1>1 DEF Plans!Stage
  <2>2. g \in Nat /\ job.plan_generation <= g
    BY <1>0
  <2>3. job' \in JobRecord /\ job'.plan_generation = g
    BY <2>1, <2>2 DEF Plans!NoJob, JobRecord
  <2>4. publication' = Plans!Withdrawn /\ UNCHANGED <<serial, published, events>>
    BY <1>1 DEF Plans!Stage
  <2> QED BY <1>0, <2>2, <2>3, <2>4, NothingPublished
<1>2. CASE Plans!Prepare
  <2> DEFINE g == job.plan_generation + 1
             prepared == [job EXCEPT !.state = "moving", !.plan_generation = g]
  <2>1. \/ /\ \E r \in RoutePlans :
                /\ publication' = [valid |-> TRUE, publication_serial |-> serial + 1,
                                   plan_generation |-> g, waypoints |-> r]
                /\ published' = published \cup {<<g, r>>}
           /\ serial' = serial + 1
           /\ job' = [prepared EXCEPT !.projection_valid = TRUE, !.publication_serial = serial + 1]
        \/ /\ job' = [prepared EXCEPT !.projection_valid = FALSE, !.publication_serial = 0]
           /\ publication' = Plans!Withdrawn
           /\ UNCHANGED <<serial, published>>
    BY <1>2 DEF Plans!Prepare, Plans!Unpublished
  <2>2. UNCHANGED events
    BY <1>2 DEF Plans!Prepare
  <2>3. g \in Nat /\ job.plan_generation <= g /\ serial + 1 \in Nat /\ serial + 1 > serial
    BY <1>0
  <2>4. prepared \in JobRecord /\ prepared.plan_generation = g
    BY <1>0, <2>3 DEF JobRecord
  <2> HIDE DEF prepared, g
  <2>5. CASE \E r \in RoutePlans :
                /\ publication' = [valid |-> TRUE, publication_serial |-> serial + 1,
                                   plan_generation |-> g, waypoints |-> r]
                /\ published' = published \cup {<<g, r>>}
                /\ serial' = serial + 1
                /\ job' = [prepared EXCEPT !.projection_valid = TRUE, !.publication_serial = serial + 1]
    <3>1. PICK r \in RoutePlans :
                /\ publication' = [valid |-> TRUE, publication_serial |-> serial + 1,
                                   plan_generation |-> g, waypoints |-> r]
                /\ published' = published \cup {<<g, r>>}
                /\ serial' = serial + 1
                /\ job' = [prepared EXCEPT !.projection_valid = TRUE, !.publication_serial = serial + 1]
      BY <2>5
    <3>2. r \in Seq(Waypoint)
      BY ComponentAssumptions DEF Plans!LiveViewAssumption, Waypoint
    <3>3. publication' \in Publication
      BY <2>3, <3>1, <3>2 DEF Publication
    <3>4. job' \in JobRecord /\ job'.plan_generation = g
      BY <2>3, <2>4, <3>1 DEF JobRecord
    <3>5. /\ publication'.publication_serial = serial + 1 /\ publication'.plan_generation = g
          /\ publication'.waypoints = r
      BY <3>1
    <3>6. <<publication'.plan_generation, publication'.waypoints>> \in published'
      BY <3>1, <3>5
    <3>8. published' \subseteq Nat \X RoutePlans
      BY <2>3, <3>1 DEF ViewInv, ViewTypes
    <3>7. published \subseteq published' /\ serial' \in Nat /\ serial <= serial'
          /\ publication'.publication_serial <= serial' /\ publication'.publication_serial > serial
      BY <1>0, <2>3, <3>1, <3>5
    <3> QED BY <1>0, <2>2, <2>3, <3>3, <3>4, <3>6, <3>7, <3>8, JobMoves
  <2>6. CASE /\ job' = [prepared EXCEPT !.projection_valid = FALSE, !.publication_serial = 0]
             /\ publication' = Plans!Withdrawn
             /\ UNCHANGED <<serial, published>>
    <3>1. job' \in JobRecord /\ job'.plan_generation = g
      BY <2>4, <2>6 DEF JobRecord
    <3> QED BY <1>0, <2>2, <2>3, <2>6, <3>1, NothingPublished
  <2> QED BY <2>1, <2>5, <2>6
<1>3. CASE Plans!Halt
  <2>1. /\ \/ job' = [[job EXCEPT !.projection_valid = FALSE, !.publication_serial = 0] EXCEPT !.state = "stopped"]
           \/ job' = [job EXCEPT !.state = "arrived"]
        /\ publication' = Plans!Withdrawn \/ publication' = publication
        /\ UNCHANGED <<serial, published, events>>
    BY <1>3 DEF Plans!Halt, Plans!Unpublished
  <2>2. CASE job' = [[job EXCEPT !.projection_valid = FALSE, !.publication_serial = 0] EXCEPT !.state = "stopped"]
    <3>1. job' \in JobRecord /\ job'.plan_generation = job.plan_generation
      BY <1>0, <2>2 DEF JobRecord
    <3> QED BY <1>0, <2>1, <3>1, NothingPublished
  <2>3. CASE job' = [job EXCEPT !.state = "arrived"]
    <3>1. job' \in JobRecord /\ job'.plan_generation = job.plan_generation
      BY <1>0, <2>3 DEF JobRecord
    <3> QED BY <1>0, <2>1, <3>1, NothingPublished
  <2> QED BY <2>1, <2>2, <2>3
<1>4. CASE Plans!RemoveJob
  <2>1. /\ job' = [Plans!NoJob EXCEPT !.plan_generation = job.plan_generation]
        /\ publication' = Plans!Withdrawn /\ UNCHANGED <<serial, published, events>>
    BY <1>4 DEF Plans!RemoveJob
  <2>2. job' \in JobRecord /\ job'.plan_generation = job.plan_generation
    BY <1>0, <2>1 DEF Plans!NoJob, JobRecord
  <2> QED BY <1>0, <2>1, <2>2, NothingPublished
<1>5. CASE Plans!Event
  <2> DEFINE numbers == {events[s].sequence : s \in RouteSensors}
             last == Plans!Max(numbers)
  <2>1. /\ last < MaxEvents
        /\ \E s \in RouteSensors :
             events' = [events EXCEPT ![s] = [plan_generation |-> job.plan_generation, sequence |-> last + 1]]
        /\ UNCHANGED <<job, publication, serial, published>>
    BY <1>5 DEF Plans!Event
  <2>2. MaxEvents \in Nat /\ RouteSensors # {}
    BY ComponentAssumptions DEF Plans!LiveViewAssumption
  <2>3. \A s \in RouteSensors : events[s].sequence \in 0 .. MaxEvents
    BY <1>0 DEF SensorEvent
  <2>4. last \in Nat
    <3>1. numbers \subseteq Nat /\ \A n \in numbers : n <= MaxEvents
      BY <2>2, <2>3
    <3>2. numbers # {}
      BY <2>2
    <3> HIDE DEF numbers
    <3>3. last \in numbers
      BY <2>2, <3>1, <3>2, GreatestOf
    <3> QED BY <3>1, <3>3
  <2> HIDE DEF last
  <2>5. [plan_generation |-> job.plan_generation, sequence |-> last + 1] \in SensorEvent
    BY <1>0, <2>1, <2>2, <2>4 DEF SensorEvent
  <2>6. events' \in [RouteSensors -> SensorEvent]
    BY <1>0, <2>1, <2>5
  <2> QED BY <1>0, <2>1, <2>6, NothingPublished
<1> QED BY <1>1, <1>2, <1>3, <1>4, <1>5 DEF Plans!Dispatcher

Rests == UNCHANGED <<job, publication, serial, events, published>>

NotMoved == Moved(ui, overlay, ui, overlay)

LEMMA NotMovedHolds ==
  ASSUME ViewInv
  PROVE  NotMoved
<1>1. ui.displayed \in Nat /\ ui.confirmed \in Nat /\ overlay.high_water \in Nat
  BY ViewParts, ViewFacts
<1>2. ui.active => ui.plan_generation = overlay.high_water
  BY DEF ViewInv, Believes, Believed
<1> QED BY <1>1, <1>2 DEF NotMoved, Moved

LEMMA NothingSeen ==
  /\ Plans!NotLooked \in [job : JobRecord, events : [RouteSensors -> SensorEvent]]
  /\ Plans!NoPublication \in Publication /\ Plans!NoView \in View /\ ~Plans!NoView.active
<1>1. Plans!NoEvent \in SensorEvent
  BY ComponentAssumptions DEF Plans!NoEvent, SensorEvent, Plans!LiveViewAssumption
<1>2. [s \in RouteSensors |-> Plans!NoEvent] \in [RouteSensors -> SensorEvent]
  BY <1>1
<1>3. Plans!NotLooked \in [job : JobRecord, events : [RouteSensors -> SensorEvent]]
  BY <1>2, NoJobRecord DEF Plans!NotLooked
<1>4. <<>> \in Seq(Waypoint)
  OBVIOUS
<1>5. Plans!NoPublication \in Publication
  BY <1>4 DEF Plans!NoPublication, Publication
<1>6. Plans!NoView \in View /\ ~Plans!NoView.active
  BY <1>4 DEF Plans!NoView, View
<1> QED BY <1>3, <1>5, <1>6

LEMMA ViewInit ==
  ASSUME Plans!Init
  PROVE  ViewInv
<1>1. /\ job = Plans!NoJob /\ publication = Plans!NoPublication /\ serial = 0 /\ published = {}
      /\ events = [s \in RouteSensors |-> Plans!NoEvent] /\ console = "look" /\ seen = Plans!NotLooked
      /\ header = Plans!NoPublication /\ scratch = <<>> /\ ui = Plans!NoView
      /\ overlay = [active |-> FALSE, plan_generation |-> 0, high_water |-> 0]
  BY DEF Plans!Init
<1>2. Plans!NotLooked.events = [s \in RouteSensors |-> Plans!NoEvent]
  BY DEF Plans!NotLooked
<1>3. events \in [RouteSensors -> SensorEvent]
  BY <1>1, <1>2, NothingSeen
<1>4. overlay \in Marked /\ scratch \in Seq(Waypoint)
  BY <1>1 DEF Marked
<1>5. ViewTypes
  BY <1>1, <1>3, <1>4, NothingSeen, NoJobRecord DEF ViewTypes
<1>6. Collected
  BY <1>1 DEF Collected, Plans!NoPublication
<1>7. Believes
  BY <1>1, NothingSeen DEF Believes, Believed
<1> QED BY <1>5, <1>6, <1>7 DEF ViewInv

LEMMA ViewLooks ==
  ASSUME ViewInv, Plans!Look, Rests
  PROVE  ViewInv' /\ Moved(ui, overlay, ui', overlay')
<1>1. /\ console = "look" /\ seen' = [seen EXCEPT !.job = job]
      /\ console' = "sense" /\ UNCHANGED <<header, scratch, ui, overlay>>
  BY DEF Plans!Look
<1>2. seen' \in [job : JobRecord, events : [RouteSensors -> SensorEvent]] /\ seen'.job = job
  BY <1>1 DEF ViewInv, ViewTypes
<1>3. ViewTypes'
  BY <1>1, <1>2 DEF ViewInv, ViewTypes, Rests
<1>4. Collected'
  BY <1>1 DEF ViewInv, Collected, Rests
<1>5. Believes'
  BY <1>1, <1>2, ViewParts DEF ViewInv, Believes, Rests
<1> QED BY <1>1, <1>3, <1>4, <1>5, NotMovedHolds DEF ViewInv, NotMoved

LEMMA ViewSenses ==
  ASSUME ViewInv, Plans!Sense, Rests
  PROVE  ViewInv' /\ Moved(ui, overlay, ui', overlay')
<1>1. /\ console = "sense" /\ seen' = [seen EXCEPT !.events = events]
      /\ console' \in {"sync", "header"} /\ UNCHANGED <<header, scratch, ui, overlay>>
  BY DEF Plans!Sense
<1>2. seen' \in [job : JobRecord, events : [RouteSensors -> SensorEvent]] /\ seen'.job = seen.job
  BY <1>1 DEF ViewInv, ViewTypes
<1>3. ViewTypes'
  BY <1>1, <1>2 DEF ViewInv, ViewTypes, Rests
<1>4. Collected'
  BY <1>1 DEF ViewInv, Collected, Rests
<1>5. Believes'
  BY <1>1, <1>2 DEF ViewInv, Believes, Rests
<1> QED BY <1>1, <1>3, <1>4, <1>5, NotMovedHolds DEF ViewInv, NotMoved

\* A step that ends the attempt with what is shown as it was, or a plan that is taken.
LEMMA Concluded ==
  ASSUME ViewInv, Rests, console # "look", console' = "sync", UNCHANGED seen,
         header' \in Publication, scratch' \in Seq(Waypoint), ui' \in View, overlay' \in Marked,
         Believed(ui', overlay', seen.job.plan_generation, published)
  PROVE  ViewInv'
<1>1. ViewTypes'
  BY DEF ViewInv, ViewTypes, Rests
<1>2. Collected'
  BY DEF ViewInv, Collected, Rests
<1>3. seen.job.plan_generation <= job.plan_generation
  BY DEF ViewInv, Believes
<1>4. Believed(ui', overlay', job.plan_generation, published)
  BY <1>3, ViewParts, BelievedOn
<1>5. Believes'
  BY <1>3, <1>4 DEF Believes, Rests
<1> QED BY <1>1, <1>2, <1>5 DEF ViewInv

LEMMA ConcludedAsBefore ==
  ASSUME ViewInv, Rests, console # "look", console' = "sync",
         UNCHANGED <<seen, ui, overlay>>, header' \in Publication, scratch' \in Seq(Waypoint)
  PROVE  ViewInv' /\ Moved(ui, overlay, ui', overlay')
<1>1. Believed(ui', overlay', seen.job.plan_generation, published)
  BY DEF ViewInv, Believes
<1>2. ViewInv'
  BY <1>1, ViewParts, Concluded
<1> QED BY <1>2, NotMovedHolds DEF NotMoved

LEMMA ConcludedByPlan ==
  ASSUME ViewInv, Rests, console # "look", console' = "sync", UNCHANGED seen,
         header' \in Publication, scratch' \in Seq(Waypoint),
         NEW g, g = seen.job.plan_generation, NEW w \in Seq(Waypoint), w # <<>>, NEW at \in Int,
         Len(w) > 2 => <<g, w>> \in published, Plans!Accept(g, w, at)
  PROVE  ViewInv' /\ Moved(ui, overlay, ui', overlay')
<1>1. /\ ui' \in View /\ overlay' \in Marked
      /\ Believed(ui', overlay', seen.job.plan_generation, published)
      /\ Moved(ui, overlay, ui', overlay')
  BY AcceptShows
<1> QED BY <1>1, Concluded

LEMMA ViewHeads ==
  ASSUME ViewInv, Plans!Header, Rests
  PROVE  ViewInv' /\ Moved(ui, overlay, ui', overlay')
<1>0. /\ console = "header" /\ UNCHANGED seen /\ scratch = <<>>
      /\ header \in Publication /\ scratch \in Seq(Waypoint) /\ publication \in Publication
  BY ViewParts DEF Plans!Header, ViewInv, Collected
<1>1. CASE seen.job.projection_valid
  <2>1. \/ /\ publication.valid /\ publication.plan_generation = seen.job.plan_generation
           /\ header' = publication /\ console' = "page"
           /\ UNCHANGED <<scratch, ui, overlay>>
        \/ header' = Plans!NoPublication /\ console' = "sync" /\ UNCHANGED <<scratch, ui, overlay>>
    BY <1>1 DEF Plans!Header
  <2>2. CASE header' = Plans!NoPublication /\ console' = "sync" /\ UNCHANGED <<scratch, ui, overlay>>
    <3>1. header' \in Publication /\ scratch' \in Seq(Waypoint)
      BY <1>0, <2>2, NothingSeen
    <3> QED BY <1>0, <2>2, <3>1, ConcludedAsBefore
  <2>3. CASE /\ publication.valid /\ publication.plan_generation = seen.job.plan_generation
             /\ header' = publication /\ console' = "page"
             /\ UNCHANGED <<scratch, ui, overlay>>
    <3>1. ViewTypes'
      BY <1>0, <2>3 DEF ViewInv, ViewTypes, Rests
    <3>2. Collected'
      <4>1. Len(header'.waypoints) \in Nat
        BY <1>0, <2>3, LenProperties DEF Publication
      <4>2. publication.publication_serial <= serial
            /\ <<publication.plan_generation, publication.waypoints>> \in published
        BY <2>3 DEF ViewInv, Collected
      <4>3. Len(scratch') = 0 /\ \A i \in 1 .. Len(scratch') : FALSE
        BY <1>0, <2>3
      <4>4. Len(scratch') <= Len(header'.waypoints)
        BY <4>1, <4>3
      <4> QED BY <1>0, <2>3, <4>2, <4>3, <4>4 DEF ViewInv, Collected, Rests
    <3>3. Believes'
      BY <1>0, <2>3 DEF ViewInv, Believes, Rests
    <3> QED BY <2>3, <3>1, <3>2, <3>3, NotMovedHolds DEF ViewInv, NotMoved
  <2> QED BY <2>1, <2>2, <2>3
<1>2. CASE ~seen.job.projection_valid
  <2> DEFINE here == [at |-> 0, sensor |-> Plans!NoSensor]
             line == CHOOSE r \in RoutePlans : TRUE
             g == seen.job.plan_generation
  <2>1. /\ console' = "sync" /\ UNCHANGED <<header, scratch>>
        /\ \/ Plans!Accept(g, <<here>>, -1)
           \/ Plans!Accept(g, <<here, line[Len(line)]>>, -1)
           \/ UNCHANGED <<ui, overlay>>
    BY <1>2 DEF Plans!Header
  <2>2. here \in Waypoint
    BY DEF Waypoint
  <2>3. line \in RoutePlans
    BY ComponentAssumptions DEF Plans!LiveViewAssumption
  <2>4. line \in Seq(Waypoint) /\ Len(line) > 1
    BY <2>3, ComponentAssumptions DEF Plans!LiveViewAssumption, Waypoint
  <2> HIDE DEF here, line
  <2>5. line[Len(line)] \in Waypoint
    <3>1. Len(line) \in 1 .. Len(line)
      BY <2>4, LenProperties
    <3> QED BY <2>4, <3>1, ElementOfSeq
  <2>6. /\ <<here>> \in Seq(Waypoint) /\ <<here>> # <<>> /\ ~(Len(<<here>>) > 2)
        /\ <<here, line[Len(line)]>> \in Seq(Waypoint) /\ <<here, line[Len(line)]>> # <<>>
        /\ ~(Len(<<here, line[Len(line)]>>) > 2)
    BY <2>2, <2>5
  <2>7. header' \in Publication /\ scratch' \in Seq(Waypoint) /\ console # "look" /\ -1 \in Int
    BY <1>0, <2>1
  <2>8. CASE Plans!Accept(g, <<here>>, -1)
    BY <1>0, <2>1, <2>6, <2>7, <2>8, ConcludedByPlan
  <2>9. CASE Plans!Accept(g, <<here, line[Len(line)]>>, -1)
    BY <1>0, <2>1, <2>6, <2>7, <2>9, ConcludedByPlan
  <2>10. CASE UNCHANGED <<ui, overlay>>
    BY <1>0, <2>1, <2>7, <2>10, ConcludedAsBefore
  <2> QED BY <2>1, <2>8, <2>9, <2>10
<1> QED BY <1>1, <1>2

LEMMA ViewPages ==
  ASSUME ViewInv, Plans!Page, Rests
  PROVE  ViewInv' /\ Moved(ui, overlay, ui', overlay')
<1>0. /\ console = "page" /\ UNCHANGED <<seen, header>>
      /\ header \in Publication /\ scratch \in Seq(Waypoint) /\ publication \in Publication
  BY ViewParts DEF Plans!Page
<1>1. CASE ~Plans!PageThere
  <2>1. console' = "sync" /\ UNCHANGED <<scratch, ui, overlay>>
    BY <1>1 DEF Plans!Page
  <2>2. header' \in Publication /\ scratch' \in Seq(Waypoint)
    BY <1>0, <2>1
  <2> QED BY <1>0, <2>1, <2>2, ConcludedAsBefore
<1>2. CASE Plans!PageThere
  <2> DEFINE w == header.waypoints
             rest == SubSeq(publication.waypoints, Len(scratch) + 1, Len(publication.waypoints))
             n == Plans!Min({PageCapacity, Len(rest)})
             more == scratch \o SubSeq(rest, 1, n)
  <2>1. /\ scratch' = more
        /\ \/ Len(more) < Len(w) /\ UNCHANGED <<console, ui, overlay>>
           \/ ~(Len(more) < Len(w)) /\ console' = "sync"
              /\ \E at \in Plans!Alignments(more) : Plans!Accept(header.plan_generation, more, at)
    BY <1>2 DEF Plans!Page
  <2>2. /\ publication.waypoints = w /\ <<header.plan_generation, w>> \in published
        /\ header.plan_generation = seen.job.plan_generation
        /\ Len(scratch) <= Len(w) /\ \A i \in 1 .. Len(scratch) : scratch[i] = w[i]
    BY <1>0, <1>2 DEF Plans!PageThere, ViewInv, Collected
  <2>3. w \in Seq(Waypoint) /\ Len(w) \in Nat /\ Len(scratch) \in Nat
    BY <1>0, LenProperties DEF Publication
  <2>4. rest = SubSeq(w, Len(scratch) + 1, Len(w))
    BY <2>2
  <2>5. n \in Nat /\ n <= Len(rest)
    <3>1. Len(rest) \in Nat
      <4>1. \A i \in Len(scratch) + 1 .. Len(w) : w[i] \in Waypoint
        <5> SUFFICES ASSUME NEW i \in Len(scratch) + 1 .. Len(w) PROVE w[i] \in Waypoint
          OBVIOUS
        <5>1. i \in 1 .. Len(w)
          BY <2>3
        <5> QED BY <2>3, <5>1, ElementOfSeq
      <4>2. Len(scratch) + 1 \in Int /\ Len(w) \in Int
        BY <2>3
      <4>3. rest \in Seq(Waypoint)
        BY <2>4, <4>1, <4>2, SubSeqProperties
      <4> QED BY <4>3, LenProperties
    <3>2. PageCapacity \in Nat
      BY ComponentAssumptions DEF Plans!LiveViewAssumption
    <3> HIDE DEF rest
    <3>3. n = IF PageCapacity <= Len(rest) THEN PageCapacity ELSE Len(rest)
      BY <3>1, <3>2, LeastOfTwo
    <3> HIDE DEF n
    <3> QED BY <3>1, <3>2, <3>3
  <2> HIDE DEF rest, n
  <2>6. /\ more \in Seq(Waypoint) /\ Len(more) <= Len(w)
        /\ \A i \in 1 .. Len(more) : more[i] = w[i]
        /\ Len(more) >= Len(w) => more = w
    <3>1. /\ w \in Seq(Waypoint) /\ scratch \in Seq(Waypoint) /\ Len(scratch) <= Len(w)
          /\ \A i \in 1 .. Len(scratch) : scratch[i] = w[i]
          /\ rest = SubSeq(w, Len(scratch) + 1, Len(w)) /\ n \in Nat /\ n <= Len(rest)
      BY <1>0, <2>2, <2>3, <2>4, <2>5
    <3>2. more = scratch \o SubSeq(rest, 1, n)
      OBVIOUS
    <3> HIDE DEF w, more
    <3>3. more \in Seq(Waypoint) /\ Len(more) <= Len(w)
      BY <3>1, <3>2, NextPage
    <3>4. \A i \in 1 .. Len(more) : more[i] = w[i]
      BY <3>1, <3>2, NextPage
    <3>5. Len(more) >= Len(w) => more = w
      BY <3>1, <3>2, NextPage
    <3> QED BY <3>3, <3>4, <3>5
  <2> HIDE DEF more
  <2>7. CASE Len(more) < Len(w) /\ UNCHANGED <<console, ui, overlay>>
    <3>1. ViewTypes'
      BY <1>0, <2>1, <2>6, <2>7 DEF ViewInv, ViewTypes, Rests
    <3>2. Collected'
      BY <1>0, <2>1, <2>2, <2>6, <2>7 DEF ViewInv, Collected, Rests
    <3>3. Believes'
      BY <1>0, <2>7 DEF ViewInv, Believes, Rests
    <3> QED BY <2>7, <3>1, <3>2, <3>3, NotMovedHolds DEF ViewInv, NotMoved
  <2>8. CASE ~(Len(more) < Len(w)) /\ console' = "sync"
              /\ \E at \in Plans!Alignments(more) : Plans!Accept(header.plan_generation, more, at)
    <3>1. more = w
      <4>1. Len(more) \in Nat
        BY <2>6, LenProperties
      <4> QED BY <2>3, <2>6, <2>8, <4>1
    <3>2. w \in RoutePlans
      BY <2>2 DEF ViewInv, ViewTypes
    <3>3. more # <<>> /\ Len(more) > 1
      BY <3>1, <3>2, ComponentAssumptions DEF Plans!LiveViewAssumption
    <3>4. PICK at \in Plans!Alignments(more) : Plans!Accept(header.plan_generation, more, at)
      BY <2>8
    <3>5. at \in Int
      BY <3>4 DEF Plans!Alignments
    <3>6. header' \in Publication /\ scratch' \in Seq(Waypoint)
      BY <1>0, <2>1, <2>6
    <3>7. Len(more) > 2 => <<header.plan_generation, more>> \in published
      BY <2>2, <3>1
    <3> QED BY <1>0, <2>2, <2>6, <2>8, <3>3, <3>4, <3>5, <3>6, <3>7, ConcludedByPlan
  <2> QED BY <2>1, <2>7, <2>8
<1> QED BY <1>1, <1>2

LEMMA OnwardBelieved ==
  ASSUME NEW t, NEW u, NEW o, NEW n, NEW p, Onward(t, u), Believed(t, o, n, p)
  PROVE  Believed(u, o, n, p)
BY DEF Onward, Believed

LEMMA HandoffOver ==
  ASSUME NEW t \in View, Short(t), NEW b \in BOOLEAN
  PROVE  Onward(t, [t EXCEPT !.handoff = b]) /\ Onward(t, [t EXCEPT !.at_destination = b])
<1>0. t.confirmed \in Nat /\ t.displayed \in Nat
  BY ViewFacts
<1>1. ASSUME NEW u \in {[t EXCEPT !.handoff = b], [t EXCEPT !.at_destination = b]}
      PROVE  Onward(t, u)
  <2>1. u \in View
    BY DEF View
  <2>2. u.active = t.active /\ u.plan_generation = t.plan_generation /\ u.waypoints = t.waypoints
    BY DEF View
  <2>3. /\ u.localization_placeholder = t.localization_placeholder
        /\ u.confirmed = t.confirmed /\ u.displayed = t.displayed
    BY DEF View
  <2>4. Short(u)
    BY <2>2, <2>3 DEF Short, Plans!UnconfirmedSensors
  <2> QED BY <1>0, <2>1, <2>2, <2>3, <2>4 DEF Onward
<1> QED BY <1>1

\* A snapshot of the plan that is shown.
LEMMA SyncGoesOn ==
  ASSUME ViewInv, ui.active, NEW state, NEW progress \in Plans!Advances(ui), NEW confirmed,
         confirmed = [Plans!ApplyNewEvents(ui) EXCEPT !.handoff = FALSE],
         NEW new,
         new = Plans!Arrived(IF state = "moving" THEN Plans!Predicted(confirmed, progress) ELSE confirmed, state)
  PROVE  Onward(ui, new)
<1>1. /\ ui \in View /\ Short(ui) /\ seen.events \in [RouteSensors -> SensorEvent] /\ ui.waypoints # <<>>
  BY ViewParts DEF ViewInv, Believes, Believed
<1>2. progress \in Nat
  BY DEF Plans!Advances
<1> DEFINE a == Plans!ApplyNewEvents(ui)
<1>3. Onward(ui, a)
  BY <1>1, EventsGoOn
<1> HIDE DEF a
<1>4. Onward(a, confirmed)
  <2>1. a \in View /\ Short(a)
    BY <1>3 DEF Onward
  <2>2. confirmed = [a EXCEPT !.handoff = FALSE]
    BY DEF a
  <2> QED BY <2>1, <2>2, HandoffOver
<1>5. Onward(ui, confirmed) /\ confirmed.waypoints # <<>> /\ confirmed \in View /\ Short(confirmed)
  <2>1. Onward(ui, confirmed)
    BY <1>1, <1>3, <1>4, OnwardOn
  <2> QED BY <1>1, <2>1 DEF Onward
<1> DEFINE v == IF state = "moving" THEN Plans!Predicted(confirmed, progress) ELSE confirmed
<1>6. Onward(ui, v)
  <2>1. CASE state = "moving"
    <3>1. Onward(confirmed, Plans!Predicted(confirmed, progress))
      BY <1>2, <1>5, PredictionGoesOn
    <3> QED BY <1>1, <1>5, <2>1, <3>1, OnwardOn
  <2>2. CASE state # "moving"
    BY <1>5, <2>2
  <2> QED BY <2>1, <2>2
<1>7. new = Plans!Arrived(v, state)
  OBVIOUS
<1> HIDE DEF v
<1>8. v \in View /\ Short(v)
  BY <1>6 DEF Onward
<1>9. new = [v EXCEPT !.at_destination = v.at_destination \/ state = "arrived"]
  BY <1>7 DEF Plans!Arrived
<1>10. (v.at_destination \/ state = "arrived") \in BOOLEAN
  OBVIOUS
<1>11. Onward(v, new)
  BY <1>8, <1>9, <1>10, HandoffOver
<1> QED BY <1>1, <1>6, <1>11, OnwardOn

LEMMA ViewSyncs ==
  ASSUME ViewInv, Plans!Sync, Rests
  PROVE  ViewInv' /\ Moved(ui, overlay, ui', overlay')
<1>1. /\ console = "sync" /\ console' = "look"
      /\ seen' = Plans!NotLooked /\ header' = Plans!NoPublication /\ scratch' = <<>>
  BY DEF Plans!Sync, Plans!Forgotten
<1>2. /\ ui \in View /\ overlay \in Marked /\ seen.job.plan_generation <= job.plan_generation
      /\ Believed(ui, overlay, job.plan_generation, published)
      /\ Believed(ui, overlay, seen.job.plan_generation, published)
      /\ ui.plan_generation \in Nat /\ seen.job.plan_generation \in Nat /\ job.plan_generation \in Nat
      /\ overlay.high_water \in Nat
  BY <1>1, ViewParts DEF ViewInv, Believes
<1>3. ASSUME ui' \in View, overlay' \in Marked, Believed(ui', overlay', job.plan_generation, published)
      PROVE  ViewInv'
  <2>1. ViewTypes'
    <3>1. scratch' \in Seq(Waypoint)
      BY <1>1
    <3> QED BY <1>1, <1>3, <3>1, NothingSeen DEF ViewInv, ViewTypes, Rests
  <2>2. Collected'
    BY <1>1 DEF ViewInv, Collected, Rests
  <2>3. Believes'
    BY <1>1, <1>3 DEF Believes, Rests
  <2> QED BY <2>1, <2>2, <2>3 DEF ViewInv
<1>4. CASE UNCHANGED <<ui, overlay>>
  BY <1>2, <1>3, <1>4, NotMovedHolds DEF NotMoved
<1>5. CASE ui' = Plans!NoView /\ overlay' = [overlay EXCEPT !.active = FALSE, !.plan_generation = 0]
  <2>1. overlay' \in Marked /\ overlay'.high_water = overlay.high_water
    BY <1>2, <1>5 DEF Marked
  <2>2. ui' \in View /\ ~ui'.active
    BY <1>5, NothingSeen
  <2>3. Moved(ui, overlay, ui', overlay') /\ Believed(ui', overlay', job.plan_generation, published)
    BY <1>2, <2>1, <2>2 DEF Moved, Believed
  <2> QED BY <1>3, <2>1, <2>2, <2>3
<1>6. CASE ui.active /\ Onward(ui, ui') /\ UNCHANGED overlay
  <2>1. Believed(ui', overlay', job.plan_generation, published)
    BY <1>2, <1>6, OnwardBelieved
  <2>2. Moved(ui, overlay, ui', overlay')
    BY <1>2, <1>6 DEF Moved, Onward, Believed
  <2>3. ui' \in View
    BY <1>6 DEF Onward
  <2> QED BY <1>2, <1>3, <1>6, <2>1, <2>2, <2>3
<1>7. CASE /\ ui.active /\ UNCHANGED overlay /\ seen.job.plan_generation # ui.plan_generation
           /\ ui' = [ui EXCEPT !.localization_placeholder = TRUE, !.awaiting_current_sensor = TRUE]
  <2>1. ui' \in View
    BY <1>2, <1>7 DEF View
  <2>2. /\ ui'.active = ui.active /\ ui'.plan_generation = ui.plan_generation
        /\ ui'.waypoints = ui.waypoints
    BY <1>2, <1>7 DEF View
  <2>3. ui'.confirmed = ui.confirmed /\ ui'.displayed = ui.displayed
    BY <1>2, <1>7 DEF View
  <2>4. Short(ui')
    <3>1. Short(ui)
      BY <1>2, <1>7 DEF Believed
    <3> QED BY <2>2, <2>3, <3>1 DEF Short, Plans!UnconfirmedSensors
  <2>5. ui.plan_generation < job.plan_generation
    <3>1. ui.plan_generation <= seen.job.plan_generation
      BY <1>2, <1>7 DEF Believed
    <3> QED BY <1>2, <1>7, <3>1
  <2>6. Believed(ui', overlay', job.plan_generation, published)
    BY <1>2, <1>7, <2>2, <2>4, <2>5 DEF Believed
  <2>7. Moved(ui, overlay, ui', overlay')
    <3>1. ui.displayed \in Nat /\ ui.confirmed \in Nat
      BY <1>2, ViewFacts
    <3> QED BY <1>2, <1>7, <2>2, <2>3, <3>1 DEF Moved, Believed
  <2> QED BY <1>2, <1>3, <1>7, <2>1, <2>6, <2>7
<1>8. CASE ui.active /\ seen.job.state # "empty" /\ seen.job.plan_generation # ui.plan_generation
  <2>1. /\ UNCHANGED overlay
        /\ \/ ui' = [ui EXCEPT !.handoff = TRUE]
           \/ ui' = [ui EXCEPT !.localization_placeholder = TRUE, !.awaiting_current_sensor = TRUE]
    BY <1>8 DEF Plans!Sync
  <2>2. Short(ui)
    BY <1>2, <1>8 DEF Believed
  <2>3. CASE ui' = [ui EXCEPT !.handoff = TRUE]
    <3>1. Onward(ui, ui')
      BY <1>2, <2>2, <2>3, HandoffOver
    <3> QED BY <1>6, <1>8, <2>1, <3>1
  <2> QED BY <1>7, <1>8, <2>1, <2>3
<1>9. CASE ui.active /\ seen.job.state # "empty" /\ seen.job.plan_generation = ui.plan_generation
  <2> DEFINE confirmed == [Plans!ApplyNewEvents(ui) EXCEPT !.handoff = FALSE]
  <2>1. UNCHANGED overlay
    BY <1>9 DEF Plans!Sync
  <2>2. PICK progress \in Plans!Advances(ui) :
          ui' = Plans!Arrived(IF seen.job.state = "moving" THEN Plans!Predicted(confirmed, progress)
                              ELSE confirmed, seen.job.state)
    BY <1>9 DEF Plans!Sync
  <2>3. Onward(ui, ui')
    BY <1>9, <2>2, SyncGoesOn
  <2> QED BY <1>6, <1>9, <2>1, <2>3
<1>10. CASE ~ui.active
  BY <1>4, <1>10 DEF Plans!Sync
<1>11. CASE ui.active /\ seen.job.state = "empty"
  BY <1>5, <1>11 DEF Plans!Sync
<1> QED BY <1>8, <1>9, <1>10, <1>11

LEMMA ViewNext ==
  ASSUME ViewInv, [Plans!Next]_(Plans!vars)
  PROVE  ViewInv' /\ Moved(ui, overlay, ui', overlay')
<1>1. CASE Plans!Dispatcher
  <2>1. UNCHANGED <<ui, overlay>>
    BY <1>1 DEF Plans!Dispatcher, Plans!console
  <2> QED BY <1>1, <2>1, ViewDispatches, NotMovedHolds DEF NotMoved
<1>2. CASE Plans!Console
  <2>1. Rests /\ (Plans!Look \/ Plans!Sense \/ Plans!Header \/ Plans!Page \/ Plans!Sync)
    BY <1>2 DEF Plans!Console, Plans!dispatcher, Rests
  <2> QED BY <2>1, ViewLooks, ViewSenses, ViewHeads, ViewPages, ViewSyncs
<1>3. CASE UNCHANGED Plans!vars
  <2>1. Rests /\ Stays
    BY <1>3 DEF Plans!vars, Plans!dispatcher, Plans!console, Rests, Stays
  <2>2. UNCHANGED <<ui, overlay>>
    BY <2>1 DEF Stays
  <2>3. ViewTypes' /\ Collected' /\ Believes'
    BY <2>1 DEF ViewInv, ViewTypes, Collected, Believes, Rests, Stays
  <2> QED BY <2>2, <2>3, NotMovedHolds DEF ViewInv, NotMoved
<1> QED BY <1>1, <1>2, <1>3 DEF Plans!Next

\* What the dashboard shows of a train is a plan that was published as a whole,
\* whatever is published and withdrawn while it is collected; its marker never
\* gets past a sensor that has not reported, and never goes back: for all plans,
\* any size of a page, and any number of plans and of sensor events.
THEOREM MarkerIsAlwaysRight == Plans!Spec => MarkerIsRight
<1>1. Plans!Init => ViewInv
  BY ViewInit
<1>2. ViewInv /\ [Plans!Next]_(Plans!vars) => ViewInv'
  BY ViewNext
<1>3. ViewInv => Plans!ShownPlanIsWhole
  BY DEF ViewInv, Believes, Believed, Short, Plans!ShownPlanIsWhole
<1>4. ViewInv /\ [Plans!Next]_(Plans!vars) =>
        [/\ overlay'.high_water >= overlay.high_water
         /\ ui'.active => ui'.plan_generation = overlay'.high_water
         /\ (ui.active /\ ui'.active /\ ui'.plan_generation = ui.plan_generation
               /\ Len(ui'.waypoints) = Len(ui.waypoints))
            => ui'.displayed >= ui.displayed /\ ui'.confirmed >= ui.confirmed]_(Plans!vars)
  BY ViewNext DEF Moved
<1> HIDE DEF ViewInv
<1> QED BY <1>1, <1>2, <1>3, <1>4, PTL DEF Plans!Spec, MarkerIsRight, Plans!MarkerOnlyAdvances
=============================================================================
