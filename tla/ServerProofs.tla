---------------------------- MODULE ServerProofs ----------------------------
(***************************************************************************)
(* Proofs about the terminal server, the name server and the CAN server,   *)
(* for every number of clients and every size of their buffers, queues and *)
(* tables.                                                                 *)
(*                                                                         *)
(* Terminal: a byte that was typed is in one place on its way in, and the  *)
(* places in a row are the line of what was typed; so is a byte that was   *)
(* accepted on its way out.  Name server: a name is in one slot at most.   *)
(* CAN server: a client that waits is in one place only, the message at    *)
(* hand or one frame of the queue, and what is cleared away for something  *)
(* more urgent, or with a batch that failed, takes just its own clients.   *)
(* Its batches: every change of the queue cuts something out of it or puts *)
(* a block of frames in, and the table of batches tells how many are left. *)
(* Its answers: of those to come that prove nothing but that one frame was *)
(* carried out, one at most is the frame's on the wire, and one at most    *)
(* another's, which is the quarantined one's.                              *)
(***************************************************************************)
EXTENDS Components, ListLemmas, FiniteSetTheorems

\* The terminal's lists are lists.
LEMMA ConsoleLists ==
  ASSUME NEW line, NEW T
  PROVE  Console!Without(line, T) = Without(line, T)
<1>1. Console!Members(line) = Members(line)
  BY DEF Console!Members, Members
<1>2. \A S : Console!Kept(line, S) = Kept(line, S)
  BY DEF Console!Kept, Kept
<1> QED BY <1>1, <1>2 DEF Console!Without, Without

-----------------------------------------------------------------------------
(* Numbers in a row.                                                       *)

LEMMA Counted ==
  ASSUME NEW a \in Nat, NEW b \in Nat, a <= b
  PROVE  /\ Console!Counting(a + 1, b) \in Seq(Nat)
         /\ Len(Console!Counting(a + 1, b)) = b - a
         /\ \A i \in 1 .. b - a : Console!Counting(a + 1, b)[i] = a + i
         /\ a = b => Console!Counting(a + 1, b) = <<>>
<1> DEFINE r == [i \in 1 .. b - a |-> a + i]
<1>1. Console!Counting(a + 1, b) = r
  <2>1. b - (a + 1) + 1 = b - a
    OBVIOUS
  <2>2. \A i \in 1 .. b - a : a + 1 + i - 1 = a + i
    OBVIOUS
  <2> QED BY <2>1, <2>2 DEF Console!Counting
<1>2. b - a \in Nat
  OBVIOUS
<1>3. r \in Seq(Nat) /\ Len(r) = b - a /\ \A i \in 1 .. b - a : r[i] = a + i
  BY <1>2
<1> HIDE DEF r
<1>4. a = b => r = <<>>
  <2>1. a = b => Len(r) = 0
    BY <1>3
  <2> QED BY <1>3, <2>1, LenProperties, EmptySeq
<1> QED BY <1>1, <1>3, <1>4

LEMMA CountOn ==
  ASSUME NEW a \in Nat, NEW b \in Nat, a <= b, NEW n \in Nat
  PROVE  Console!Counting(a + 1, b) \o [i \in 1 .. n |-> b + i] = Console!Counting(a + 1, b + n)
<1> DEFINE p == Console!Counting(a + 1, b)
           t == [i \in 1 .. n |-> b + i]
           r == Console!Counting(a + 1, b + n)
<1>1. p \in Seq(Nat) /\ Len(p) = b - a /\ \A i \in 1 .. b - a : p[i] = a + i
  BY Counted
<1>2. r \in Seq(Nat) /\ Len(r) = b + n - a /\ \A i \in 1 .. b + n - a : r[i] = a + i
  BY Counted
<1>3. t \in Seq(Nat) /\ Len(t) = n /\ \A i \in 1 .. n : t[i] = b + i
  OBVIOUS
<1> HIDE DEF p, t, r
<1>4. /\ p \o t \in Seq(Nat) /\ Len(p \o t) = Len(p) + Len(t)
      /\ \A i \in 1 .. Len(p) + Len(t) : (p \o t)[i] = IF i <= Len(p) THEN p[i] ELSE t[i - Len(p)]
  BY <1>1, <1>3, ConcatProperties
<1> DEFINE w == p \o t
<1>5. w \in Seq(Nat) /\ Len(w) = Len(r)
  BY <1>1, <1>2, <1>3, <1>4
<1>6. \A i \in 1 .. Len(p) + Len(t) : w[i] = IF i <= Len(p) THEN p[i] ELSE t[i - Len(p)]
  BY <1>4
<1> HIDE DEF w
<1>7. \A i \in 1 .. Len(w) : w[i] = r[i]
  <2> TAKE i \in 1 .. Len(w)
  <2>1. i \in 1 .. Len(p) + Len(t) /\ i \in 1 .. b + n - a /\ i \in Int
    BY <1>1, <1>2, <1>3, <1>5
  <2>2. CASE i <= Len(p)
    <3>1. i \in 1 .. b - a
      BY <1>1, <2>1, <2>2
    <3> QED BY <1>1, <1>2, <1>6, <2>1, <2>2, <3>1
  <2>3. CASE ~(i <= Len(p))
    <3>1. i - Len(p) \in 1 .. n /\ b + (i - Len(p)) = a + i
      BY <1>1, <1>3, <2>1, <2>3
    <3>2. w[i] = t[i - Len(p)]
      BY <1>6, <2>1, <2>3
    <3> QED BY <1>2, <1>3, <2>1, <3>1, <3>2
  <2> QED BY <2>2, <2>3
<1>8. w = r
  BY <1>2, <1>5, <1>7, SeqEqual
<1> QED BY <1>8 DEF w, p, t, r

LEMMA CountDown ==
  ASSUME NEW a \in Nat, NEW b \in Nat, NEW s \in Seq(Nat), s # <<>>, a <= b,
         s = Console!Counting(a + 1, b)
  PROVE  Head(s) = a + 1 /\ a + 1 <= b /\ Tail(s) = Console!Counting(a + 2, b)
<1> DEFINE r == Console!Counting(a + 2, b)
<1>1. Len(s) = b - a /\ \A i \in 1 .. b - a : s[i] = a + i
  BY Counted
<1>2. Head(s) = s[1] /\ Len(s) \in Nat \ {0}
  BY HeadFirst
<1>3. a + 1 <= b /\ 1 \in 1 .. b - a
  BY <1>1, <1>2
<1>4. r \in Seq(Nat) /\ Len(r) = b - (a + 1) /\ \A i \in 1 .. b - (a + 1) : r[i] = a + 1 + i
  <2>1. Console!Counting((a + 1) + 1, b) = Console!Counting(a + 2, b)
    <3>1. (a + 1) + 1 = a + 2
      OBVIOUS
    <3> QED BY <3>1
  <2>2. a + 1 \in Nat
    OBVIOUS
  <2> QED BY <1>3, <2>1, <2>2, Counted
<1> DEFINE t == Tail(s)
<1>5. t \in Seq(Nat) /\ Len(t) = Len(s) - 1 /\ \A i \in 1 .. Len(t) : t[i] = s[i + 1]
  BY HeadTailProperties
<1> HIDE DEF r, t
<1>6. Len(t) = Len(r)
  BY <1>1, <1>4, <1>5
<1>7. \A i \in 1 .. Len(t) : t[i] = r[i]
  <2> TAKE i \in 1 .. Len(t)
  <2>1. i + 1 \in 1 .. b - a /\ i \in 1 .. b - (a + 1) /\ a + (i + 1) = a + 1 + i
    BY <1>1, <1>5
  <2> QED BY <1>1, <1>4, <1>5, <2>1
<1>8. t = r
  BY <1>4, <1>5, <1>6, <1>7, SeqEqual
<1> QED BY <1>1, <1>2, <1>3, <1>8 DEF r, t

-----------------------------------------------------------------------------
Line == got \o rx \o rxHand \o fifo

LineKept ==
  /\ refused \subseteq 1 .. typed
  /\ Increasing(Line)
  /\ \A x : x \in Members(Line) <=> x \in 1 .. typed /\ x \notin refused

OutputKept ==
  /\ sent <= accepted
  /\ Console!AcceptedInOrder
  /\ parked => txq = <<>> /\ txHand = <<>>

ConsoleInv == Console!TypeOK /\ Console!NobodyWaitsInVain /\ LineKept /\ OutputKept

LEMMA ConsoleLine ==
  ASSUME Console!TerminalAssumption, Console!TypeOK
  PROVE  /\ got \in Seq(Nat) /\ rx \in Seq(Nat) /\ rxHand \in Seq(Nat) /\ fifo \in Seq(Nat)
         /\ Line \in Seq(Nat)
         /\ txq \in Seq(Nat) /\ txHand \in Seq(Nat)
         /\ typed \in Nat /\ accepted \in Nat /\ sent \in Nat
         /\ refused \subseteq Nat
         /\ rxHand # <<>> => rxHand = <<Head(rxHand)>> /\ Head(rxHand) \in Nat /\ Head(rxHand) \in Console!Bytes
         /\ txHand # <<>> => txHand = <<Head(txHand)>> /\ Head(txHand) \in Nat /\ Head(txHand) \in Console!Bytes
<1>0. MaxBytes \in Nat /\ Console!Bytes \subseteq Nat
  BY DEF Console!TerminalAssumption, Console!Bytes
<1>1. ASSUME NEW s \in Seq(Console!Bytes) PROVE s \in Seq(Nat)
  <2>1. Len(s) \in Nat /\ s \in [1 .. Len(s) -> Console!Bytes]
    BY LenProperties
  <2>2. s \in [1 .. Len(s) -> Nat]
    BY <1>0, <2>1
  <2> QED BY <2>1, <2>2, SeqDef
<1>2. /\ got \in Seq(Console!Bytes) /\ rx \in Seq(Console!Bytes) /\ fifo \in Seq(Console!Bytes)
      /\ rxHand \in Seq(Console!Bytes) /\ txq \in Seq(Console!Bytes) /\ txHand \in Seq(Console!Bytes)
      /\ Len(rxHand) <= 1 /\ Len(txHand) <= 1 /\ refused \subseteq Console!Bytes
      /\ typed \in 0 .. MaxBytes /\ accepted \in 0 .. MaxBytes /\ sent \in 0 .. MaxBytes
  BY DEF Console!TypeOK
<1>3. /\ got \in Seq(Nat) /\ rx \in Seq(Nat) /\ rxHand \in Seq(Nat) /\ fifo \in Seq(Nat)
      /\ txq \in Seq(Nat) /\ txHand \in Seq(Nat)
  BY <1>1, <1>2
<1>4. Line \in Seq(Nat)
  <2>1. got \o rx \in Seq(Nat)
    BY <1>3, ConcatProperties
  <2>2. got \o rx \o rxHand \in Seq(Nat)
    BY <1>3, <2>1, ConcatProperties
  <2>3. got \o rx \o rxHand \o fifo \in Seq(Nat)
    BY <1>3, <2>2, ConcatProperties
  <2> QED BY <2>3 DEF Line
<1>5. ASSUME NEW s \in Seq(Console!Bytes), Len(s) <= 1, s # <<>>
      PROVE  s = <<Head(s)>> /\ Head(s) \in Console!Bytes
  <2>1. Head(s) = s[1] /\ Head(s) \in Console!Bytes /\ Len(s) \in Nat \ {0}
    BY <1>5, HeadFirst
  <2>2. Len(s) = 1
    BY <1>5, <2>1
  <2> DEFINE r == <<Head(s)>>
  <2>3. r \in Seq(Console!Bytes) /\ Len(r) = 1 /\ r[1] = s[1]
    BY <2>1
  <2> HIDE DEF r
  <2>4. \A i \in 1 .. Len(s) : s[i] = r[i]
    BY <2>2, <2>3
  <2>5. s = r
    BY <2>2, <2>3, <2>4, SeqEqual
  <2> QED BY <2>1, <2>5 DEF r
<1> QED BY <1>0, <1>2, <1>3, <1>4, <1>5

LEMMA ConsoleInit == Console!TerminalAssumption /\ Console!Init => ConsoleInv
<1> SUFFICES ASSUME Console!TerminalAssumption, Console!Init PROVE ConsoleInv
  OBVIOUS
<1>1. Console!TypeOK
  <2>1. \A S : <<>> \in Seq(S) /\ Len(<<>>) = 0
    OBVIOUS
  <2>2. /\ RxSize \in Nat /\ TxSize \in Nat /\ GetcSize \in Nat /\ FifoSize \in Nat /\ MaxBytes \in Nat
        /\ 0 \in 0 .. MaxBytes /\ 0 <= RxSize /\ 0 <= TxSize /\ 0 <= GetcSize /\ 0 <= FifoSize /\ 0 <= 1
    BY DEF Console!TerminalAssumption
  <2> QED BY <2>1, <2>2 DEF Console!TypeOK, Console!Init
<1>2. Console!NobodyWaitsInVain
  BY DEF Console!NobodyWaitsInVain, Console!Init
<1>3. Line = <<>>
  BY DEF Line, Console!Init
<1>4. LineKept
  <2>1. refused = {} /\ typed = 0
    BY DEF Console!Init
  <2>2. Members(Line) = {}
    BY <1>3 DEF Members
  <2>3. Increasing(Line)
    BY <1>3 DEF Increasing
  <2> QED BY <2>1, <2>2, <2>3 DEF LineKept
<1>5. OutputKept
  <2>1. sent = 0 /\ accepted = 0 /\ txHand = <<>> /\ txq = <<>> /\ parked = FALSE
    BY DEF Console!Init
  <2>2. Console!Counting(0 + 1, 0) = <<>>
    BY Counted
  <2>3. <<>> \o <<>> = <<>>
    OBVIOUS
  <2> QED BY <2>1, <2>2, <2>3 DEF OutputKept, Console!AcceptedInOrder
<1> QED BY <1>1, <1>2, <1>4, <1>5 DEF ConsoleInv

LEMMA InputStays ==
  ASSUME Console!NobodyWaitsInVain, LineKept, UNCHANGED Console!rxVars
  PROVE  (Console!NobodyWaitsInVain /\ LineKept)'
<1>1. UNCHANGED <<typed, fifo, rxHand, rx, getters, got, refused>>
  BY DEF Console!rxVars
<1>2. Line' = Line
  BY <1>1 DEF Line
<1> QED BY <1>1, <1>2 DEF LineKept, Console!NobodyWaitsInVain

LEMMA OutputStays ==
  ASSUME OutputKept, UNCHANGED Console!txVars
  PROVE  OutputKept'
<1>1. UNCHANGED <<accepted, txq, txHand, parked, sent>>
  BY DEF Console!txVars
<1> QED BY <1>1 DEF OutputKept, Console!AcceptedInOrder

\* A byte is typed: it comes behind all the others.
LEMMA TypeKeeps ==
  ASSUME Console!TerminalAssumption, ConsoleInv, Console!Type
  PROVE  Console!TypeOK' /\ Console!NobodyWaitsInVain' /\ LineKept'
<1>0. /\ got \in Seq(Nat) /\ rx \in Seq(Nat) /\ rxHand \in Seq(Nat) /\ fifo \in Seq(Nat) /\ Line \in Seq(Nat)
      /\ typed \in Nat /\ typed + 1 \in Nat /\ Console!TypeOK /\ LineKept
  BY ConsoleLine DEF ConsoleInv
<1>1. /\ typed < MaxBytes /\ Len(fifo) < FifoSize
      /\ typed' = typed + 1 /\ fifo' = Append(fifo, typed + 1)
      /\ UNCHANGED <<rxThere, txThere, rxHand, rx, getters, got, refused, accepted, txq, txHand, parked, sent>>
  BY DEF Console!Type, Console!txVars
<1>2. Line' = Append(Line, typed + 1)
  <2>1. ArrivesBehind(got, rx, rxHand, fifo, typed + 1)
    BY <1>0, Arrived
  <2> QED BY <1>1, <2>1 DEF Line, ArrivesBehind
<1>3. \A x \in Members(Line) : x < typed + 1
  BY <1>0 DEF LineKept
<1>4. /\ Increasing(Line')
      /\ \A x : x \in Members(Line') <=> x \in Members(Line) \/ x = typed + 1
  BY <1>0, <1>2, <1>3, AppendIncreasing DEF LineKept
<1>5. LineKept'
  <2>1. refused' \subseteq 1 .. typed' /\ typed + 1 \notin refused'
    BY <1>0, <1>1 DEF LineKept
  <2>2. ASSUME NEW x PROVE x \in Members(Line') <=> x \in 1 .. typed' /\ x \notin refused'
    <3>1. x \in 1 .. typed + 1 <=> x \in 1 .. typed \/ x = typed + 1
      BY <1>0
    <3> QED BY <1>0, <1>1, <1>4, <2>1, <3>1 DEF LineKept
  <2> QED BY <1>4, <2>1, <2>2 DEF LineKept, Increasing
<1>6. Console!TypeOK'
  <2>1. typed + 1 \in Console!Bytes /\ typed' \in 0 .. MaxBytes
    BY <1>0, <1>1 DEF Console!Bytes, Console!TerminalAssumption
  <2>2. fifo' \in Seq(Console!Bytes) /\ Len(fifo') <= FifoSize
    <3>1. fifo \in Seq(Console!Bytes) /\ Len(fifo) \in Nat
      BY <1>0, LenProperties DEF Console!TypeOK
    <3>2. fifo' \in Seq(Console!Bytes) /\ Len(fifo') = Len(fifo) + 1
      BY <1>1, <2>1, <3>1, AppendProperties
    <3> QED BY <1>1, <3>1, <3>2 DEF Console!TerminalAssumption
  <2> QED BY <1>0, <1>1, <2>1, <2>2 DEF Console!TypeOK
<1>7. Console!NobodyWaitsInVain'
  BY <1>1 DEF ConsoleInv, Console!NobodyWaitsInVain
<1> QED BY <1>5, <1>6, <1>7

\* What does not change the line, and what is typed and refused.
LEMMA LineStays ==
  ASSUME LineKept, Line' = Line, typed' = typed, refused' = refused
  PROVE  LineKept'
BY DEF LineKept, Increasing

\* The notifier takes a byte from the UART.
LEMMA ReadByteKeeps ==
  ASSUME Console!TerminalAssumption, ConsoleInv, Console!ReadByte
  PROVE  Console!TypeOK' /\ Console!NobodyWaitsInVain' /\ LineKept'
<1>0. /\ got \in Seq(Nat) /\ rx \in Seq(Nat) /\ rxHand \in Seq(Nat) /\ fifo \in Seq(Nat)
      /\ Console!TypeOK /\ LineKept /\ Console!NobodyWaitsInVain
  BY ConsoleLine DEF ConsoleInv
<1>1. /\ rxHand = <<>> /\ fifo # <<>> /\ rxHand' = <<Head(fifo)>> /\ fifo' = Tail(fifo)
      /\ UNCHANGED <<rxThere, txThere, typed, rx, getters, got, refused, accepted, txq, txHand, parked, sent>>
  BY DEF Console!ReadByte, Console!txVars
<1>2. Line' = Line
  <2>1. ReadFrom(got, rx, fifo)
    BY <1>0, IsRead
  <2> QED BY <1>1, <2>1 DEF Line, ReadFrom
<1>3. LineKept'
  BY <1>0, <1>1, <1>2, LineStays
<1>4. Console!TypeOK'
  <2>1. /\ fifo \in Seq(Console!Bytes) /\ Len(fifo) <= FifoSize /\ FifoSize \in Nat
    BY <1>0 DEF Console!TypeOK, Console!TerminalAssumption
  <2>2. /\ Head(fifo) \in Console!Bytes /\ Tail(fifo) \in Seq(Console!Bytes)
        /\ Len(Tail(fifo)) = Len(fifo) - 1 /\ Len(fifo) \in Nat
    BY <1>1, <2>1, HeadTailProperties, LenProperties
  <2>3. Len(fifo') <= FifoSize
    BY <1>1, <2>1, <2>2
  <2>4. rxHand' \in Seq(Console!Bytes) /\ Len(rxHand') <= 1
    BY <1>1, <2>2
  <2> QED BY <1>0, <1>1, <2>2, <2>3, <2>4 DEF Console!TypeOK
<1>5. Console!NobodyWaitsInVain'
  BY <1>0, <1>1 DEF Console!NobodyWaitsInVain
<1> QED BY <1>3, <1>4, <1>5

\* A byte leaves the buffer for a client.
LEMMA PopByteKeeps ==
  ASSUME Console!TerminalAssumption, ConsoleInv, Console!PopByte
  PROVE  Console!TypeOK' /\ Console!NobodyWaitsInVain' /\ LineKept'
<1>0. /\ got \in Seq(Nat) /\ rx \in Seq(Nat) /\ rxHand \in Seq(Nat) /\ fifo \in Seq(Nat)
      /\ Console!TypeOK /\ LineKept /\ Console!NobodyWaitsInVain
  BY ConsoleLine DEF ConsoleInv
<1>1. /\ rx # <<>> /\ got' = Append(got, Head(rx)) /\ rx' = Tail(rx)
      /\ UNCHANGED <<rxThere, txThere, typed, fifo, rxHand, getters, refused, accepted, txq, txHand, parked, sent>>
  BY DEF Console!PopByte, Console!txVars
<1>2. Line' = Line
  <2>1. TakenFrom(got, rx, rxHand, fifo)
    BY <1>0, IsTaken
  <2> QED BY <1>1, <2>1 DEF Line, TakenFrom
<1>3. LineKept'
  BY <1>0, <1>1, <1>2, LineStays
<1>4. Console!TypeOK'
  <2>1. /\ rx \in Seq(Console!Bytes) /\ Len(rx) <= RxSize /\ RxSize \in Nat /\ got \in Seq(Console!Bytes)
    BY <1>0 DEF Console!TypeOK, Console!TerminalAssumption
  <2>2. /\ Head(rx) \in Console!Bytes /\ Tail(rx) \in Seq(Console!Bytes)
        /\ Len(Tail(rx)) = Len(rx) - 1 /\ Len(rx) \in Nat
    BY <1>1, <2>1, HeadTailProperties, LenProperties
  <2>3. Len(rx') <= RxSize
    BY <1>1, <2>1, <2>2
  <2>4. got' \in Seq(Console!Bytes)
    BY <1>1, <2>1, <2>2, AppendProperties
  <2> QED BY <1>0, <1>1, <2>2, <2>3, <2>4 DEF Console!TypeOK
<1>5. Console!NobodyWaitsInVain'
  BY <1>0, <1>1 DEF Console!NobodyWaitsInVain
<1> QED BY <1>3, <1>4, <1>5

\* The server gets the byte the notifier holds: a client that waits has it,
\* or it is buffered, or it is refused.
LEMMA RxReadyKeeps ==
  ASSUME Console!TerminalAssumption, ConsoleInv, Console!RxReady
  PROVE  Console!TypeOK' /\ Console!NobodyWaitsInVain' /\ LineKept'
<1> DEFINE e == Head(rxHand)
<1>0. /\ got \in Seq(Nat) /\ rx \in Seq(Nat) /\ rxHand \in Seq(Nat) /\ fifo \in Seq(Nat)
      /\ Console!TypeOK /\ LineKept /\ Console!NobodyWaitsInVain /\ typed \in Nat
  BY ConsoleLine DEF ConsoleInv
<1>1. /\ rxHand # <<>> /\ rxHand' = <<>>
      /\ UNCHANGED <<rxThere, txThere, typed, fifo, accepted, txq, txHand, parked, sent>>
  BY DEF Console!RxReady, Console!txVars
<1>2. rxHand = <<e>> /\ e \in Nat /\ e \in Console!Bytes
  BY <1>1, ConsoleLine DEF ConsoleInv
<1>3. /\ rxHand' \in Seq(Console!Bytes) /\ Len(rxHand') <= 1
  BY <1>1
<1> HIDE DEF e
<1>4. CASE getters # <<>> /\ got' = Append(got, e) /\ getters' = Tail(getters) /\ UNCHANGED <<rx, refused>>
  <2>1. rx = <<>>
    BY <1>0, <1>4 DEF Console!NobodyWaitsInVain
  <2>2. HandedOn(got, fifo, e)
    BY <1>0, <1>2, IsHanded
  <2>3. Line' = Line
    BY <1>1, <1>2, <1>4, <2>1, <2>2 DEF Line, HandedOn
  <2>4. LineKept'
    BY <1>0, <1>1, <1>4, <2>3, LineStays
  <2>5. /\ getters \in Seq(Tasks) /\ Len(getters) <= GetcSize /\ GetcSize \in Nat /\ got \in Seq(Console!Bytes)
    BY <1>0 DEF Console!TypeOK, Console!TerminalAssumption
  <2>6. /\ Tail(getters) \in Seq(Tasks) /\ Len(Tail(getters)) = Len(getters) - 1 /\ Len(getters) \in Nat
    BY <1>4, <2>5, HeadTailProperties, LenProperties
  <2>7. Len(getters') <= GetcSize
    BY <1>4, <2>5, <2>6
  <2>8. got' \in Seq(Console!Bytes)
    BY <1>2, <1>4, <2>5, AppendProperties
  <2>9. Console!TypeOK'
    BY <1>0, <1>1, <1>3, <1>4, <2>6, <2>7, <2>8 DEF Console!TypeOK
  <2>10. Console!NobodyWaitsInVain'
    BY <1>4, <2>1 DEF Console!NobodyWaitsInVain
  <2> QED BY <2>4, <2>9, <2>10
<1>5. CASE getters = <<>> /\ Len(rx) < RxSize /\ rx' = Append(rx, e) /\ UNCHANGED <<getters, got, refused>>
  <2>2. BufferedBehind(got, rx, fifo, e)
    BY <1>0, <1>2, IsBuffered
  <2>3. Line' = Line
    BY <1>1, <1>2, <1>5, <2>2 DEF Line, BufferedBehind
  <2>4. LineKept'
    BY <1>0, <1>1, <1>5, <2>3, LineStays
  <2>5. /\ rx \in Seq(Console!Bytes) /\ RxSize \in Nat /\ Len(rx) \in Nat
    BY <1>0, LenProperties DEF Console!TypeOK, Console!TerminalAssumption
  <2>6. rx' \in Seq(Console!Bytes) /\ Len(rx') = Len(rx) + 1
    BY <1>2, <1>5, <2>5, AppendProperties
  <2>7. Len(rx') <= RxSize
    BY <1>5, <2>5, <2>6
  <2>9. Console!TypeOK'
    BY <1>0, <1>1, <1>3, <1>5, <2>6, <2>7 DEF Console!TypeOK
  <2>10. Console!NobodyWaitsInVain'
    BY <1>5 DEF Console!NobodyWaitsInVain
  <2> QED BY <2>4, <2>9, <2>10
<1>6. CASE refused' = refused \cup {e} /\ UNCHANGED <<rx, getters, got>>
  <2> DEFINE p == got \o rx
  <2>1. p \in Seq(Nat)
    BY <1>0, ConcatProperties
  <2>2. Line = p \o <<e>> \o fifo
    BY <1>2 DEF Line
  <2>3. Line' = p \o fifo
    <3>1. Line' = p \o <<>> \o fifo
      BY <1>1, <1>6 DEF Line
    <3>2. p \o <<>> = p
      BY <2>1, ConcatEmptySeq
    <3> QED BY <3>1, <3>2
  <2> HIDE DEF p
  <2>4. Increasing(p \o <<e>> \o fifo)
    BY <1>0, <2>2 DEF LineKept
  <2>5. /\ Increasing(p \o fifo)
        /\ \A x : x \in Members(p \o fifo) <=> x \in Members(p \o <<e>> \o fifo) /\ x # e
    BY <1>0, <1>2, <2>1, <2>4, CutOut
  <2>6. e \in Members(Line)
    <3> DEFINE f == p \o <<e>>
    <3>1. f = Append(p, e) /\ f \in Seq(Nat)
      BY <1>2, <2>1, AppendIsConcat, AppendProperties
    <3>2. f # <<>> /\ Len(f) = Len(p) + 1 /\ f[Len(p) + 1] = e /\ Len(p) \in Nat
      BY <1>2, <2>1, <3>1, AppendProperties, LenProperties
    <3>3. e \in Members(f)
      <4>1. Len(p) + 1 \in 1 .. Len(f)
        BY <3>2
      <4> QED BY <3>1, <3>2, <4>1, MembersPos
    <3> HIDE DEF f
    <3>4. \A x : x \in Members(f \o fifo) <=> x \in Members(f) \/ x \in Members(fifo)
      BY <1>0, <3>1, JoinedLine
    <3>5. e \in Members(f \o fifo)
      BY <3>3, <3>4
    <3> QED BY <2>2, <3>5 DEF f
  <2>7. LineKept'
    <3>1. e \in 1 .. typed
      BY <1>0, <2>6 DEF LineKept
    <3>2. refused' \subseteq 1 .. typed'
      BY <1>0, <1>1, <1>6, <3>1 DEF LineKept
    <3>3. \A x : x \in Members(Line') <=> x \in Members(Line) /\ x # e
      BY <2>2, <2>3, <2>5
    <3>4. \A x : x \in Members(Line') <=> x \in 1 .. typed' /\ x \notin refused'
      BY <1>0, <1>1, <1>6, <3>3 DEF LineKept
    <3>5. Increasing(Line')
      BY <2>3, <2>5
    <3> QED BY <3>2, <3>4, <3>5 DEF LineKept, Increasing
  <2>8. Console!TypeOK'
    BY <1>0, <1>1, <1>2, <1>3, <1>6 DEF Console!TypeOK
  <2>9. Console!NobodyWaitsInVain'
    BY <1>0, <1>6 DEF Console!NobodyWaitsInVain
  <2> QED BY <2>7, <2>8, <2>9
<1> QED BY <1>4, <1>5, <1>6 DEF Console!RxReady, Console!ServesGetter, Console!Push, e

\* A client has to wait.
LEMMA GetcKeeps ==
  ASSUME Console!TerminalAssumption, ConsoleInv, NEW c \in Tasks, Console!Getc(c)
  PROVE  Console!TypeOK' /\ Console!NobodyWaitsInVain' /\ LineKept' /\ UNCHANGED Console!txVars
<1>1. CASE Console!PopByte
  <2>1. UNCHANGED Console!txVars
    BY <1>1 DEF Console!PopByte
  <2> QED BY <1>1, <2>1, PopByteKeeps
<1>2. CASE ~Console!PopByte
  <2>1. /\ rx = <<>> /\ Len(getters) < GetcSize /\ getters' = Append(getters, c)
        /\ UNCHANGED <<rxThere, txThere, typed, fifo, rxHand, rx, got, refused, accepted, txq, txHand, parked, sent>>
    BY <1>2 DEF Console!Getc, Console!txVars
  <2>2. Console!TypeOK /\ LineKept
    BY DEF ConsoleInv
  <2>3. Line' = Line
    BY <2>1 DEF Line
  <2>4. LineKept'
    BY <2>1, <2>2, <2>3, LineStays
  <2>5. getters \in Seq(Tasks) /\ GetcSize \in Nat /\ Len(getters) \in Nat
    BY <2>2, LenProperties DEF Console!TypeOK, Console!TerminalAssumption
  <2>6. getters' \in Seq(Tasks) /\ Len(getters') = Len(getters) + 1
    BY <2>1, <2>5, AppendProperties
  <2>7. Len(getters') <= GetcSize
    BY <2>1, <2>5, <2>6
  <2>8. Console!TypeOK'
    BY <2>1, <2>2, <2>6, <2>7 DEF Console!TypeOK
  <2>9. Console!NobodyWaitsInVain'
    BY <2>1 DEF Console!NobodyWaitsInVain
  <2>10. UNCHANGED Console!txVars
    BY <2>1 DEF Console!txVars
  <2> QED BY <2>4, <2>8, <2>9, <2>10
<1> QED BY <1>1, <1>2

-----------------------------------------------------------------------------
\* Bytes are accepted: the first of them for the notifier that waits, or all
\* of them behind the others.
LEMMA PushAllKeeps ==
  ASSUME Console!TerminalAssumption, ConsoleInv, NEW c \in Tasks, NEW n \in Nat \ {0}, Console!PushAll(c, n)
  PROVE  Console!TypeOK' /\ OutputKept' /\ UNCHANGED Console!rxVars
<1> DEFINE chunk == [i \in 1 .. n |-> accepted + i]
           list == txq \o chunk
<1>0. /\ txq \in Seq(Nat) /\ txHand \in Seq(Nat) /\ accepted \in Nat /\ sent \in Nat
      /\ Console!TypeOK /\ OutputKept /\ MaxBytes \in Nat /\ TxSize \in Nat
  BY ConsoleLine DEF ConsoleInv, Console!TerminalAssumption
<1>1. /\ Console!Fits(n) /\ accepted + n <= MaxBytes /\ accepted' = accepted + n
      /\ Console!Unpark(list)
      /\ UNCHANGED <<rxThere, txThere, Console!rxVars, sent>>
  BY DEF Console!PushAll
<1>2. UNCHANGED <<typed, fifo, rxHand, rx, getters, got, refused>>
  BY <1>1 DEF Console!rxVars
<1>3. chunk \in Seq(Nat) /\ Len(chunk) = n /\ chunk \in Seq(Console!Bytes) /\ chunk # <<>>
  <2>1. \A i \in 1 .. n : accepted + i \in Console!Bytes
    BY <1>0, <1>1 DEF Console!Bytes
  <2>2. chunk \in Seq(Nat) /\ Len(chunk) = n
    BY <1>0
  <2>3. chunk \in Seq(Console!Bytes)
    BY <2>1
  <2> QED BY <2>2, <2>3
<1>4. Console!Counting(sent + 1, accepted) \o chunk = Console!Counting(sent + 1, accepted')
  BY <1>0, <1>1, CountOn DEF OutputKept
<1>5. txHand \o txq = Console!Counting(sent + 1, accepted) /\ sent <= accepted
  BY <1>0 DEF OutputKept, Console!AcceptedInOrder
<1> HIDE DEF chunk
<1>6. list \in Seq(Console!Bytes) /\ list \in Seq(Nat) /\ Len(list) <= TxSize
  <2>1. txq \in Seq(Console!Bytes) /\ Len(txq) \in Nat
    BY <1>0, LenProperties DEF Console!TypeOK
  <2>2. list \in Seq(Console!Bytes) /\ Len(list) = Len(txq) + n
    BY <1>3, <2>1, ConcatProperties
  <2>3. list \in Seq(Nat)
    BY <1>0, <1>3, ConcatProperties
  <2> HIDE DEF list
  <2> QED BY <1>0, <1>1, <2>1, <2>2, <2>3 DEF Console!Fits
<1>7. txHand \o list = Console!Counting(sent + 1, accepted')
  <2>1. (txHand \o txq) \o chunk = txHand \o (txq \o chunk)
    <3>1. Associates(txHand, txq, chunk)
      BY <1>0, <1>3, Associative
    <3> QED BY <3>1 DEF Associates
  <2> QED BY <1>4, <1>5, <2>1
<1>8. accepted' \in 0 .. MaxBytes /\ sent <= accepted' /\ accepted' \in Nat
  BY <1>0, <1>1, <1>5
<1>9. CASE parked
  <2>1. txq = <<>> /\ txHand = <<>>
    BY <1>0, <1>9 DEF OutputKept
  <2>2. list = chunk
    BY <1>3, <2>1, ConcatEmptySeq
  <2>3. /\ txq' = Tail(list) /\ txHand' = <<Head(list)>> /\ parked' = FALSE
    BY <1>1, <1>9 DEF Console!Unpark
  <2>4. txHand \o list = list
    BY <1>6, <2>1, ConcatEmptySeq
  <2>5. <<Head(list)>> \o Tail(list) = list
    BY <1>3, <1>6, <2>2, HeadFirst
  <2>6. Head(list) \in Console!Bytes /\ Tail(list) \in Seq(Console!Bytes) /\ Len(Tail(list)) = Len(list) - 1 /\ Len(list) \in Nat
    BY <1>3, <1>6, <2>2, HeadTailProperties, LenProperties
  <2> HIDE DEF list
  <2>7. txHand' \o txq' = Console!Counting(sent' + 1, accepted')
    BY <1>1, <1>7, <2>3, <2>4, <2>5
  <2>8. OutputKept'
    BY <1>1, <1>8, <2>3, <2>7 DEF OutputKept, Console!AcceptedInOrder
  <2>9. txHand' \in Seq(Console!Bytes) /\ Len(txHand') <= 1 /\ txq' \in Seq(Console!Bytes) /\ Len(txq') <= TxSize
    BY <1>0, <1>6, <2>3, <2>6
  <2>10. Console!TypeOK'
    BY <1>0, <1>1, <1>2, <1>8, <2>3, <2>9 DEF Console!TypeOK
  <2> QED BY <1>1, <2>8, <2>10
<1>10. CASE ~parked
  <2>1. txq' = list /\ txHand' = txHand /\ parked' = parked
    BY <1>1, <1>10 DEF Console!Unpark
  <2> HIDE DEF list
  <2>2. txHand' \o txq' = Console!Counting(sent' + 1, accepted')
    BY <1>1, <1>7, <2>1
  <2>3. OutputKept'
    BY <1>1, <1>8, <1>10, <2>1, <2>2 DEF OutputKept, Console!AcceptedInOrder
  <2>4. Console!TypeOK'
    BY <1>0, <1>1, <1>2, <1>6, <1>8, <2>1 DEF Console!TypeOK
  <2> QED BY <1>1, <2>3, <2>4
<1> QED BY <1>9, <1>10

\* The notifier comes for a byte.
LEMMA TxReadyKeeps ==
  ASSUME Console!TerminalAssumption, ConsoleInv, Console!TxReady
  PROVE  Console!TypeOK' /\ OutputKept' /\ UNCHANGED Console!rxVars
<1>0. /\ txq \in Seq(Nat) /\ txHand \in Seq(Nat) /\ accepted \in Nat /\ sent \in Nat
      /\ Console!TypeOK /\ OutputKept
  BY ConsoleLine DEF ConsoleInv
<1>1. /\ txHand = <<>> /\ ~parked
      /\ UNCHANGED <<rxThere, txThere, Console!rxVars, accepted, sent>>
  BY DEF Console!TxReady
<1>2. UNCHANGED <<typed, fifo, rxHand, rx, getters, got, refused>>
  BY <1>1 DEF Console!rxVars
<1>3. CASE txq # <<>>
  <2>1. txHand' = <<Head(txq)>> /\ txq' = Tail(txq) /\ parked' = parked
    BY <1>3 DEF Console!TxReady
  <2>2. <<Head(txq)>> \o Tail(txq) = txq
    BY <1>0, <1>3, HeadFirst
  <2>3. <<>> \o txq = txq
    BY <1>0, ConcatEmptySeq
  <2>4. txHand' \o txq' = txHand \o txq
    BY <1>1, <2>1, <2>2, <2>3
  <2>5. OutputKept'
    BY <1>0, <1>1, <2>1, <2>4 DEF OutputKept, Console!AcceptedInOrder
  <2>6. txq \in Seq(Console!Bytes) /\ Len(txq) <= TxSize /\ TxSize \in Nat
    BY <1>0 DEF Console!TypeOK, Console!TerminalAssumption
  <2>7. Head(txq) \in Console!Bytes /\ Tail(txq) \in Seq(Console!Bytes) /\ Len(Tail(txq)) = Len(txq) - 1 /\ Len(txq) \in Nat
    BY <1>3, <2>6, HeadTailProperties, LenProperties
  <2>8. txHand' \in Seq(Console!Bytes) /\ Len(txHand') <= 1 /\ txq' \in Seq(Console!Bytes) /\ Len(txq') <= TxSize
    BY <2>1, <2>6, <2>7
  <2>9. Console!TypeOK'
    BY <1>0, <1>1, <1>2, <2>1, <2>8 DEF Console!TypeOK
  <2> QED BY <1>1, <2>5, <2>9
<1>4. CASE txq = <<>>
  <2>1. txHand' = txHand /\ txq' = txq /\ parked' = TRUE
    BY <1>4 DEF Console!TxReady
  <2>2. OutputKept'
    BY <1>0, <1>1, <1>4, <2>1 DEF OutputKept, Console!AcceptedInOrder
  <2>3. Console!TypeOK'
    BY <1>0, <1>1, <1>2, <2>1 DEF Console!TypeOK
  <2> QED BY <1>1, <2>2, <2>3
<1> QED BY <1>3, <1>4

\* A byte is written out.
LEMMA SendByteKeeps ==
  ASSUME Console!TerminalAssumption, ConsoleInv, Console!SendByte
  PROVE  Console!TypeOK' /\ OutputKept' /\ UNCHANGED Console!rxVars
<1>0. /\ txq \in Seq(Nat) /\ txHand \in Seq(Nat) /\ accepted \in Nat /\ sent \in Nat
      /\ Console!TypeOK /\ OutputKept
  BY ConsoleLine DEF ConsoleInv
<1>1. /\ txHand # <<>> /\ sent' = Head(txHand) /\ txHand' = <<>>
      /\ UNCHANGED <<rxThere, txThere, Console!rxVars, accepted, txq, parked>>
  BY DEF Console!SendByte
<1>2. UNCHANGED <<typed, fifo, rxHand, rx, getters, got, refused>>
  BY <1>1 DEF Console!rxVars
<1>3. txHand = <<Head(txHand)>> /\ Head(txHand) \in Console!Bytes
  BY <1>1, ConsoleLine DEF ConsoleInv
<1> DEFINE list == txHand \o txq
<1>4. list = Console!Counting(sent + 1, accepted) /\ sent <= accepted
  BY <1>0 DEF OutputKept, Console!AcceptedInOrder
<1>5. list # <<>> /\ Head(list) = Head(txHand) /\ Tail(list) = txq /\ list \in Seq(Nat)
  BY <1>0, <1>1, <1>3, HeadOfFirst
<1> HIDE DEF list
<1>6. Head(list) = sent + 1 /\ sent + 1 <= accepted /\ Tail(list) = Console!Counting(sent + 2, accepted)
  BY <1>0, <1>4, <1>5, CountDown
<1>7. sent' = sent + 1
  BY <1>1, <1>5, <1>6
<1>8. txHand' \o txq' = Console!Counting(sent' + 1, accepted')
  <2>1. txHand' \o txq' = txq
    BY <1>0, <1>1, ConcatEmptySeq
  <2>2. sent' + 1 = sent + 2
    BY <1>0, <1>7
  <2> QED BY <1>1, <1>5, <1>6, <2>1, <2>2
<1>9. OutputKept'
  <2>1. parked' => txq' = <<>> /\ txHand' = <<>>
    BY <1>0, <1>1 DEF OutputKept
  <2>2. sent' <= accepted'
    BY <1>1, <1>6, <1>7
  <2> QED BY <1>8, <2>1, <2>2 DEF OutputKept, Console!AcceptedInOrder
<1>10. Console!TypeOK'
  <2>1. sent' \in 0 .. MaxBytes
    <3>1. accepted \in 0 .. MaxBytes /\ MaxBytes \in Nat
      BY <1>0 DEF Console!TypeOK, Console!TerminalAssumption
    <3> QED BY <1>0, <1>6, <1>7, <3>1
  <2>2. txHand' \in Seq(Console!Bytes) /\ Len(txHand') <= 1
    BY <1>1
  <2> QED BY <1>0, <1>1, <1>2, <2>1, <2>2 DEF Console!TypeOK
<1> QED BY <1>1, <1>9, <1>10

-----------------------------------------------------------------------------
LEMMA ConsoleNext == Console!TerminalAssumption /\ ConsoleInv /\ [Console!Next]_(Console!vars) => ConsoleInv'
<1> SUFFICES ASSUME Console!TerminalAssumption, ConsoleInv, [Console!Next]_(Console!vars) PROVE ConsoleInv'
  OBVIOUS
<1>0. Console!TypeOK /\ Console!NobodyWaitsInVain /\ LineKept /\ OutputKept
  BY DEF ConsoleInv
<1>1. ASSUME Console!TypeOK' /\ Console!NobodyWaitsInVain' /\ LineKept', UNCHANGED Console!txVars
      PROVE  ConsoleInv'
  BY <1>0, <1>1, OutputStays DEF ConsoleInv
<1>2. ASSUME Console!TypeOK' /\ OutputKept', UNCHANGED Console!rxVars
      PROVE  ConsoleInv'
  BY <1>0, <1>2, InputStays DEF ConsoleInv
<1>3. CASE UNCHANGED Console!vars
  <2>1. UNCHANGED <<rxThere, txThere, Console!rxVars, Console!txVars>>
    BY <1>3 DEF Console!vars
  <2>2. Console!TypeOK'
    BY <1>0, <2>1 DEF Console!TypeOK, Console!rxVars, Console!txVars
  <2>3. OutputKept'
    BY <1>0, <2>1, OutputStays
  <2> QED BY <1>2, <2>1, <2>2, <2>3
<1>4. CASE Console!Type
  BY <1>1, <1>4, TypeKeeps DEF Console!Type
<1>5. CASE Console!ReadByte
  BY <1>1, <1>5, ReadByteKeeps DEF Console!ReadByte
<1>6. CASE Console!RxReady
  BY <1>1, <1>6, RxReadyKeeps DEF Console!RxReady
<1>7. CASE Console!TxReady
  BY <1>2, <1>7, TxReadyKeeps
<1>8. CASE Console!SendByte
  BY <1>2, <1>8, SendByteKeeps
<1>9. ASSUME NEW c \in Tasks, Console!Getc(c) \/ Console!TryGetc(c) \/ Console!Putc(c) \/ Console!TryWrite(c)
      PROVE  ConsoleInv'
  <2>1. CASE Console!Getc(c)
    BY <1>1, <2>1, GetcKeeps
  <2>2. CASE Console!TryGetc(c)
    BY <1>1, <2>2, PopByteKeeps DEF Console!TryGetc, Console!PopByte
  <2>3. ASSUME NEW n \in Nat \ {0}, Console!PushAll(c, n) PROVE ConsoleInv'
    BY <1>2, <2>3, PushAllKeeps
  <2>4. CASE Console!Putc(c)
    BY <2>3, <2>4 DEF Console!Putc
  <2>5. CASE Console!TryWrite(c)
    BY <2>3, <2>5 DEF Console!TryWrite, Console!TerminalAssumption
  <2> QED BY <1>9, <2>1, <2>2, <2>4, <2>5
<1> QED BY <1>3, <1>4, <1>5, <1>6, <1>7, <1>8, <1>9 DEF Console!Next

\* The line is what was typed, without what was refused.
LEMMA LineIsWhatWasTyped ==
  ASSUME Console!TerminalAssumption, ConsoleInv
  PROVE  Console!TypedInOrder
<1> DEFINE all == Console!Counting(1, typed)
           rest == Without(all, refused)
           key == [x \in Nat |-> -x]
           R == {p \in Nat \X Nat : p[1] < p[2]}
<1>0. typed \in Nat /\ Line \in Seq(Nat) /\ LineKept /\ Console!TypeOK
  BY ConsoleLine DEF ConsoleInv
<1>1. /\ all \in Seq(Nat) /\ Len(all) = typed /\ \A i \in 1 .. typed : all[i] = i
  <2> DEFINE r == [i \in 1 .. typed |-> i]
  <2>1. all = r
    <3>1. typed - 1 + 1 = typed /\ \A i \in 1 .. typed : 1 + i - 1 = i
      BY <1>0
    <3> QED BY <3>1 DEF Console!Counting
  <2>2. r \in Seq(Nat) /\ Len(r) = typed /\ \A i \in 1 .. typed : r[i] = i
    BY <1>0
  <2> QED BY <2>1, <2>2
<1> HIDE DEF all
<1>2. /\ rest \in Seq(Nat)
      /\ \A x : x \in Members(rest) <=> x \in Members(all) /\ x \notin refused
  BY <1>1, WithoutLine
<1>3. \A x : x \in Members(all) <=> x \in 1 .. typed
  BY <1>1, MembersPos
<1>4. \A i, j \in 1 .. Len(rest) : i < j => <<rest[i], rest[j]>> \in R
  <2>1. \A i, j \in 1 .. Len(all) : i < j => <<all[i], all[j]>> \in R
    BY <1>0, <1>1
  <2> DEFINE kept == Kept(all, Members(all) \ refused)
  <2> HIDE DEF R
  <2>2. \A i, j \in 1 .. Len(kept) : i < j => <<kept[i], kept[j]>> \in R
    BY <1>1, <2>1, KeptOrdered
  <2> QED BY <2>2 DEF Without
<1>5. \A i, j \in 1 .. Len(rest) : i < j => rest[i] < rest[j]
  BY <1>4
<1> HIDE DEF rest, R
<1>6. \A i \in 1 .. Len(rest) : rest[i] \in Nat
  BY <1>2, ElementOfSeq
<1>7. \A i, j \in 1 .. Len(rest) : i < j => key[rest[j]] < key[rest[i]]
  BY <1>5, <1>6
<1>8. \A i \in 1 .. Len(Line) : Line[i] \in Nat
  BY <1>0, ElementOfSeq
<1>9. \A i, j \in 1 .. Len(Line) : i < j => key[Line[j]] < key[Line[i]]
  <2>1. \A i, j \in 1 .. Len(Line) : i < j => Line[i] < Line[j]
    BY <1>0 DEF LineKept, Increasing
  <2> QED BY <1>8, <2>1
<1>10. \A x : x \in Members(Line) <=> x \in Members(rest)
  BY <1>0, <1>2, <1>3 DEF LineKept
<1>11. key \in [Nat -> Int]
  OBVIOUS
<1> HIDE DEF key
<1>12. Line = rest
  BY <1>0, <1>2, <1>7, <1>9, <1>10, <1>11, SameLine
<1>13. rest = Console!Without(Console!Counting(1, typed), refused)
  BY ConsoleLists DEF rest, all
<1> QED BY <1>0, <1>12, <1>13 DEF Console!TypedInOrder, Line

\* No reader waits while there are bytes, and bytes are handed out and sent
\* once and in order, except for those that were refused.
THEOREM ConsoleServes ==
  Console!Spec => [](Console!NobodyWaitsInVain /\ Console!TypedInOrder /\ Console!AcceptedInOrder)
<1>0. Console!TerminalAssumption
  BY ComponentAssumptions
<1>1. Console!Init => ConsoleInv
  BY <1>0, ConsoleInit
<1>2. ConsoleInv /\ [Console!Next]_(Console!vars) => ConsoleInv'
  BY <1>0, ConsoleNext
<1>3. ConsoleInv => Console!NobodyWaitsInVain /\ Console!TypedInOrder /\ Console!AcceptedInOrder
  BY <1>0, LineIsWhatWasTyped DEF ConsoleInv, OutputKept
<1> QED BY <1>1, <1>2, <1>3, PTL DEF Console!Spec

-----------------------------------------------------------------------------
LEMMA DirectoryInit == ASSUME Directory!NameServerAssumption, Directory!Init PROVE Directory!LookupFindsLatest
<1>1. Directory!TypeOK
  BY DEF Directory!Init, Directory!TypeOK, Directory!Entries
<1>2. \A n \in Names : latest[n] = Nobody /\ Directory!Find(n) = {}
  BY DEF Directory!Init, Directory!Find, Directory!NameServerAssumption
<1>3. \A n \in Names : Directory!WhoIs(n) = {}
  BY <1>2 DEF Directory!WhoIs
<1> QED BY <1>1, <1>2, <1>3 DEF Directory!LookupFindsLatest

\* A name is in one slot, the one that a lookup finds, or in none.
LEMMA DirectoryFound ==
  ASSUME Directory!NameServerAssumption, Directory!LookupFindsLatest, NEW n \in Names
  PROVE  /\ latest[n] = Nobody => \A i \in Directory!Entries : names[i].name # n
         /\ latest[n] # Nobody => \E i \in Directory!Entries : Directory!Find(n) = {i}
<1>1. Directory!TypeOK /\ Directory!WhoIs(n) = IF latest[n] = Nobody THEN {} ELSE {latest[n]}
  BY DEF Directory!LookupFindsLatest
<1> DEFINE S == {i \in Directory!Entries : names[i].name = n}
<1>2. Directory!Entries = 1 .. MaxRegistrations /\ MaxRegistrations \in Nat
  BY DEF Directory!Entries, Directory!NameServerAssumption
<1>3. ASSUME S # {} PROVE \E i \in Directory!Entries : Directory!Find(n) = {i}
  <2>1. PICK i \in S : \A j \in S : i <= j
    <3>1. S \subseteq Nat
      BY <1>2
    <3> HIDE DEF S
    <3> QED BY <1>3, <3>1, SmallestExists
  <2>2. \A j \in 1 .. i - 1 : names[j].name # n
    BY <1>2, <2>1
  <2>3. i \in Directory!Find(n)
    BY <2>1, <2>2 DEF Directory!Find
  <2>4. ASSUME NEW k \in Directory!Find(n) PROVE k = i
    <3>1. k \in S /\ \A j \in 1 .. k - 1 : names[j].name # n
      BY <2>4 DEF Directory!Find
    <3>2. i <= k /\ ~(i \in 1 .. k - 1)
      BY <2>1, <3>1
    <3> QED BY <1>2, <2>1, <3>1, <3>2
  <2> QED BY <2>1, <2>3, <2>4
<1>4. ASSUME Directory!Find(n) # {} PROVE Directory!WhoIs(n) # {}
  BY <1>4 DEF Directory!WhoIs
<1>5. ASSUME Directory!Find(n) = {} PROVE Directory!WhoIs(n) = {}
  BY <1>5 DEF Directory!WhoIs
<1>6. latest[n] = Nobody => S = {}
  BY <1>1, <1>3, <1>4
<1>7. latest[n] # Nobody => S # {}
  <2> SUFFICES ASSUME latest[n] # Nobody PROVE S # {}
    OBVIOUS
  <2>1. Directory!Find(n) # {}
    BY <1>1, <1>5
  <2> QED BY <2>1 DEF Directory!Find
<1> QED BY <1>3, <1>6, <1>7

LEMMA DirectoryRegister ==
  ASSUME Directory!NameServerAssumption, Directory!LookupFindsLatest,
         NEW t \in Tasks, NEW n \in Names, Directory!Register(t, n)
  PROVE  Directory!LookupFindsLatest'
<1>1. /\ Directory!TypeOK
      /\ \A m \in Names : Directory!WhoIs(m) = IF latest[m] = Nobody THEN {} ELSE {latest[m]}
  BY DEF Directory!LookupFindsLatest
<1>2. PICK i \in Directory!SlotFor(n) :
        /\ names'  = [names EXCEPT ![i] = [name |-> n, tid |-> t]]
        /\ latest' = [latest EXCEPT ![n] = t]
  BY DEF Directory!Register
<1>3. i \in Directory!Entries
  BY DEF Directory!SlotFor, Directory!Find, Directory!FirstFree
<1>4. Directory!TypeOK'
  BY <1>1, <1>2, <1>3 DEF Directory!TypeOK
<1>5. /\ names'[i] = [name |-> n, tid |-> t] /\ latest'[n] = t /\ t # Nobody
      /\ \A j \in Directory!Entries : j # i => names'[j] = names[j]
      /\ \A m \in Names : m # n => latest'[m] = latest[m]
  BY <1>1, <1>2, <1>3 DEF Directory!TypeOK, Directory!NameServerAssumption
<1>6. \A j \in Directory!Entries : j # i => names[j].name # n \/ (i \in Directory!Find(n) /\ i < j)
  <2> SUFFICES ASSUME NEW j \in Directory!Entries, j # i, names[j].name = n
               PROVE  i \in Directory!Find(n) /\ i < j
    OBVIOUS
  <2>1. latest[n] # Nobody
    BY DirectoryFound
  <2>2. PICK k \in Directory!Entries : Directory!Find(n) = {k}
    BY <2>1, DirectoryFound
  <2>3. i \in Directory!Find(n)
    BY <2>2 DEF Directory!SlotFor
  <2>4. \A l \in 1 .. i - 1 : names[l].name # n
    BY <2>3 DEF Directory!Find
  <2>5. i \in Nat /\ j \in Nat /\ j >= 1
    BY <1>3 DEF Directory!Entries
  <2>6. i < j
    BY <2>4, <2>5
  <2> QED BY <2>3, <2>6
<1>7. Directory!Find(n)' = {i}
  <2>1. \A j \in 1 .. i - 1 : j \in Directory!Entries /\ j # i /\ j < i /\ ~(i < j)
    BY <1>3 DEF Directory!Entries, Directory!NameServerAssumption
  <2>2. \A j \in 1 .. i - 1 : names'[j].name # n
    BY <1>5, <1>6, <2>1
  <2>3. i \in Directory!Find(n)'
    BY <1>3, <1>5, <2>2 DEF Directory!Find, Directory!Entries
  <2>4. ASSUME NEW k \in Directory!Find(n)' PROVE k = i
    <3>1. k \in Directory!Entries /\ \A j \in 1 .. k - 1 : names'[j].name # n
      BY <2>4 DEF Directory!Find, Directory!Entries
    <3>2. names'[k].name = n
      BY <2>4 DEF Directory!Find, Directory!Entries
    <3>3. SUFFICES ASSUME k # i PROVE FALSE
      OBVIOUS
    <3>4. i < k
      BY <1>5, <1>6, <3>1, <3>2, <3>3
    <3>5. i \in 1 .. k - 1
      BY <1>3, <3>1, <3>4 DEF Directory!Entries, Directory!NameServerAssumption
    <3> QED BY <1>5, <3>1, <3>5
  <2> QED BY <2>3, <2>4
<1>8. ASSUME NEW m \in Names, m # n
      PROVE  Directory!WhoIs(m)' = Directory!WhoIs(m)
  <2>1. names[i].name # m
    <3>1. CASE i \in Directory!Find(n)
      BY <1>8, <3>1 DEF Directory!Find
    <3>2. CASE i \notin Directory!Find(n)
      BY <3>2, <1>8 DEF Directory!SlotFor, Directory!FirstFree, Directory!Free, Directory!NameServerAssumption
    <3> QED BY <3>1, <3>2
  <2>2. \A j \in Directory!Entries : names'[j].name = m <=> names[j].name = m
    BY <1>5, <1>8, <2>1
  <2>3. \A j \in Directory!Entries : 1 .. j - 1 \subseteq Directory!Entries
    BY DEF Directory!Entries, Directory!NameServerAssumption
  <2>4. Directory!Find(m)' = Directory!Find(m)
    BY <2>2, <2>3 DEF Directory!Find, Directory!Entries
  <2>5. \A j \in Directory!Find(m) : names'[j] = names[j]
    BY <1>5, <2>1 DEF Directory!Find
  <2> QED BY <2>4, <2>5 DEF Directory!WhoIs
<1>9. Directory!WhoIs(n)' = {t}
  BY <1>5, <1>7 DEF Directory!WhoIs
<1>10. ASSUME NEW m \in Names
       PROVE  Directory!WhoIs(m)' = IF latest'[m] = Nobody THEN {} ELSE {latest'[m]}
  BY <1>1, <1>5, <1>8, <1>9
<1> QED BY <1>4, <1>10 DEF Directory!LookupFindsLatest

\* A lookup tells the latest task that registered the name, or nobody.
THEOREM LookupIsLatest == Directory!Spec => []Directory!LookupFindsLatest
<1> USE ComponentAssumptions
<1>1. Directory!Init => Directory!LookupFindsLatest
  BY DirectoryInit
<1>2. Directory!LookupFindsLatest /\ [Directory!Next]_(Directory!vars) => Directory!LookupFindsLatest'
  <2> SUFFICES ASSUME Directory!LookupFindsLatest, [Directory!Next]_(Directory!vars)
               PROVE  Directory!LookupFindsLatest'
    OBVIOUS
  <2>1. CASE UNCHANGED Directory!vars
    <3>1. names' = names /\ latest' = latest
      BY <2>1 DEF Directory!vars
    <3>2. \A n \in Names : Directory!Find(n)' = Directory!Find(n)
      BY <3>1 DEF Directory!Find
    <3>3. \A n \in Names : Directory!WhoIs(n)' = Directory!WhoIs(n)
      BY <3>1, <3>2 DEF Directory!WhoIs
    <3>4. Directory!TypeOK'
      BY <3>1 DEF Directory!LookupFindsLatest, Directory!TypeOK
    <3> QED BY <3>1, <3>3, <3>4 DEF Directory!LookupFindsLatest
  <2>2. CASE Directory!Next
    <3>1. PICK t \in Tasks, n \in Names : Directory!Register(t, n)
      BY <2>2 DEF Directory!Next
    <3> QED BY <3>1, DirectoryRegister
  <2> QED BY <2>1, <2>2
<1> QED BY <1>1, <1>2, PTL DEF Directory!Spec

-----------------------------------------------------------------------------
\* The CAN server's lists are lists, and its sets have their sizes.
LEMMA CanLists ==
  ASSUME NEW line, NEW T
  PROVE  /\ Can!Kept(line, T) = Kept(line, T)
         /\ Can!Members(line) = Members(line)
         /\ Can!Without(line, T) = Without(line, T)
         /\ Can!Cardinality(T) = Cardinality(T)
<1>1. Can!Members(line) = Members(line)
  BY DEF Can!Members, Members
<1>2. \A S : Can!Kept(line, S) = Kept(line, S)
  BY DEF Can!Kept, Kept
<1>3. Can!Cardinality(T) = Cardinality(T)
  BY DEF Can!Cardinality, Cardinality
<1> QED BY <1>1, <1>2, <1>3 DEF Can!Without, Without

\* A queued frame is a client's, or nobody's and of a batch.
Item == {x \in [cmd : Can!Commands, from : Tasks \cup {Nobody}, token : Nat, rank : Nat] :
           x.token # 0 => x.from = Nobody}

\* No two of the list are from the same client.
Alone(s) == \A i, j \in 1 .. Len(s) : i < j => s[i].from = Nobody \/ s[i].from # s[j].from

\* There is one from c.
In(c, s) == \E i \in 1 .. Len(s) : s[i].from = c

LEMMA AloneKept ==
  ASSUME NEW s \in Seq(Item), Alone(s), NEW T
  PROVE  /\ Kept(s, T) \in Seq(Item) /\ Alone(Kept(s, T))
         /\ \A c : In(c, Kept(s, T)) <=> \E i \in 1 .. Len(s) : s[i].from = c /\ s[i] \in T
<1> DEFINE k == Kept(s, T)
           R == {p \in Item \X Item : p[1].from = Nobody \/ p[1].from # p[2].from}
<1>1. k \in Seq(Item) /\ \A x : x \in Members(k) <=> x \in Members(s) /\ x \in T
  BY KeptLine
<1>2. \A i \in 1 .. Len(s) : s[i] \in Item
  BY ElementOfSeq
<1>3. \A i, j \in 1 .. Len(s) : i < j => <<s[i], s[j]>> \in R
  BY <1>2 DEF Alone
<1> HIDE DEF R
<1>4. \A i, j \in 1 .. Len(k) : i < j => <<k[i], k[j]>> \in R
  BY <1>3, KeptOrdered
<1> HIDE DEF k
<1>5. Alone(k)
  BY <1>4 DEF Alone, R
<1>6. ASSUME NEW c PROVE In(c, k) <=> \E i \in 1 .. Len(s) : s[i].from = c /\ s[i] \in T
  <2>1. ASSUME In(c, k) PROVE \E i \in 1 .. Len(s) : s[i].from = c /\ s[i] \in T
    <3>1. PICK j \in 1 .. Len(k) : k[j].from = c
      BY <2>1 DEF In
    <3>2. k[j] \in Members(k)
      BY <1>1, MembersPos
    <3>3. k[j] \in Members(s) /\ k[j] \in T
      BY <1>1, <3>2
    <3>4. PICK i \in 1 .. Len(s) : s[i] = k[j]
      BY <3>3, MembersPos
    <3> QED BY <3>1, <3>3, <3>4
  <2>2. ASSUME NEW i \in 1 .. Len(s), s[i].from = c, s[i] \in T PROVE In(c, k)
    <3>1. s[i] \in Members(k)
      BY <1>1, <2>2, MembersPos
    <3>2. PICK j \in 1 .. Len(k) : k[j] = s[i]
      BY <1>1, <3>1, MembersPos
    <3> QED BY <2>2, <3>2 DEF In
  <2> QED BY <2>1, <2>2
<1> QED BY <1>1, <1>5, <1>6 DEF k

LEMMA AloneTail ==
  ASSUME NEW s \in Seq(Item), Alone(s), s # <<>>
  PROVE  /\ Tail(s) \in Seq(Item) /\ Alone(Tail(s)) /\ Head(s) \in Item /\ Head(s) = s[1] /\ 1 \in 1 .. Len(s)
         /\ Len(Tail(s)) = Len(s) - 1 /\ \A i \in 1 .. Len(Tail(s)) : Tail(s)[i] = s[i + 1]
         /\ \A c \in Tasks : In(c, Tail(s)) <=> In(c, s) /\ c # Head(s).from
<1> DEFINE t == Tail(s)
<1>1. /\ t \in Seq(Item) /\ Len(t) = Len(s) - 1 /\ Len(s) \in Nat \ {0}
      /\ \A i \in 1 .. Len(t) : t[i] = s[i + 1]
      /\ Head(s) = s[1] /\ Head(s) \in Item
  BY HeadFirst, HeadTailProperties
<1> HIDE DEF t
<1>2. \A i \in 1 .. Len(t) : i + 1 \in 1 .. Len(s) /\ 1 \in 1 .. Len(s) /\ 1 < i + 1
  BY <1>1
<1>3. Alone(t)
  <2> SUFFICES ASSUME NEW i \in 1 .. Len(t), NEW j \in 1 .. Len(t), i < j
               PROVE  t[i].from = Nobody \/ t[i].from # t[j].from
    BY DEF Alone
  <2>1. i + 1 < j + 1
    OBVIOUS
  <2> QED BY <1>1, <1>2, <2>1 DEF Alone
<1>4. ASSUME NEW c \in Tasks, In(c, t) PROVE In(c, s) /\ c # Head(s).from
  <2>1. PICK i \in 1 .. Len(t) : t[i].from = c
    BY <1>4 DEF In
  <2>2. i + 1 \in 1 .. Len(s) /\ s[i + 1].from = c
    BY <1>1, <1>2, <2>1
  <2>3. c # Nobody
    BY ComponentAssumptions DEF Can!CanAssumption
  <2>4. s[1].from = Nobody \/ s[1].from # s[i + 1].from
    BY <1>2 DEF Alone
  <2> QED BY <1>1, <2>2, <2>3, <2>4 DEF In
<1>5. ASSUME NEW c \in Tasks, In(c, s), c # Head(s).from PROVE In(c, t)
  <2>1. PICK i \in 1 .. Len(s) : s[i].from = c
    BY <1>5 DEF In
  <2>2. i # 1
    BY <1>1, <1>5, <2>1
  <2>3. i - 1 \in 1 .. Len(t) /\ (i - 1) + 1 = i
    BY <1>1, <2>2
  <2>4. t[i - 1] = s[i]
    BY <1>1, <2>3
  <2> QED BY <2>1, <2>3, <2>4 DEF In
<1>6. 1 \in 1 .. Len(s)
  BY <1>1
<1> QED BY <1>1, <1>3, <1>4, <1>5, <1>6 DEF t

LEMMA AloneJoined ==
  ASSUME NEW a \in Seq(Item), NEW b \in Seq(Item), Alone(a), Alone(b),
         \A c \in Tasks : ~(In(c, a) /\ In(c, b))
  PROVE  /\ a \o b \in Seq(Item) /\ Alone(a \o b)
         /\ \A c : In(c, a \o b) <=> In(c, a) \/ In(c, b)
<1> DEFINE w == a \o b
<1>1. /\ w \in Seq(Item) /\ Len(w) = Len(a) + Len(b)
      /\ \A i \in 1 .. Len(a) + Len(b) : w[i] = IF i <= Len(a) THEN a[i] ELSE b[i - Len(a)]
  BY ConcatProperties
<1> HIDE DEF w
<1>2. Len(a) \in Nat /\ Len(b) \in Nat
  BY LenProperties
<1>3. \A i \in 1 .. Len(w) : \/ i \in 1 .. Len(a) /\ w[i] = a[i]
                             \/ i > Len(a) /\ i - Len(a) \in 1 .. Len(b) /\ w[i] = b[i - Len(a)]
  <2> TAKE i \in 1 .. Len(w)
  <2>1. CASE i <= Len(a)
    BY <1>1, <1>2, <2>1
  <2>2. CASE ~(i <= Len(a))
    <3>1. i - Len(a) \in 1 .. Len(b) /\ i > Len(a)
      BY <1>1, <1>2, <2>2
    <3> QED BY <1>1, <2>2, <3>1
  <2> QED BY <2>1, <2>2
<1>5. Alone(w)
  <2> SUFFICES ASSUME NEW i \in 1 .. Len(w), NEW j \in 1 .. Len(w), i < j
               PROVE  w[i].from = Nobody \/ w[i].from # w[j].from
    BY DEF Alone
  <2>1. CASE j \in 1 .. Len(a) /\ w[j] = a[j]
    <3>1. i \in 1 .. Len(a) /\ w[i] = a[i]
      BY <1>1, <1>2, <1>3, <2>1
    <3> QED BY <2>1, <3>1 DEF Alone
  <2>2. CASE i \in 1 .. Len(a) /\ w[i] = a[i] /\ j > Len(a) /\ j - Len(a) \in 1 .. Len(b) /\ w[j] = b[j - Len(a)]
    <3>1. SUFFICES ASSUME w[i].from # Nobody, w[i].from = w[j].from PROVE FALSE
      OBVIOUS
    <3>2. w[i] \in Item
      BY <1>1, ElementOfSeq
    <3>3. w[i].from \in Tasks
      BY <3>1, <3>2 DEF Item
    <3>4. In(w[i].from, a) /\ In(w[i].from, b)
      BY <2>2, <3>1 DEF In
    <3> QED BY <3>3, <3>4
  <2>3. CASE i > Len(a) /\ i - Len(a) \in 1 .. Len(b) /\ w[i] = b[i - Len(a)]
             /\ j > Len(a) /\ j - Len(a) \in 1 .. Len(b) /\ w[j] = b[j - Len(a)]
    <3>1. i - Len(a) < j - Len(a)
      BY <1>2
    <3> QED BY <2>3, <3>1 DEF Alone
  <2> QED BY <1>2, <1>3, <2>1, <2>2, <2>3
<1>6. ASSUME NEW c, In(c, w) PROVE In(c, a) \/ In(c, b)
  BY <1>3, <1>6 DEF In
<1>7. ASSUME NEW c, In(c, a) PROVE In(c, w)
  <2>1. PICK i \in 1 .. Len(a) : a[i].from = c
    BY <1>7 DEF In
  <2>2. i \in 1 .. Len(w) /\ i \in 1 .. Len(a) + Len(b) /\ i <= Len(a)
    BY <1>1, <1>2
  <2>3. w[i] = a[i]
    BY <1>1, <2>2
  <2> QED BY <2>1, <2>2, <2>3 DEF In
<1>8. ASSUME NEW c, In(c, b) PROVE In(c, w)
  <2>1. PICK i \in 1 .. Len(b) : b[i].from = c
    BY <1>8 DEF In
  <2>2. \E j \in 1 .. Len(a) + Len(b) : ~(j <= Len(a)) /\ j - Len(a) = i
    <3>1. i + Len(a) \in 1 .. Len(a) + Len(b) /\ ~(i + Len(a) <= Len(a)) /\ i + Len(a) - Len(a) = i
      BY <1>2
    <3> QED BY <3>1
  <2>3. PICK j \in 1 .. Len(a) + Len(b) : ~(j <= Len(a)) /\ j - Len(a) = i
    BY <2>2
  <2>4. w[j] = b[i] /\ j \in 1 .. Len(w)
    BY <1>1, <2>3
  <2> QED BY <2>1, <2>4 DEF In
<1> QED BY <1>1, <1>5, <1>6, <1>7, <1>8 DEF w

\* A list in two parts.
LEMMA AloneParts ==
  ASSUME NEW s \in Seq(Item), Alone(s), NEW p \in 1 .. Len(s) + 1
  PROVE  LET a == SubSeq(s, 1, p - 1)
             b == SubSeq(s, p, Len(s))
         IN  /\ a \in Seq(Item) /\ b \in Seq(Item) /\ Alone(a) /\ Alone(b)
             /\ \A c \in Tasks : ~(In(c, a) /\ In(c, b))
             /\ \A c : In(c, s) <=> In(c, a) \/ In(c, b)
<1> DEFINE a == SubSeq(s, 1, p - 1)
           b == SubSeq(s, p, Len(s))
<1>1. Len(s) \in Nat /\ p \in Nat /\ 1 <= p /\ p <= Len(s) + 1 /\ \A i \in 1 .. Len(s) : s[i] \in Item
  BY LenProperties, ElementOfSeq
<1>2. a \in Seq(Item) /\ Len(a) = p - 1 /\ \A i \in 1 .. Len(a) : a[i] = s[i]
  <2>1. \A i \in 1 .. p - 1 : s[i] \in Item
    BY <1>1
  <2>2. /\ a \in Seq(Item)
        /\ Len(a) = IF 1 <= p - 1 THEN p - 1 - 1 + 1 ELSE 0
        /\ \A i \in 1 .. p - 1 - 1 + 1 : a[i] = s[1 + i - 1]
    BY <1>1, <2>1, SubSeqProperties
  <2> HIDE DEF a
  <2>3. Len(a) = p - 1 /\ \A i \in 1 .. p - 1 : 1 + i - 1 = i
    BY <1>1, <2>2
  <2> QED BY <1>1, <2>2, <2>3
<1>3. b \in Seq(Item) /\ Len(b) = Len(s) + 1 - p /\ \A i \in 1 .. Len(b) : b[i] = s[p + i - 1]
  <2>1. \A i \in p .. Len(s) : s[i] \in Item
    BY <1>1
  <2>2. /\ b \in Seq(Item)
        /\ Len(b) = IF p <= Len(s) THEN Len(s) - p + 1 ELSE 0
        /\ \A i \in 1 .. Len(s) - p + 1 : b[i] = s[p + i - 1]
    BY <1>1, <2>1, SubSeqProperties
  <2> HIDE DEF b
  <2>3. Len(b) = Len(s) + 1 - p
    BY <1>1, <2>2
  <2> QED BY <1>1, <2>2, <2>3
<1> HIDE DEF a, b
<1>4. \A i \in 1 .. Len(a) : i \in 1 .. Len(s) /\ i < p
  BY <1>1, <1>2
<1>5. \A i \in 1 .. Len(b) : p + i - 1 \in 1 .. Len(s) /\ p <= p + i - 1
  BY <1>1, <1>3
<1>6. Alone(a)
  BY <1>2, <1>4 DEF Alone
<1>7. Alone(b)
  <2> SUFFICES ASSUME NEW i \in 1 .. Len(b), NEW j \in 1 .. Len(b), i < j
               PROVE  b[i].from = Nobody \/ b[i].from # b[j].from
    BY DEF Alone
  <2>1. p + i - 1 < p + j - 1
    BY <1>1
  <2> QED BY <1>3, <1>5, <2>1 DEF Alone
<1>8. ASSUME NEW c \in Tasks, In(c, a), In(c, b) PROVE FALSE
  <2>1. PICK i \in 1 .. Len(a) : a[i].from = c
    BY <1>8 DEF In
  <2>2. PICK j \in 1 .. Len(b) : b[j].from = c
    BY <1>8 DEF In
  <2>3. i < p + j - 1
    BY <1>1, <1>4, <1>5
  <2>4. c # Nobody
    BY ComponentAssumptions DEF Can!CanAssumption
  <2>5. i \in 1 .. Len(s) /\ s[i].from = c
    BY <1>2, <1>4, <2>1
  <2>6. p + j - 1 \in 1 .. Len(s) /\ s[p + j - 1].from = c
    BY <1>3, <1>5, <2>2
  <2> QED BY <2>3, <2>4, <2>5, <2>6 DEF Alone
<1>9. ASSUME NEW c, In(c, s) PROVE In(c, a) \/ In(c, b)
  <2>1. PICK i \in 1 .. Len(s) : s[i].from = c
    BY <1>9 DEF In
  <2>2. CASE i < p
    <3>1. i \in 1 .. Len(a)
      BY <1>1, <1>2, <2>2
    <3> QED BY <1>2, <2>1, <3>1 DEF In
  <2>3. CASE i >= p
    <3>1. i - p + 1 \in 1 .. Len(b) /\ p + (i - p + 1) - 1 = i
      BY <1>1, <1>3, <2>3
    <3>2. b[i - p + 1] = s[i]
      BY <1>3, <3>1
    <3> QED BY <2>1, <3>1, <3>2 DEF In
  <2> QED BY <1>1, <2>2, <2>3
<1>10. ASSUME NEW c, In(c, a) \/ In(c, b) PROVE In(c, s)
  BY <1>2, <1>3, <1>4, <1>5, <1>10 DEF In
<1> QED BY <1>2, <1>3, <1>6, <1>7, <1>8, <1>9, <1>10 DEF a, b

\* What is queued for a request, in the client's name or in nobody's.
LEMMA AloneItems ==
  ASSUME NEW cmds \in Seq(Can!Commands), NEW from \in Tasks \cup {Nobody},
         NEW token \in Nat, NEW rank \in Nat, from = Nobody \/ Len(cmds) = 1,
         token # 0 => from = Nobody
  PROVE  LET items == Can!Items(cmds, from, token, rank)
         IN  /\ items \in Seq(Item) /\ Alone(items) /\ Len(items) = Len(cmds)
             /\ \A i \in 1 .. Len(items) : items[i].from = from /\ items[i].token = token
             /\ \A c \in Tasks : In(c, items) <=> c = from
<1> DEFINE items == Can!Items(cmds, from, token, rank)
<1>1. DOMAIN cmds = 1 .. Len(cmds) /\ Len(cmds) \in Nat /\ \A i \in 1 .. Len(cmds) : cmds[i] \in Can!Commands
  BY LenProperties, ElementOfSeq
<1>2. items = [i \in 1 .. Len(cmds) |-> [cmd |-> cmds[i], from |-> from, token |-> token, rank |-> rank]]
  BY <1>1 DEF Can!Items
<1> HIDE DEF items
<1>3. \A i \in 1 .. Len(cmds) : items[i] \in Item /\ items[i].from = from /\ items[i].token = token
  BY <1>1, <1>2 DEF Item
<1>4. items \in Seq(Item) /\ Len(items) = Len(cmds)
  <2>1. items \in [1 .. Len(cmds) -> Item]
    BY <1>2, <1>3
  <2>2. items \in Seq(Item)
    BY <1>1, <2>1, SeqDef
  <2>3. DOMAIN items = 1 .. Len(cmds) /\ DOMAIN items = 1 .. Len(items) /\ Len(items) \in Nat
    BY <1>2, <2>2, LenProperties
  <2> QED BY <1>1, <2>2, <2>3
<1>5. Alone(items)
  BY <1>1, <1>3, <1>4 DEF Alone
<1>6. ASSUME NEW c \in Tasks PROVE In(c, items) <=> c = from
  <2>1. CASE from = Nobody
    <3>1. c # Nobody
      BY ComponentAssumptions DEF Can!CanAssumption
    <3> QED BY <1>3, <1>4, <2>1, <3>1 DEF In
  <2>2. CASE Len(cmds) = 1
    <3>1. 1 \in 1 .. Len(items)
      BY <1>4, <2>2
    <3> QED BY <1>3, <1>4, <3>1 DEF In
  <2> QED BY <2>1, <2>2
<1> QED BY <1>3, <1>4, <1>5, <1>6 DEF items

\* There is a place to insert what is more urgent.
LEMMA PlaceExists ==
  ASSUME NEW s \in Seq(Item), NEW rank \in Nat, tx # "idle" => s # <<>>
  PROVE  \E p \in Can!FirstToOvertake .. Len(s) + 1 :
           /\ p <= Len(s) => s[p].rank < rank
           /\ \A j \in Can!FirstToOvertake .. p - 1 : s[j].rank >= rank
<1> DEFINE first == Can!FirstToOvertake
           T == {i \in first .. Len(s) + 1 : i <= Len(s) => s[i].rank < rank}
<1>1. first \in {1, 2} /\ Len(s) \in Nat /\ first <= Len(s) + 1
  <2>1. Len(s) \in Nat /\ (s # <<>> => Len(s) # 0)
    BY LenProperties, EmptySeq
  <2> QED BY <2>1 DEF Can!FirstToOvertake
<1> HIDE DEF first
<1>2. \A i \in 1 .. Len(s) : s[i].rank \in Nat
  <2>1. \A i \in 1 .. Len(s) : s[i] \in Item
    BY ElementOfSeq
  <2> QED BY <2>1 DEF Item
<1>3. T \subseteq Nat /\ Len(s) + 1 \in T
  BY <1>1
<1>4. PICK p \in T : \A m \in T : p <= m
  BY <1>3, SmallestExists
<1>5. ASSUME NEW j \in first .. p - 1 PROVE s[j].rank >= rank
  <2>1. j \in first .. Len(s) + 1 /\ j < p /\ j \in 1 .. Len(s)
    BY <1>1, <1>4
  <2>2. j \notin T
    BY <1>3, <1>4, <2>1
  <2>3. ~(s[j].rank < rank)
    BY <2>1, <2>2
  <2> QED BY <1>2, <2>1, <2>3
<1> QED BY <1>4, <1>5 DEF first

LEMMA AloneInserted ==
  ASSUME NEW s \in Seq(Item), Alone(s), NEW items \in Seq(Item), Alone(items),
         \A c \in Tasks : ~(In(c, s) /\ In(c, items)),
         NEW rank \in Nat, tx # "idle" => s # <<>>
  PROVE  LET new == Can!Inserted(items, rank, s)
         IN  /\ new \in Seq(Item) /\ Alone(new)
             /\ \A c : In(c, new) <=> In(c, s) \/ In(c, items)
<1> DEFINE ok(p) == /\ p <= Len(s) => s[p].rank < rank
                    /\ \A j \in Can!FirstToOvertake .. p - 1 : s[j].rank >= rank
           p == CHOOSE i \in Can!FirstToOvertake .. Len(s) + 1 : ok(i)
           a == SubSeq(s, 1, p - 1)
           b == SubSeq(s, p, Len(s))
           new == Can!Inserted(items, rank, s)
<1>1. p \in Can!FirstToOvertake .. Len(s) + 1
  <2>1. \E i \in Can!FirstToOvertake .. Len(s) + 1 : ok(i)
    BY PlaceExists
  <2> HIDE DEF ok
  <2> QED BY <2>1
<1>2. new = a \o items \o b
  BY DEF Can!Inserted
<1> HIDE DEF p, new
<1>3. p \in 1 .. Len(s) + 1
  <2>1. Can!FirstToOvertake \in {1, 2} /\ Len(s) \in Nat
    BY LenProperties DEF Can!FirstToOvertake
  <2> QED BY <1>1, <2>1
<1>4. /\ a \in Seq(Item) /\ b \in Seq(Item) /\ Alone(a) /\ Alone(b)
      /\ \A c \in Tasks : ~(In(c, a) /\ In(c, b))
      /\ \A c : In(c, s) <=> In(c, a) \/ In(c, b)
  BY <1>3, AloneParts
<1> HIDE DEF a, b
<1> DEFINE w == a \o items
<1>5. w \in Seq(Item) /\ Alone(w) /\ \A c : In(c, w) <=> In(c, a) \/ In(c, items)
  BY <1>4, AloneJoined
<1> HIDE DEF w
<1>6. \A c \in Tasks : ~(In(c, w) /\ In(c, b))
  BY <1>4, <1>5
<1>7. w \o b \in Seq(Item) /\ Alone(w \o b) /\ \A c : In(c, w \o b) <=> In(c, w) \/ In(c, b)
  BY <1>4, <1>5, <1>6, AloneJoined
<1>8. new = w \o b
  BY <1>2 DEF w
<1> QED BY <1>4, <1>5, <1>7, <1>8 DEF new

-----------------------------------------------------------------------------
Record == [token : Nat, state : {"pending", "failed", "complete"}, total : Nat, confirmed : Nat]

Records == {f \in [Can!Slots -> Record] : \A i \in Can!Slots : f[i].state = "pending" => f[i].token # 0}

AtHand(c) == msg.kind = "request" /\ msg.from = c

QueueOK == q \in Seq(Item) /\ Alone(q) /\ (tx # "idle" => q # <<>>)

MsgOK == /\ msg.kind = "request" => msg.from \in Tasks
         /\ pc = "receive" => msg.kind # "request"

StatusOK == status \in Records /\ nextToken \in Nat \ {0}

\* A client waits if its request is at hand or a frame of its is queued, and
\* these exclude each other.
CallsOK ==
  /\ calling \in [Tasks -> BOOLEAN]
  /\ \A c \in Tasks : calling[c] <=> In(c, q) \/ AtHand(c)
  /\ \A c \in Tasks : ~(In(c, q) /\ AtHand(c))

CanInv == QueueOK /\ MsgOK /\ StatusOK /\ CallsOK

LEMMA FailedRecords ==
  ASSUME StatusOK, NEW T
  PROVE  Can!WithFailed(T) \in Records
<1> DEFINE f == Can!WithFailed(T)
<1>1. \A i \in Can!Slots : status[i] \in Record /\ (status[i].state = "pending" => status[i].token # 0)
  BY DEF StatusOK, Records
<1>2. \A i \in Can!Slots : f[i] = status[i] \/ f[i] = [status[i] EXCEPT !.state = "failed"]
  BY DEF Can!WithFailed
<1>3. \A r \in Record : [r EXCEPT !.state = "failed"] \in Record /\ [r EXCEPT !.state = "failed"].state = "failed"
  BY DEF Record
<1>4. \A i \in Can!Slots : f[i] \in Record /\ (f[i].state = "pending" => f[i].token # 0)
  <2> TAKE i \in Can!Slots
  <2> HIDE DEF f
  <2>1. CASE f[i] = status[i]
    BY <1>1, <2>1
  <2>2. CASE f[i] = [status[i] EXCEPT !.state = "failed"]
    BY <1>1, <1>3, <2>2
  <2> QED BY <1>2, <2>1, <2>2
<1>5. f = [i \in Can!Slots |-> f[i]]
  BY DEF Can!WithFailed
<1> HIDE DEF f
<1>6. f \in [Can!Slots -> Record]
  BY <1>4, <1>5
<1> QED BY <1>4, <1>6 DEF Records, f

LEMMA ConfirmedRecords ==
  ASSUME StatusOK, NEW t
  PROVE  Can!WithConfirmed(t) \in Records
<1> DEFINE f == Can!WithConfirmed(t)
<1>1. \A i \in Can!Slots : status[i] \in Record /\ (status[i].state = "pending" => status[i].token # 0)
  BY DEF StatusOK, Records
<1>2. \A i \in Can!Slots : \/ f[i] = status[i]
                           \/ status[i].state = "pending"
                              /\ \E x \in {"complete", "pending"} :
                                   f[i] = [status[i] EXCEPT !.confirmed = @ + 1, !.state = x]
  BY DEF Can!WithConfirmed
<1>4. \A i \in Can!Slots : f[i] \in Record /\ (f[i].state = "pending" => f[i].token # 0)
  <2> TAKE i \in Can!Slots
  <2> HIDE DEF f
  <2>1. CASE f[i] = status[i]
    BY <1>1, <2>1
  <2>2. ASSUME status[i].state = "pending", NEW x \in {"complete", "pending"},
               f[i] = [status[i] EXCEPT !.confirmed = @ + 1, !.state = x]
        PROVE  f[i] \in Record /\ (f[i].state = "pending" => f[i].token # 0)
    <3>1. PICK r \in Record : r = status[i]
      BY <1>1
    <3>2. r = [token |-> r.token, state |-> r.state, total |-> r.total, confirmed |-> r.confirmed]
          /\ r.token \in Nat /\ r.total \in Nat /\ r.confirmed \in Nat
      BY DEF Record
    <3>3. f[i] = [r EXCEPT !.confirmed = @ + 1, !.state = x]
      BY <2>2, <3>1
    <3>4. f[i] = [token |-> r.token, state |-> x, total |-> r.total, confirmed |-> r.confirmed + 1]
      BY <3>2, <3>3
    <3>5. f[i] \in Record /\ f[i].token = status[i].token
      BY <3>1, <3>2, <3>4 DEF Record
    <3> QED BY <1>1, <2>2, <3>5
  <2> QED BY <1>2, <2>1, <2>2
<1>5. f = [i \in Can!Slots |-> f[i]]
  BY DEF Can!WithConfirmed
<1> HIDE DEF f
<1>6. f \in [Can!Slots -> Record]
  BY <1>4, <1>5
<1> QED BY <1>4, <1>6 DEF Records, f

LEMMA AllocatedRecords ==
  ASSUME StatusOK, NEW st \in Records, NEW n \in Nat, Can!Allocate(st, n)
  PROVE  StatusOK'
<1> DEFINE slot == Can!NextSlot(st)
           r == [token |-> nextToken, state |-> "pending", total |-> n, confirmed |-> 0]
<1>1. status' = [st EXCEPT ![slot] = r] /\ nextToken' = nextToken + 1
  BY DEF Can!Allocate
<1>2. nextToken \in Nat \ {0} /\ r \in Record /\ r.token # 0
  BY DEF StatusOK, Record
<1> HIDE DEF slot, r
<1>3. st \in [Can!Slots -> Record] /\ \A i \in Can!Slots : st[i].state = "pending" => st[i].token # 0
  BY DEF Records
<1>4. status' \in [Can!Slots -> Record]
  BY <1>1, <1>2, <1>3
<1>5. \A i \in Can!Slots : status'[i] = st[i] \/ status'[i] = r
  BY <1>1, <1>3
<1>6. nextToken' \in Nat \ {0}
  BY <1>1, <1>2
<1> QED BY <1>2, <1>3, <1>4, <1>5, <1>6 DEF StatusOK, Records

\* Whoever is answered is not queued any more, nor at hand.
LEMMA Settled ==
  ASSUME CanInv, NEW C, calling' = Can!Answered(C),
         \A c \in Tasks : In(c, q)' \/ AtHand(c)' <=> (In(c, q) \/ AtHand(c)) /\ c \notin C,
         \A c \in Tasks : ~(In(c, q)' /\ AtHand(c)')
  PROVE  CallsOK'
<1>1. /\ calling \in [Tasks -> BOOLEAN]
      /\ \A c \in Tasks : calling[c] <=> In(c, q) \/ AtHand(c)
  BY DEF CanInv, CallsOK
<1>2. calling' = [c \in Tasks |-> calling[c] /\ c \notin C]
  BY DEF Can!Answered
<1>3. calling' \in [Tasks -> BOOLEAN]
  BY <1>2
<1>4. \A c \in Tasks : calling'[c] <=> calling[c] /\ c \notin C
  BY <1>2
<1>5. \A c \in Tasks : calling'[c] <=> In(c, q)' \/ AtHand(c)'
  BY <1>1, <1>4
<1> QED BY <1>3, <1>5 DEF CallsOK

\* Nothing but the message at hand may have changed, and that is no request.
LEMMA QuietKeeps ==
  ASSUME CanInv, q' = q, calling' = calling, status' = status, nextToken' = nextToken,
         tx' # "idle" => q # <<>>,
         msg' = msg \/ (msg.kind # "request" /\ msg'.kind # "request"),
         pc' = "receive" => msg'.kind # "request"
  PROVE  CanInv'
<1>1. QueueOK' /\ StatusOK'
  BY DEF CanInv, QueueOK, StatusOK, Alone, Records
<1>2. \A c \in Tasks : AtHand(c)' <=> AtHand(c)
  BY DEF AtHand
<1>3. CallsOK'
  BY <1>2 DEF CanInv, CallsOK, In
<1>4. MsgOK'
  BY DEF CanInv, MsgOK
<1> QED BY <1>1, <1>3, <1>4 DEF CanInv

-----------------------------------------------------------------------------
\* The head fails: its sender is told, and what else goes is nobody's.
LEMMA FailHeadAnswers ==
  ASSUME CanInv, q # <<>>, Can!FailHead, UNCHANGED msg, tx' = "idle",
         nextToken' = nextToken, pc' # "receive"
  PROVE  CanInv'
<1> DEFINE gone == {x \in Can!Members(q) : x.token # 0 /\ x.token = Head(q).token}
           t == Tail(q)
           rest == Without(t, gone)
<1>1. q \in Seq(Item) /\ Alone(q)
  BY DEF CanInv, QueueOK
<1>2. /\ t \in Seq(Item) /\ Alone(t) /\ Head(q) \in Item /\ Head(q) = q[1] /\ 1 \in 1 .. Len(q)
      /\ \A c \in Tasks : In(c, t) <=> In(c, q) /\ c # Head(q).from
  BY <1>1, AloneTail
<1>3. /\ calling' = Can!Answered({Head(q).from})
      /\ status' = Can!WithFailed({Head(q).token} \ {0})
      /\ q' = rest
  BY CanLists DEF Can!FailHead, Can!WithoutHead
<1>4. \A x \in gone : x.from = Nobody
  <2>1. \A x \in gone : x \in Members(q) /\ x.token # 0
    BY CanLists
  <2>2. \A x \in Members(q) : \E i \in 1 .. Len(q) : q[i] = x
    BY <1>1, MembersPos
  <2>3. \A i \in 1 .. Len(q) : q[i] \in Item
    BY <1>1, ElementOfSeq
  <2> HIDE DEF gone
  <2>4. \A x \in gone : x \in Item /\ x.token # 0
    BY <2>1, <2>2, <2>3
  <2> QED BY <2>4 DEF Item
<1> HIDE DEF t, gone
<1>5. /\ rest \in Seq(Item) /\ Alone(rest)
      /\ \A c : In(c, rest) <=> \E i \in 1 .. Len(t) : t[i].from = c /\ t[i] \in Members(t) \ gone
  BY <1>2, AloneKept DEF Without
<1> HIDE DEF rest
<1>6. ASSUME NEW c \in Tasks PROVE In(c, rest) <=> In(c, t)
  <2>1. c # Nobody
    BY ComponentAssumptions DEF Can!CanAssumption
  <2>2. \A i \in 1 .. Len(t) : t[i] \in Members(t)
    BY <1>2, MembersPos
  <2>3. \A i \in 1 .. Len(t) : t[i].from = c => t[i] \notin gone
    BY <1>4, <2>1
  <2>4. In(c, t) => In(c, rest)
    BY <1>5, <2>2, <2>3 DEF In
  <2>5. In(c, rest) => In(c, t)
    BY <1>5 DEF In
  <2> QED BY <2>4, <2>5
<1>7. \A c \in Tasks : In(c, q)' <=> In(c, q) /\ c \notin {Head(q).from}
  BY <1>2, <1>3, <1>6 DEF In
<1>8. \A c \in Tasks : AtHand(c)' <=> AtHand(c)
  BY DEF AtHand
<1>9. \A c \in Tasks : AtHand(c) => c \notin {Head(q).from}
  <2>1. \A c \in Tasks : ~(In(c, q) /\ AtHand(c))
    BY DEF CanInv, CallsOK
  <2>2. In(Head(q).from, q)
    BY <1>2 DEF In
  <2> QED BY <2>1, <2>2
<1>10. CallsOK'
  <2>1. \A c \in Tasks : ~(In(c, q) /\ AtHand(c))
    BY DEF CanInv, CallsOK
  <2> QED BY <1>3, <1>7, <1>8, <1>9, <2>1, Settled
<1>11. QueueOK'
  BY <1>3, <1>5 DEF QueueOK
<1>12. StatusOK'
  BY <1>3, FailedRecords DEF CanInv, StatusOK
<1>13. MsgOK'
  BY DEF CanInv, MsgOK
<1> QED BY <1>10, <1>11, <1>12, <1>13 DEF CanInv

\* Everything queued fails.
LEMMA FailAllAnswers ==
  ASSUME CanInv, Can!FailAll, nextToken' = nextToken,
         msg' = msg \/ (msg.kind # "request" /\ msg'.kind # "request"),
         pc' = "receive" => msg'.kind # "request"
  PROVE  CanInv'
<1>1. q \in Seq(Item) /\ Alone(q)
  BY DEF CanInv, QueueOK
<1>2. /\ calling' = Can!Answered(Can!Senders(q))
      /\ status' = Can!WithFailed(Can!Tokens(q))
      /\ q' = <<>> /\ tx' = "idle"
  BY DEF Can!FailAll
<1>3. ASSUME NEW c PROVE c \in Can!Senders(q) <=> In(c, q)
  <2>1. c \in Can!Senders(q) <=> \E x \in Members(q) : x.from = c
    BY CanLists DEF Can!Senders
  <2>2. (\E x \in Members(q) : x.from = c) <=> In(c, q)
    BY <1>1, MembersPos DEF In
  <2> QED BY <2>1, <2>2
<1>4. \A c : ~In(c, q)'
  <2>1. Len(q') = 0
    BY <1>2
  <2> QED BY <2>1 DEF In
<1>5. \A c \in Tasks : AtHand(c)' <=> AtHand(c)
  BY DEF AtHand
<1>6. \A c \in Tasks : ~(In(c, q) /\ AtHand(c))
  BY DEF CanInv, CallsOK
<1>7. CallsOK'
  BY <1>2, <1>3, <1>4, <1>5, <1>6, Settled
<1>8. QueueOK'
  BY <1>2 DEF QueueOK, Alone
<1>9. StatusOK'
  BY <1>2, FailedRecords DEF CanInv, StatusOK
<1>10. MsgOK'
  BY DEF CanInv, MsgOK
<1> QED BY <1>7, <1>8, <1>9, <1>10 DEF CanInv

\* What is cleared for something more urgent, and what is left.
LEMMA SparedRest ==
  ASSUME CanInv, NEW rank \in Nat
  PROVE  LET room == Can!Spared(rank)
             gone == {x.from : x \in Can!Cancelled(rank)}
         IN  /\ room \in Seq(Item) /\ Alone(room) /\ (tx # "idle" => room # <<>>)
             /\ \A c \in Tasks : In(c, room) <=> In(c, q) /\ c \notin gone
             /\ \A c \in gone : In(c, q)
<1> DEFINE urgent == {x \in Can!Members(q) : x.rank >= rank}
           room == Can!Spared(rank)
           gone == {x.from : x \in Can!Cancelled(rank)}
<1>1. q \in Seq(Item) /\ Alone(q) /\ (tx # "idle" => q # <<>>)
  BY DEF CanInv, QueueOK
<1>2. \A i \in 1 .. Len(q) : q[i] \in Item /\ q[i].rank \in Nat /\ q[i] \in Members(q)
  <2>1. \A i \in 1 .. Len(q) : q[i] \in Item /\ q[i] \in Members(q)
    BY <1>1, ElementOfSeq, MembersPos
  <2> QED BY <2>1 DEF Item
<1>3. \A i \in 1 .. Len(q) : q[i] \in urgent <=> ~(q[i].rank < rank)
  <2>1. \A i \in 1 .. Len(q) : q[i] \in Can!Members(q)
    BY <1>2, CanLists
  <2>2. \A i \in 1 .. Len(q) : q[i].rank >= rank <=> ~(q[i].rank < rank)
    BY <1>2
  <2> QED BY <2>1, <2>2
<1>4. ASSUME NEW c
      PROVE  c \in gone <=> \E i \in 1 .. Len(q) : q[i].from = c /\ q[i].rank < rank /\ (i = 1 => tx = "idle")
  <2>1. DOMAIN q = 1 .. Len(q)
    BY <1>1, LenProperties
  <2>2. gone = {x.from : x \in {q[i] : i \in {j \in 1 .. Len(q) : q[j].rank < rank /\ (j = 1 => tx = "idle")}}}
    BY <2>1 DEF Can!Cancelled
  <2> HIDE DEF gone
  <2> QED BY <2>2
<1>40. \A c \in gone : In(c, q)
  BY <1>4 DEF In
<1>5. \A c \in Tasks : c # Nobody
  BY ComponentAssumptions DEF Can!CanAssumption
<1>6. ASSUME NEW c \in Tasks, NEW i \in 1 .. Len(q), NEW j \in 1 .. Len(q), q[i].from = c, q[j].from = c
      PROVE  i = j
  <2>1. Len(q) \in Nat /\ (i < j \/ j < i \/ i = j)
    BY <1>1, LenProperties
  <2> QED BY <1>1, <1>5, <1>6, <2>1 DEF Alone
<1> HIDE DEF urgent, gone
<1>7. CASE tx = "idle"
  <2>1. room = Kept(q, urgent)
    BY <1>7, CanLists DEF Can!Spared, urgent
  <2> DEFINE k == Kept(q, urgent)
  <2>2. /\ k \in Seq(Item) /\ Alone(k)
        /\ \A c : In(c, k) <=> \E i \in 1 .. Len(q) : q[i].from = c /\ q[i] \in urgent
    BY <1>1, AloneKept
  <2> HIDE DEF k
  <2>3. ASSUME NEW c \in Tasks PROVE In(c, k) <=> In(c, q) /\ c \notin gone
    <3>1. In(c, k) => In(c, q) /\ c \notin gone
      BY <1>3, <1>4, <1>6, <2>2 DEF In
    <3>2. In(c, q) /\ c \notin gone => In(c, k)
      BY <1>3, <1>4, <1>7, <2>2 DEF In
    <3> QED BY <3>1, <3>2
  <2> QED BY <1>7, <1>40, <2>1, <2>2, <2>3 DEF k, gone
<1>8. CASE tx # "idle"
  <2> DEFINE t == Tail(q)
             k == Kept(t, urgent)
             front == <<Head(q)>>
  <2>1. room = front \o k
    BY <1>8, CanLists DEF Can!Spared, urgent
  <2>2. /\ t \in Seq(Item) /\ Alone(t) /\ Head(q) \in Item /\ Head(q) = q[1] /\ 1 \in 1 .. Len(q)
        /\ Len(t) = Len(q) - 1 /\ \A i \in 1 .. Len(t) : t[i] = q[i + 1]
        /\ \A c \in Tasks : In(c, t) <=> In(c, q) /\ c # Head(q).from
    BY <1>1, <1>8, AloneTail
  <2> HIDE DEF t
  <2>3. /\ k \in Seq(Item) /\ Alone(k)
        /\ \A c : In(c, k) <=> \E i \in 1 .. Len(t) : t[i].from = c /\ t[i] \in urgent
    BY <2>2, AloneKept
  <2>4. front \in Seq(Item) /\ Alone(front) /\ (\A c : In(c, front) <=> c = q[1].from) /\ Len(front) = 1
    <3>1. front \in Seq(Item) /\ Len(front) = 1 /\ front[1] = q[1]
      BY <2>2
    <3> HIDE DEF front
    <3>2. Alone(front)
      BY <3>1 DEF Alone
    <3>3. \A c : In(c, front) <=> c = q[1].from
      BY <3>1 DEF In
    <3> QED BY <3>1, <3>2, <3>3
  <2> HIDE DEF front, k
  <2>5. \A i \in 1 .. Len(t) : i + 1 \in 1 .. Len(q) /\ i + 1 # 1
    <3>1. Len(q) \in Nat
      BY <1>1, LenProperties
    <3> QED BY <2>2, <3>1
  <2>6. ASSUME NEW c \in Tasks PROVE ~(In(c, front) /\ In(c, k))
    <3>1. In(c, k) => In(c, t)
      BY <2>3 DEF In
    <3> QED BY <2>2, <2>4, <3>1
  <2>7. /\ front \o k \in Seq(Item) /\ Alone(front \o k)
        /\ \A c : In(c, front \o k) <=> In(c, front) \/ In(c, k)
    BY <2>3, <2>4, <2>6, AloneJoined
  <2>8. front \o k # <<>>
    <3>1. Len(front \o k) = Len(front) + Len(k) /\ Len(k) \in Nat
      BY <2>3, <2>4, ConcatProperties, LenProperties
    <3>2. Len(front \o k) # 0
      BY <2>4, <3>1
    <3> QED BY <3>2
  <2> DEFINE w == front \o k
  <2>9. ASSUME NEW c \in Tasks PROVE In(c, w) <=> In(c, q) /\ c \notin gone
    <3>1. In(c, w) <=> c = q[1].from \/ In(c, k)
      BY <2>4, <2>7
    <3> HIDE DEF w
    <3>2. CASE c = q[1].from
      <4>1. In(c, q)
        BY <2>2, <3>2 DEF In
      <4>2. c \notin gone
        BY <1>4, <1>6, <1>8, <2>2, <3>2
      <4> QED BY <3>1, <3>2, <4>1, <4>2
    <3>3. CASE c # q[1].from
      <4>1. ASSUME In(c, k) PROVE In(c, q) /\ c \notin gone
        <5>1. PICK i \in 1 .. Len(t) : t[i].from = c /\ t[i] \in urgent
          BY <2>3, <4>1
        <5>2. i + 1 \in 1 .. Len(q) /\ q[i + 1].from = c /\ ~(q[i + 1].rank < rank)
          BY <1>3, <2>2, <2>5, <5>1
        <5> QED BY <1>4, <1>6, <5>2 DEF In
      <4>2. ASSUME In(c, q), c \notin gone PROVE In(c, k)
        <5>1. In(c, t)
          BY <2>2, <3>3, <4>2
        <5>2. PICK i \in 1 .. Len(t) : t[i].from = c
          BY <5>1 DEF In
        <5>3. i + 1 \in 1 .. Len(q) /\ i + 1 # 1 /\ q[i + 1].from = c /\ t[i] = q[i + 1]
          BY <2>2, <2>5, <5>2
        <5>4. ~(q[i + 1].rank < rank)
          BY <1>4, <4>2, <5>3
        <5>5. t[i] \in urgent
          BY <1>3, <5>3, <5>4
        <5> QED BY <2>3, <5>2, <5>5
      <4> QED BY <3>1, <3>3, <4>1, <4>2
    <3> QED BY <3>2, <3>3
  <2> QED BY <1>8, <1>40, <2>1, <2>7, <2>8, <2>9 DEF gone
<1> QED BY <1>7, <1>8

-----------------------------------------------------------------------------
\* A request is handled: its client is answered, or has a frame queued.
LEMMA RequestSettled ==
  ASSUME CanInv, msg.kind = "request", msg'.kind # "request", NEW gone, NEW stays \in BOOLEAN,
         calling' = Can!Answered(gone \cup IF stays THEN {} ELSE {msg.from}),
         \A c \in gone : In(c, q),
         \A c \in Tasks : In(c, q)' <=> (In(c, q) /\ c \notin gone) \/ (stays /\ c = msg.from)
  PROVE  CallsOK'
<1> DEFINE C == gone \cup IF stays THEN {} ELSE {msg.from}
<1>1. \A c \in Tasks : ~(In(c, q) /\ AtHand(c))
  BY DEF CanInv, CallsOK
<1>2. \A c \in Tasks : AtHand(c) <=> c = msg.from
  BY DEF AtHand
<1>3. \A c \in Tasks : ~AtHand(c)'
  BY DEF AtHand
<1>4. \A c \in Tasks : c = msg.from => ~In(c, q) /\ c \notin gone
  BY <1>1, <1>2
<1>5. \A c \in Tasks : c \in C <=> c \in gone \/ (~stays /\ c = msg.from)
  OBVIOUS
<1> HIDE DEF C
<1>6. \A c \in Tasks : In(c, q)' \/ AtHand(c)' <=> (In(c, q) \/ AtHand(c)) /\ c \notin C
  BY <1>2, <1>3, <1>4, <1>5
<1>7. calling' = Can!Answered(C)
  BY DEF C
<1> QED BY <1>3, <1>6, <1>7, Settled

\* The same when nothing else changes.
LEMMA RequestAnswered ==
  ASSUME CanInv, msg.kind = "request", msg'.kind # "request",
         calling' = Can!Answered({msg.from}),
         \A c \in Tasks : In(c, q)' <=> In(c, q)
  PROVE  CallsOK'
<1> DEFINE C == {msg.from}
<1>1. \A c \in Tasks : ~(In(c, q) /\ AtHand(c))
  BY DEF CanInv, CallsOK
<1>2. \A c \in Tasks : (AtHand(c) <=> c \in C) /\ ~AtHand(c)'
  BY DEF AtHand
<1>3. calling' = Can!Answered(C)
  OBVIOUS
<1> HIDE DEF C
<1>4. \A c \in Tasks : In(c, q)' \/ AtHand(c)' <=> (In(c, q) \/ AtHand(c)) /\ c \notin C
  BY <1>1, <1>2
<1> QED BY <1>2, <1>3, <1>4, Settled

LEMMA RequestQueued ==
  ASSUME CanInv, msg.kind = "request", msg'.kind # "request",
         calling' = calling,
         \A c \in Tasks : In(c, q)' <=> In(c, q) \/ c = msg.from
  PROVE  CallsOK'
<1>1. /\ calling \in [Tasks -> BOOLEAN]
      /\ \A c \in Tasks : calling[c] <=> In(c, q) \/ AtHand(c)
  BY DEF CanInv, CallsOK
<1>2. \A c \in Tasks : (AtHand(c) <=> c = msg.from) /\ ~AtHand(c)'
  BY DEF AtHand
<1> QED BY <1>1, <1>2 DEF CallsOK

\* The same when others are answered as well.
LEMMA RequestCleared ==
  ASSUME CanInv, msg.kind = "request", msg'.kind # "request", NEW gone,
         calling' = Can!Answered(gone \cup {msg.from}),
         \A c \in gone : In(c, q),
         \A c \in Tasks : In(c, q)' <=> In(c, q) /\ c \notin gone
  PROVE  CallsOK'
<1> DEFINE C == gone \cup {msg.from}
<1>1. \A c \in Tasks : ~(In(c, q) /\ AtHand(c))
  BY DEF CanInv, CallsOK
<1>2. \A c \in Tasks : (AtHand(c) <=> c = msg.from) /\ ~AtHand(c)'
  BY DEF AtHand
<1>3. calling' = Can!Answered(C)
  OBVIOUS
<1>4. \A c : c \in C <=> c \in gone \/ c = msg.from
  OBVIOUS
<1> HIDE DEF C
<1>5. \A c \in Tasks : In(c, q)' \/ AtHand(c)' <=> (In(c, q) \/ AtHand(c)) /\ c \notin C
  BY <1>1, <1>2, <1>4
<1> QED BY <1>2, <1>3, <1>5, Settled

LEMMA RefuseKeeps ==
  ASSUME CanInv, msg.kind = "request", Can!Refuse
  PROVE  CanInv'
<1>1. /\ calling' = Can!Answered({msg.from}) /\ msg' = Can!Nothing
      /\ UNCHANGED <<q, tx, status, nextToken>>
  BY DEF Can!Refuse, Can!Finish, Can!server, Can!batches
<1>2. msg'.kind # "request"
  BY <1>1 DEF Can!Nothing
<1>3. CallsOK'
  <2>1. \A c \in Tasks : In(c, q)' <=> In(c, q)
    BY <1>1 DEF In
  <2> QED BY <1>1, <1>2, <2>1, RequestAnswered
<1>4. QueueOK' /\ StatusOK'
  BY <1>1 DEF CanInv, QueueOK, StatusOK, Alone, Records
<1>5. MsgOK'
  BY <1>2 DEF MsgOK
<1> QED BY <1>3, <1>4, <1>5 DEF CanInv

LEMMA AskedFor ==
  ASSUME CanInv, NEW C, NEW choices, NEW cmds, Can!Asks(C, choices, cmds),
         C \subseteq Tasks
  PROVE  msg.kind = "request" /\ msg.from \in Tasks /\ cmds \in choices
BY DEF Can!Asks, Can!Handles, CanInv, MsgOK

LEMMA Choices ==
  ASSUME NEW cmds
  PROVE  /\ \A C \in SUBSET Can!Commands : cmds \in Can!One(C) => cmds \in Seq(Can!Commands) /\ Len(cmds) = 1
         /\ \A C \in SUBSET Can!Commands : cmds \in Can!Several(C) => cmds \in Seq(Can!Commands)
         /\ Can!Absolute \subseteq Can!Commands /\ Can!Control \subseteq Can!Commands
         /\ Speeds \subseteq Can!Commands /\ Turnouts \subseteq Can!Commands
<1>1. ASSUME NEW C \in SUBSET Can!Commands, cmds \in Can!One(C)
      PROVE  cmds \in Seq(Can!Commands) /\ Len(cmds) = 1
  <2>1. PICK d \in C : cmds = <<d>>
    BY <1>1 DEF Can!One
  <2>2. d \in Can!Commands
    OBVIOUS
  <2> QED BY <2>1, <2>2
<1>2. ASSUME NEW C \in SUBSET Can!Commands, cmds \in Can!Several(C)
      PROVE  cmds \in Seq(Can!Commands)
  <2>1. PICK k \in 1 .. BatchMax : cmds \in [1 .. k -> C]
    BY <1>2 DEF Can!Several
  <2>2. k \in Nat
    BY ComponentAssumptions DEF Can!CanAssumption
  <2>3. cmds \in [1 .. k -> Can!Commands]
    BY <2>1
  <2> QED BY <2>2, <2>3, SeqDef
<1> QED BY <1>1, <1>2 DEF Can!Absolute, Can!Control, Can!Commands

\* The state after a request whose frames are queued.
LEMMA QueuedRest ==
  ASSUME NEW newq, NEW cmds, Can!Queued(newq, cmds)
  PROVE  q' = newq /\ msg' = Can!Nothing /\ msg'.kind # "request" /\ tx' = tx /\ MsgOK'
BY DEF Can!Queued, Can!Finish, Can!Nothing, MsgOK

LEMMA ConfirmedKeeps ==
  ASSUME CanInv, NEW cmds, Can!HandleConfirmed(cmds)
  PROVE  CanInv'
<1>1. msg.kind = "request" /\ msg.from \in Tasks /\ cmds \in Can!One(Can!Absolute)
  BY AskedFor DEF Can!HandleConfirmed
<1>2. CASE Can!Refuse
  BY <1>1, <1>2, RefuseKeeps
<1>3. CASE ~Can!Refuse
  <2> DEFINE items == Can!Items(cmds, msg.from, 0, Can!Normal)
  <2>1. Can!Queued(q \o items, cmds) /\ UNCHANGED <<Can!batches, calling>>
    BY <1>3 DEF Can!HandleConfirmed
  <2>2. cmds \in Seq(Can!Commands) /\ Len(cmds) = 1
    BY <1>1, Choices
  <2>3. /\ items \in Seq(Item) /\ Alone(items)
        /\ \A c \in Tasks : In(c, items) <=> c = msg.from
    BY <1>1, <2>2, AloneItems DEF Can!Normal
  <2> HIDE DEF items
  <2>4. /\ q \in Seq(Item) /\ Alone(q) /\ (tx # "idle" => q # <<>>)
        /\ \A c \in Tasks : ~(In(c, q) /\ AtHand(c))
        /\ calling \in [Tasks -> BOOLEAN]
    BY DEF CanInv, QueueOK, CallsOK
  <2>5. \A c \in Tasks : ~(In(c, q) /\ In(c, items))
    BY <1>1, <2>3, <2>4 DEF AtHand
  <2> DEFINE w == q \o items
  <2>6. /\ w \in Seq(Item) /\ Alone(w)
        /\ \A c : In(c, w) <=> In(c, q) \/ In(c, items)
    BY <2>3, <2>4, <2>5, AloneJoined
  <2>7. tx # "idle" => w # <<>>
    BY <2>3, <2>4, ConcatEqualIffEmpty
  <2>8. q' = w /\ msg'.kind # "request" /\ tx' = tx /\ MsgOK'
    BY <2>1, QueuedRest
  <2> HIDE DEF w
  <2>9. CallsOK'
    <3>1. \A c \in Tasks : In(c, q)' <=> In(c, w)
      BY <2>8 DEF In
    <3>2. \A c \in Tasks : In(c, q)' <=> In(c, q) \/ c = msg.from
      BY <2>3, <2>6, <3>1
    <3> QED BY <1>1, <2>1, <2>8, <3>2, RequestQueued
  <2>10. QueueOK'
    BY <2>6, <2>7, <2>8 DEF QueueOK
  <2>11. StatusOK'
    BY <2>1 DEF CanInv, StatusOK, Can!batches
  <2> QED BY <2>8, <2>9, <2>10, <2>11 DEF CanInv
<1> QED BY <1>2, <1>3

\* A list with whatever a list has that is not empty is not empty.
LEMMA StillNotEmpty ==
  ASSUME NEW s \in Seq(Item), NEW t \in Seq(Item), s # <<>>, \A c : In(c, s) => In(c, t)
  PROVE  t # <<>>
<1>1. Len(s) \in Nat /\ Len(t) \in Nat /\ Len(s) # 0
  BY LenProperties, EmptySeq
<1>2. 1 \in 1 .. Len(s)
  BY <1>1
<1>3. In(s[1].from, s)
  BY <1>2 DEF In
<1>4. PICK i \in 1 .. Len(t) : t[i].from = s[1].from
  BY <1>3 DEF In
<1>5. Len(t) # 0
  BY <1>1, <1>4
<1> QED BY <1>5

\* Clearing the queue first, then queueing, or refusing after all.
LEMMA ControlKeeps ==
  ASSUME CanInv, NEW cmds, Can!HandleControl(cmds)
  PROVE  CanInv'
<1> DEFINE full == Len(q) >= QueueSize
           room == IF full THEN Can!Spared(Can!Urgent) ELSE q
           went == IF full THEN Can!Cancelled(Can!Urgent) ELSE {}
           gone == {x.from : x \in went}
           fits == hw /\ Len(room) < QueueSize
           items == Can!Items(cmds, msg.from, 0, Can!Urgent)
           new == Can!Inserted(items, Can!Urgent, room)
<1>1. msg.kind = "request" /\ msg.from \in Tasks /\ cmds \in Can!One(Can!Control)
  <2>1. Can!Asks({DispatcherTask}, Can!One(Can!Control), cmds) /\ {DispatcherTask} \subseteq Tasks
    BY ComponentAssumptions DEF Can!HandleControl, Can!CanAssumption
  <2> QED BY <2>1, AskedFor
<1>2. /\ status' = Can!WithFailed({x.token : x \in went} \ {0})
      /\ calling' = Can!Answered(gone \cup IF fits THEN {} ELSE {msg.from})
      /\ nextToken' = nextToken
      /\ \/ fits /\ Can!Queued(new, cmds)
         \/ /\ ~fits /\ q' = room /\ Can!Finish("receive")
            /\ tx' = tx
  BY DEF Can!HandleControl
<1>3. /\ room \in Seq(Item) /\ Alone(room) /\ (tx # "idle" => room # <<>>)
      /\ \A c \in Tasks : In(c, room) <=> In(c, q) /\ c \notin gone
      /\ \A c \in gone : In(c, q)
  <2>1. CASE full
    <3>1. room = Can!Spared(Can!Urgent) /\ gone = {x.from : x \in Can!Cancelled(Can!Urgent)}
      BY <2>1
    <3>2. Can!Urgent \in Nat
      BY DEF Can!Urgent
    <3> HIDE DEF room, gone
    <3> QED BY <3>1, <3>2, SparedRest
  <2>2. CASE ~full
    <3>1. room = q /\ gone = {}
      BY <2>2
    <3> HIDE DEF room, gone
    <3> QED BY <3>1 DEF CanInv, QueueOK
  <2> QED BY <2>1, <2>2
<1>4. StatusOK'
  <2>1. StatusOK
    BY DEF CanInv
  <2> QED BY <1>2, <2>1, FailedRecords DEF StatusOK
<1> HIDE DEF full, room, went, gone
<1>5. \A c \in Tasks : ~(In(c, q) /\ AtHand(c))
  BY DEF CanInv, CallsOK
<1>6. CASE fits
  <2>1. Can!Queued(new, cmds) /\ calling' = Can!Answered(gone)
    <3>1. gone \cup {} = gone
      OBVIOUS
    <3> QED BY <1>2, <1>6, <3>1
  <2>2. cmds \in Seq(Can!Commands) /\ Len(cmds) = 1
    BY <1>1, Choices
  <2>3. /\ items \in Seq(Item) /\ Alone(items)
        /\ \A c \in Tasks : In(c, items) <=> c = msg.from
    BY <1>1, <2>2, AloneItems DEF Can!Urgent
  <2>4. \A c \in Tasks : ~(In(c, room) /\ In(c, items))
    BY <1>1, <1>3, <1>5, <2>3 DEF AtHand
  <2> HIDE DEF items
  <2>5. /\ new \in Seq(Item) /\ Alone(new)
        /\ \A c : In(c, new) <=> In(c, room) \/ In(c, items)
    BY <1>3, <2>3, <2>4, AloneInserted DEF Can!Urgent
  <2>6. q' = new /\ msg'.kind # "request" /\ tx' = tx /\ MsgOK'
    BY <2>1, QueuedRest
  <2> HIDE DEF new
  <2>7. tx # "idle" => new # <<>>
    BY <1>3, <2>5, StillNotEmpty
  <2>8. CallsOK'
    <3>1. \A c \in Tasks : In(c, q)' <=> In(c, new)
      BY <2>6 DEF In
    <3>2. \A c \in Tasks : In(c, q)' <=> (In(c, q) /\ c \notin gone) \/ c = msg.from
      BY <1>3, <2>3, <2>5, <3>1
    <3>3. \A c \in Tasks : (AtHand(c) <=> c = msg.from) /\ ~AtHand(c)'
      BY <1>1, <2>6 DEF AtHand
    <3>4. \A c \in Tasks : In(c, q)' \/ AtHand(c)' <=> (In(c, q) \/ AtHand(c)) /\ c \notin gone
      BY <1>3, <1>5, <3>2, <3>3
    <3> QED BY <2>1, <3>3, <3>4, Settled
  <2>9. QueueOK'
    BY <2>5, <2>6, <2>7 DEF QueueOK
  <2> QED BY <1>4, <2>6, <2>8, <2>9 DEF CanInv
<1>7. CASE ~fits
  <2>1. /\ calling' = Can!Answered(gone \cup {msg.from})
        /\ q' = room /\ msg' = Can!Nothing /\ tx' = tx
    BY <1>2, <1>7 DEF Can!Finish
  <2>2. msg'.kind # "request" /\ MsgOK'
    BY <2>1 DEF Can!Nothing, MsgOK
  <2>3. \A c \in Tasks : In(c, q)' <=> In(c, q) /\ c \notin gone
    <3>1. \A c \in Tasks : In(c, q)' <=> In(c, room)
      BY <2>1 DEF In
    <3> QED BY <1>3, <3>1
  <2>4. CallsOK'
    BY <1>1, <1>3, <2>1, <2>2, <2>3, RequestCleared
  <2>5. QueueOK'
    BY <1>3, <2>1 DEF QueueOK
  <2> QED BY <1>4, <2>2, <2>4, <2>5 DEF CanInv
<1> QED BY <1>6, <1>7

\* Frames of a batch are nobody's.
LEMMA BatchItems ==
  ASSUME CanInv, NEW cmds \in Seq(Can!Commands), NEW rank \in Nat
  PROVE  LET items == Can!Items(cmds, Nobody, nextToken, rank)
         IN  items \in Seq(Item) /\ Alone(items) /\ \A c \in Tasks : ~In(c, items)
<1>1. nextToken \in Nat
  BY DEF CanInv, StatusOK
<1>2. \A c \in Tasks : c # Nobody
  BY ComponentAssumptions DEF Can!CanAssumption
<1>3. /\ Can!Items(cmds, Nobody, nextToken, rank) \in Seq(Item)
      /\ Alone(Can!Items(cmds, Nobody, nextToken, rank))
      /\ \A c \in Tasks : In(c, Can!Items(cmds, Nobody, nextToken, rank)) <=> c = Nobody
  BY <1>1, AloneItems
<1> QED BY <1>2, <1>3

LEMMA BatchKeeps ==
  ASSUME CanInv, NEW cmds, Can!HandleBatch(cmds)
  PROVE  CanInv'
<1>1. msg.kind = "request" /\ msg.from \in Tasks /\ cmds \in Can!Several(Speeds) \cup Can!Several(Turnouts)
  <2>1. /\ Can!Asks({DispatcherTask}, Can!Several(Speeds) \cup Can!Several(Turnouts), cmds)
        /\ {DispatcherTask} \subseteq Tasks
    BY ComponentAssumptions DEF Can!HandleBatch, Can!CanAssumption
  <2> QED BY <2>1, AskedFor
<1>2. CASE Can!Refuse
  BY <1>1, <1>2, RefuseKeeps
<1>3. CASE ~Can!Refuse
  <2> DEFINE items == Can!Items(cmds, Nobody, nextToken, Can!Normal)
             w == q \o items
  <2>1. Can!Allocate(status, Len(cmds)) /\ Can!Queued(w, cmds) /\ calling' = Can!Answered({msg.from})
    BY <1>3 DEF Can!HandleBatch
  <2>2. cmds \in Seq(Can!Commands)
    BY <1>1, Choices
  <2>3. items \in Seq(Item) /\ Alone(items) /\ \A c \in Tasks : ~In(c, items)
    BY <2>2, BatchItems DEF Can!Normal
  <2> HIDE DEF items
  <2>4. q \in Seq(Item) /\ Alone(q) /\ (tx # "idle" => q # <<>>)
    BY DEF CanInv, QueueOK
  <2>5. /\ w \in Seq(Item) /\ Alone(w)
        /\ \A c : In(c, w) <=> In(c, q) \/ In(c, items)
    BY <2>3, <2>4, AloneJoined
  <2>6. tx # "idle" => w # <<>>
    BY <2>4, <2>5, StillNotEmpty
  <2>7. q' = w /\ msg'.kind # "request" /\ tx' = tx /\ MsgOK'
    BY <2>1, QueuedRest
  <2> HIDE DEF w
  <2>8. CallsOK'
    <3>1. \A c \in Tasks : In(c, q)' <=> In(c, w)
      BY <2>7 DEF In
    <3>2. \A c \in Tasks : In(c, q)' <=> In(c, q)
      BY <2>3, <2>5, <3>1
    <3> QED BY <1>1, <2>1, <2>7, <3>2, RequestAnswered
  <2>9. QueueOK'
    BY <2>5, <2>6, <2>7 DEF QueueOK
  <2>10. StatusOK'
    <3>1. StatusOK /\ status \in Records /\ Len(cmds) \in Nat
      BY <2>2, LenProperties DEF CanInv, StatusOK
    <3> QED BY <2>1, <3>1, AllocatedRecords
  <2> QED BY <2>7, <2>8, <2>9, <2>10 DEF CanInv
<1> QED BY <1>2, <1>3

\* Whatever is less urgent than the stop is cleared.
LEMMA EmergencyKeeps ==
  ASSUME CanInv, NEW cmds, Can!HandleEmergency(cmds)
  PROVE  CanInv'
<1> DEFINE room == Can!Spared(Can!Stop)
           went == Can!Cancelled(Can!Stop)
           gone == {x.from : x \in went}
           remain == Can!WithFailed({x.token : x \in went} \ {0})
           items == Can!Items(cmds, Nobody, nextToken, Can!Stop)
           new == Can!Inserted(items, Can!Stop, room)
<1>1. msg.kind = "request" /\ msg.from \in Tasks /\ cmds \in Can!Several(Speeds)
  <2>1. /\ Can!Asks({DispatcherTask}, Can!Several(Speeds), cmds)
        /\ {DispatcherTask} \subseteq Tasks
    BY ComponentAssumptions DEF Can!HandleEmergency, Can!CanAssumption
  <2> QED BY <2>1, AskedFor
<1>2. CASE Can!Refuse
  BY <1>1, <1>2, RefuseKeeps
<1>3. CASE ~Can!Refuse
  <2>1. /\ calling' = Can!Answered(gone \cup {msg.from})
        /\ \/ Can!Allocate(remain, Len(cmds)) /\ Can!Queued(new, cmds)
           \/ /\ status' = remain /\ q' = room /\ nextToken' = nextToken /\ tx' = tx
              /\ msg' = Can!Nothing
    BY <1>3 DEF Can!HandleEmergency, Can!Finish
  <2>2. cmds \in Seq(Can!Commands)
    BY <1>1, Choices
  <2>3. items \in Seq(Item) /\ Alone(items) /\ \A c \in Tasks : ~In(c, items)
    BY <2>2, BatchItems DEF Can!Stop
  <2>4. Can!Stop \in Nat
    BY DEF Can!Stop
  <2>5. /\ room \in Seq(Item) /\ Alone(room) /\ (tx # "idle" => room # <<>>)
        /\ \A c \in Tasks : In(c, room) <=> In(c, q) /\ c \notin gone
        /\ \A c \in gone : In(c, q)
    BY <2>4, SparedRest
  <2>6. remain \in Records
    BY FailedRecords DEF CanInv
  <2> HIDE DEF items, room, went, gone, remain
  <2>7. /\ new \in Seq(Item) /\ Alone(new)
        /\ \A c : In(c, new) <=> In(c, room) \/ In(c, items)
    BY <2>3, <2>4, <2>5, AloneInserted
  <2> HIDE DEF new
  <2>8. CASE Can!Allocate(remain, Len(cmds)) /\ Can!Queued(new, cmds)
    <3>1. q' = new /\ msg'.kind # "request" /\ tx' = tx /\ MsgOK'
      BY <2>8, QueuedRest
    <3>2. CallsOK'
      <4>1. \A c \in Tasks : In(c, q)' <=> In(c, new)
        BY <3>1 DEF In
      <4>2. \A c \in Tasks : In(c, q)' <=> In(c, q) /\ c \notin gone
        BY <2>3, <2>5, <2>7, <4>1
      <4> QED BY <1>1, <2>1, <2>5, <3>1, <4>2, RequestCleared
    <3>3. tx # "idle" => new # <<>>
      <4>1. CASE tx # "idle"
        BY <2>5, <2>7, <4>1, StillNotEmpty
      <4> QED BY <4>1
    <3>4. StatusOK'
      <4>1. StatusOK /\ Len(cmds) \in Nat
        BY <2>2, LenProperties DEF CanInv
      <4> QED BY <2>6, <2>8, <4>1, AllocatedRecords
    <3>5. QueueOK'
      BY <2>7, <3>1, <3>3 DEF QueueOK
    <3> QED BY <3>1, <3>2, <3>4, <3>5 DEF CanInv
  <2>9. CASE /\ status' = remain /\ q' = room /\ nextToken' = nextToken /\ tx' = tx
             /\ msg' = Can!Nothing
    <3>1. msg'.kind # "request" /\ MsgOK'
      BY <2>9 DEF Can!Nothing, MsgOK
    <3>2. CallsOK'
      <4>1. \A c \in Tasks : In(c, q)' <=> In(c, room)
        BY <2>9 DEF In
      <4>2. \A c \in Tasks : In(c, q)' <=> In(c, q) /\ c \notin gone
        BY <2>5, <4>1
      <4> QED BY <1>1, <2>1, <2>5, <3>1, <4>2, RequestCleared
    <3>3. StatusOK'
      BY <2>6, <2>9 DEF CanInv, StatusOK
    <3>4. QueueOK'
      BY <2>5, <2>9 DEF QueueOK
    <3> QED BY <3>1, <3>2, <3>3, <3>4 DEF CanInv
  <2> QED BY <2>1, <2>8, <2>9
<1> QED BY <1>2, <1>3

-----------------------------------------------------------------------------
\* Only the batch's own frames go, and they are nobody's.
LEMMA CancelKeeps ==
  ASSUME CanInv, NEW t, Can!HandleCancel(t)
  PROVE  CanInv'
<1>1. msg.kind = "request" /\ msg.from \in Tasks
  BY DEF Can!HandleCancel, Can!Handles, CanInv, MsgOK
<1>2. CASE Can!Refuse
  BY <1>1, <1>2, RefuseKeeps
<1>3. CASE ~Can!Refuse
  <2> DEFINE gone == {x \in Can!Members(q) : x.token = t}
             rest == Without(q, gone)
             heads == q # <<>> /\ Head(q).token = t
  <2>1. /\ Can!Pending(t)
        /\ tx' = IF heads THEN "idle" ELSE tx
        /\ status' = Can!WithFailed({t})
        /\ q' = rest
        /\ calling' = Can!Answered({msg.from})
        /\ msg' = Can!Nothing /\ nextToken' = nextToken
    BY <1>3, CanLists DEF Can!HandleCancel, Can!Finish
  <2>2. q \in Seq(Item) /\ Alone(q) /\ (tx # "idle" => q # <<>>)
    BY DEF CanInv, QueueOK
  <2>3. t # 0
    BY <2>1 DEF Can!Pending, CanInv, StatusOK, Records
  <2>4. \A c \in Tasks : c # Nobody
    BY ComponentAssumptions DEF Can!CanAssumption
  <2>5. \A i \in 1 .. Len(q) : q[i] \in Item /\ q[i] \in Members(q) /\ (q[i] \in gone <=> q[i].token = t)
    <3>1. \A i \in 1 .. Len(q) : q[i] \in Item /\ q[i] \in Members(q)
      BY <2>2, ElementOfSeq, MembersPos
    <3>2. \A i \in 1 .. Len(q) : q[i] \in Can!Members(q)
      BY <3>1, CanLists
    <3> QED BY <3>1, <3>2
  <2>6. /\ rest \in Seq(Item) /\ Alone(rest)
        /\ \A c : In(c, rest) <=> \E i \in 1 .. Len(q) : q[i].from = c /\ q[i] \in Members(q) \ gone
    BY <2>2, AloneKept DEF Without
  <2> HIDE DEF gone, rest
  <2>7. \A i \in 1 .. Len(q) : q[i].from \in Tasks => q[i] \notin gone
    BY <2>3, <2>4, <2>5 DEF Item
  <2>8. \A c \in Tasks : In(c, rest) <=> In(c, q)
    BY <2>5, <2>6, <2>7 DEF In
  <2>9. msg'.kind # "request" /\ MsgOK'
    BY <2>1 DEF Can!Nothing, MsgOK
  <2>10. CallsOK'
    <3>1. \A c \in Tasks : In(c, q)' <=> In(c, q)
      BY <2>1, <2>8 DEF In
    <3> QED BY <1>1, <2>1, <2>9, <3>1, RequestAnswered
  <2>11. ASSUME tx' # "idle" PROVE rest # <<>>
    <3>1. tx # "idle" /\ ~heads
      BY <2>1, <2>11
    <3>2. q # <<>> /\ Head(q).token # t
      BY <2>2, <3>1
    <3>3. Head(q) = q[1] /\ 1 \in 1 .. Len(q)
      BY <2>2, <3>2, AloneTail
    <3>4. In(q[1].from, rest)
      BY <2>5, <2>6, <3>2, <3>3
    <3>5. PICK i \in 1 .. Len(rest) : rest[i].from = q[1].from
      BY <3>4 DEF In
    <3>6. Len(rest) # 0
      BY <2>6, <3>5, LenProperties
    <3> QED BY <3>6
  <2>12. QueueOK'
    BY <2>1, <2>6, <2>11 DEF QueueOK
  <2>13. StatusOK'
    BY <2>1, FailedRecords DEF CanInv, StatusOK
  <2> QED BY <2>9, <2>10, <2>12, <2>13 DEF CanInv
<1> QED BY <1>2, <1>3

LEMMA RegisterKeeps ==
  ASSUME CanInv, Can!HandleRegister
  PROVE  CanInv'
<1>1. msg.kind = "request"
  BY DEF Can!HandleRegister, Can!Handles
<1>2. /\ calling' = Can!Answered({msg.from}) /\ msg' = Can!Nothing
      /\ UNCHANGED <<q, tx, status, nextToken>>
  BY DEF Can!HandleRegister, Can!Finish, Can!server, Can!batches
<1>3. msg'.kind # "request" /\ MsgOK'
  BY <1>2 DEF Can!Nothing, MsgOK
<1>4. CallsOK'
  <2>1. \A c \in Tasks : In(c, q)' <=> In(c, q)
    BY <1>2 DEF In
  <2> QED BY <1>1, <1>2, <1>3, <2>1, RequestAnswered
<1>5. QueueOK' /\ StatusOK'
  BY <1>2 DEF CanInv, QueueOK, StatusOK, Alone, Records
<1> QED BY <1>3, <1>4, <1>5 DEF CanInv

\* The answer comes: the head's sender is told.
LEMMA ConfirmsKeeps ==
  ASSUME CanInv, Can!FrameConfirms
  PROVE  CanInv'
<1>1. /\ msg.kind = "frame" /\ tx = "waiting"
      /\ calling' = Can!Answered({Head(q).from})
      /\ status' = Can!WithConfirmed(Head(q).token)
      /\ q' = Tail(q) /\ tx' = "idle" /\ msg' = Can!Nothing /\ nextToken' = nextToken
  BY DEF Can!FrameConfirms, Can!Handles, Can!IsAnswer, Can!Finish
<1>2. q \in Seq(Item) /\ Alone(q) /\ q # <<>>
  BY <1>1 DEF CanInv, QueueOK
<1>3. /\ Tail(q) \in Seq(Item) /\ Alone(Tail(q))
      /\ \A c \in Tasks : In(c, Tail(q)) <=> In(c, q) /\ c # Head(q).from
  BY <1>2, AloneTail
<1>4. msg'.kind # "request" /\ MsgOK'
  BY <1>1 DEF Can!Nothing, MsgOK
<1>5. \A c \in Tasks : ~AtHand(c) /\ ~AtHand(c)'
  BY <1>1, <1>4 DEF AtHand
<1>6. \A c \in Tasks : In(c, q)' <=> In(c, q) /\ c \notin {Head(q).from}
  BY <1>1, <1>3 DEF In
<1>7. CallsOK'
  BY <1>1, <1>5, <1>6, Settled
<1>8. QueueOK'
  BY <1>1, <1>3 DEF QueueOK
<1>9. StatusOK'
  BY <1>1, ConfirmedRecords DEF CanInv, StatusOK
<1> QED BY <1>4, <1>7, <1>8, <1>9 DEF CanInv

\* A request comes in: its client waits, and has nothing queued.
LEMMA TakeRequestKeeps ==
  ASSUME CanInv, NEW c \in Tasks, Can!TakeRequest(c)
  PROVE  CanInv'
<1>1. /\ pc = "receive" /\ ~calling[c] /\ calling' = [calling EXCEPT ![c] = TRUE]
      /\ msg' = [kind |-> "request", from |-> c] /\ pc' = "progress"
      /\ UNCHANGED <<q, tx, status, nextToken>>
  BY DEF Can!TakeRequest, Can!Take, Can!server, Can!batches
<1>2. \A d \in Tasks : ~AtHand(d)
  BY <1>1 DEF CanInv, MsgOK, AtHand
<1>3. \A d \in Tasks : AtHand(d)' <=> d = c
  BY <1>1 DEF AtHand
<1>4. \A d \in Tasks : In(d, q)' <=> In(d, q)
  BY <1>1 DEF In
<1>5. calling \in [Tasks -> BOOLEAN] /\ \A d \in Tasks : calling[d] <=> In(d, q)
  BY <1>2 DEF CanInv, CallsOK
<1>6. CallsOK'
  BY <1>1, <1>3, <1>4, <1>5 DEF CallsOK
<1>7. QueueOK' /\ StatusOK'
  BY <1>1 DEF CanInv, QueueOK, StatusOK, Alone, Records
<1>8. MsgOK'
  BY <1>1 DEF MsgOK
<1> QED BY <1>6, <1>7, <1>8 DEF CanInv

LEMMA NoticesKeep ==
  ASSUME CanInv, Can!Notifiers
  PROVE  CanInv'
<1>1. ASSUME NEW m, Can!Take(m), m.kind # "request", UNCHANGED calling PROVE CanInv'
  <2>1. /\ pc = "receive" /\ msg' = m /\ pc' = "progress"
        /\ UNCHANGED <<q, tx, status, nextToken>>
    BY <1>1 DEF Can!Take, Can!server, Can!batches
  <2>2. msg.kind # "request" /\ (tx # "idle" => q # <<>>)
    BY <2>1 DEF CanInv, MsgOK, QueueOK
  <2> QED BY <1>1, <2>1, <2>2, QuietKeeps
<1>2. ASSUME NEW kind, Can!TakeNotice(kind), kind # "request" PROVE CanInv'
  BY <1>1, <1>2 DEF Can!TakeNotice
<1>3. CASE Can!TakePoll \/ Can!TakeQuery \/ Can!TakeHwFailed
  BY <1>2, <1>3 DEF Can!TakePoll, Can!TakeQuery, Can!TakeHwFailed
<1>4. CASE Can!TakeFrame
  BY <1>1, <1>4 DEF Can!TakeFrame
<1> QED BY <1>3, <1>4 DEF Can!Notifiers

\* The controller's steps, and the server's that only watch them.
LEMMA WatchKeeps ==
  ASSUME CanInv,
         \/ Can!Transmit \/ Can!ProgressQuiet \/ Can!ProgressPending \/ Can!ProgressSent
         \/ Can!StartSend \/ Can!StartBusy \/ Can!FrameIgnored
  PROVE  CanInv'
<1>1. /\ tx # "idle" => q # <<>>
      /\ pc = "receive" => msg.kind # "request"
  BY DEF CanInv, QueueOK, MsgOK
<1>2. CASE Can!Transmit
  <2>1. UNCHANGED <<pc, msg, q, tx, calling, status, nextToken>>
    BY <1>2 DEF Can!Transmit, Can!server, Can!batches
  <2> QED BY <1>1, <2>1, QuietKeeps
<1>3. CASE Can!ProgressQuiet \/ Can!ProgressPending
  <2>1. UNCHANGED <<msg, q, tx, calling, status, nextToken>> /\ pc' = "start"
    BY <1>3 DEF Can!ProgressQuiet, Can!ProgressPending, Can!batches
  <2> QED BY <1>1, <2>1, QuietKeeps
<1>4. CASE Can!ProgressSent
  <2>1. UNCHANGED <<msg, q, calling, status, nextToken>> /\ pc' = "start" /\ tx = "active"
    BY <1>4 DEF Can!ProgressSent, Can!batches
  <2> QED BY <1>1, <2>1, QuietKeeps
<1>5. CASE Can!StartSend \/ Can!StartBusy
  <2>1. /\ UNCHANGED <<q, calling, status, nextToken>> /\ q # <<>>
        /\ Can!GoesOn
    BY <1>5 DEF Can!StartSend, Can!StartBusy, Can!MayStart, Can!batches
  <2> QED BY <2>1, QuietKeeps DEF Can!GoesOn, Can!Nothing
<1>6. CASE Can!FrameIgnored
  <2>1. /\ UNCHANGED <<q, tx, calling, status, nextToken>> /\ msg' = Can!Nothing /\ msg.kind = "frame"
    BY <1>6 DEF Can!FrameIgnored, Can!Handles, Can!Finish, Can!batches
  <2> QED BY <1>1, <2>1, QuietKeeps DEF Can!Nothing
<1> QED BY <1>2, <1>3, <1>4, <1>5, <1>6

\* What fails, fails for whoever waits for it.
LEMMA FailuresKeep ==
  ASSUME CanInv,
         \/ Can!ProgressNoAnswer \/ Can!ProgressFailed \/ Can!StartFails
         \/ Can!StartDone \/ Can!HandleHwFailed
  PROVE  CanInv'
<1>1. /\ tx # "idle" => q # <<>>
      /\ pc = "receive" => msg.kind # "request"
  BY DEF CanInv, QueueOK, MsgOK
<1>2. CASE Can!ProgressNoAnswer \/ Can!ProgressFailed
  <2>1. Can!FailHead /\ UNCHANGED <<msg, nextToken>> /\ tx' = "idle" /\ pc' = "start" /\ tx # "idle"
    BY <1>2 DEF Can!ProgressNoAnswer, Can!ProgressFailed
  <2> QED BY <1>1, <2>1, FailHeadAnswers
<1>3. CASE Can!StartFails
  <2>1. Can!FailHead /\ UNCHANGED <<msg, pc, tx, nextToken>> /\ pc = "start" /\ q # <<>> /\ tx = "idle"
    BY <1>3 DEF Can!StartFails, Can!MayStart
  <2> QED BY <1>1, <2>1, FailHeadAnswers
<1>4. CASE Can!StartDone
  <2>1. /\ nextToken' = nextToken /\ Can!GoesOn
        /\ IF hw THEN UNCHANGED <<calling, status, q, tx>> ELSE Can!FailAll
    BY <1>4 DEF Can!StartDone
  <2>2. /\ msg' = msg \/ (msg.kind # "request" /\ msg'.kind # "request")
        /\ pc' = "receive" => msg'.kind # "request"
    BY <2>1 DEF Can!GoesOn, Can!Nothing
  <2>3. CASE hw
    BY <1>1, <2>1, <2>2, <2>3, QuietKeeps
  <2>4. CASE ~hw
    BY <2>1, <2>2, <2>4, FailAllAnswers
  <2> QED BY <2>3, <2>4
<1>5. CASE Can!HandleHwFailed
  <2>1. Can!FailAll /\ msg' = Can!Nothing /\ msg.kind = "hw failed" /\ nextToken' = nextToken
    BY <1>5 DEF Can!HandleHwFailed, Can!Handles, Can!Finish
  <2> QED BY <2>1, FailAllAnswers DEF Can!Nothing
<1> QED BY <1>2, <1>3, <1>4, <1>5

LEMMA CanStep ==
  ASSUME CanInv, [Can!Next]_(Can!vars)
  PROVE  CanInv'
<1>1. CASE Can!Transmit
  BY <1>1, WatchKeeps
<1>2. CASE Can!Server
  <2>1. CASE \E cmds \in Can!Several(Can!Commands) :
               \/ Can!HandleConfirmed(cmds) \/ Can!HandleControl(cmds)
               \/ Can!HandleBatch(cmds) \/ Can!HandleEmergency(cmds)
    BY <2>1, ConfirmedKeeps, ControlKeeps, BatchKeeps, EmergencyKeeps
  <2>2. CASE \E t \in {status[i].token : i \in Can!Slots} : Can!HandleCancel(t)
    BY <2>2, CancelKeeps
  <2>3. CASE \/ Can!ProgressQuiet \/ Can!ProgressPending \/ Can!ProgressSent
             \/ Can!StartSend \/ Can!StartBusy \/ Can!FrameIgnored
    BY <2>3, WatchKeeps
  <2>4. CASE \/ Can!ProgressNoAnswer \/ Can!ProgressFailed \/ Can!StartFails
             \/ Can!StartDone \/ Can!HandleHwFailed
    BY <2>4, FailuresKeep
  <2>5. CASE Can!FrameConfirms
    BY <2>5, ConfirmsKeeps
  <2>6. CASE Can!HandleRegister
    BY <2>6, RegisterKeeps
  <2> QED BY <1>2, <2>1, <2>2, <2>3, <2>4, <2>5, <2>6 DEF Can!Server
<1>3. CASE Can!Notifiers
  BY <1>3, NoticesKeep
<1>4. CASE \E c \in Tasks : Can!TakeRequest(c)
  BY <1>4, TakeRequestKeeps
<1>5. CASE UNCHANGED Can!vars
  <2>1. UNCHANGED <<pc, msg, q, tx, calling, status, nextToken>>
    BY <1>5 DEF Can!vars, Can!server, Can!batches
  <2> QED BY <2>1, QuietKeeps DEF CanInv, QueueOK, MsgOK
<1> QED BY <1>1, <1>2, <1>3, <1>4, <1>5 DEF Can!Next

LEMMA CanInit ==
  ASSUME Can!Init
  PROVE  CanInv
<1>1. /\ q = <<>> /\ tx = "idle" /\ msg = Can!Nothing /\ nextToken = 1
      /\ status = [i \in Can!Slots |-> Can!NoRecord]
      /\ calling = [c \in Tasks |-> FALSE]
  BY DEF Can!Init
<1>2. QueueOK
  BY <1>1 DEF QueueOK, Alone
<1>3. MsgOK
  BY <1>1 DEF MsgOK, Can!Nothing
<1>4. Can!NoRecord \in Record /\ Can!NoRecord.state # "pending"
  BY DEF Can!NoRecord, Record
<1>5. StatusOK
  BY <1>1, <1>4 DEF StatusOK, Records
<1>6. \A c \in Tasks : ~In(c, q) /\ ~AtHand(c)
  BY <1>1 DEF In, AtHand, Can!Nothing
<1>7. CallsOK
  BY <1>1, <1>6 DEF CallsOK
<1> QED BY <1>2, <1>3, <1>5, <1>7 DEF CanInv

LEMMA CanCounts ==
  ASSUME CanInv
  PROVE  Can!NobodyForgotten
<1> SUFFICES ASSUME pc = "receive", NEW c \in Tasks
             PROVE  Can!Cardinality(Can!InQueue(c)) = (IF calling[c] THEN 1 ELSE 0)
  BY DEF Can!NobodyForgotten
<1> DEFINE S == Can!InQueue(c)
<1>1. q \in Seq(Item) /\ Alone(q) /\ (calling[c] <=> In(c, q)) /\ calling[c] \in BOOLEAN
  BY DEF CanInv, QueueOK, MsgOK, CallsOK, AtHand
<1>2. S = {i \in 1 .. Len(q) : q[i].from = c} /\ Len(q) \in Nat
  BY <1>1, LenProperties DEF Can!InQueue
<1>3. c # Nobody
  BY ComponentAssumptions DEF Can!CanAssumption
<1>4. Can!Cardinality(S) = Cardinality(S)
  BY CanLists
<1>5. CASE calling[c]
  <2>1. PICK i \in 1 .. Len(q) : q[i].from = c
    BY <1>1, <1>5 DEF In
  <2>2. \A j \in 1 .. Len(q) : q[j].from = c => j = i
    <3> SUFFICES ASSUME NEW j \in 1 .. Len(q), q[j].from = c PROVE j = i
      OBVIOUS
    <3>1. i < j \/ j < i \/ i = j
      BY <1>2
    <3> QED BY <1>1, <1>3, <2>1, <3>1 DEF Alone
  <2>3. S = {i}
    BY <1>2, <2>1, <2>2
  <2> HIDE DEF S
  <2>4. Cardinality(S) = 1
    BY <2>3, FS_Singleton
  <2> QED BY <1>4, <1>5, <2>4 DEF S
<1>6. CASE ~calling[c]
  <2>1. S = {}
    BY <1>1, <1>2, <1>6 DEF In
  <2> HIDE DEF S
  <2>2. Cardinality(S) = 0
    BY <2>1, FS_EmptySet
  <2> QED BY <1>4, <1>6, <2>2 DEF S
<1> QED BY <1>5, <1>6

\* Between two messages a client waits exactly if one frame of its is queued.
THEOREM CanServes == Can!Spec => []Can!NobodyForgotten
<1>1. Can!Init => CanInv
  BY CanInit
<1>2. CanInv /\ [Can!Next]_(Can!vars) => CanInv'
  BY CanStep
<1>3. CanInv => Can!NobodyForgotten
  BY CanCounts
<1> QED BY <1>1, <1>2, <1>3, PTL DEF Can!Spec

-----------------------------------------------------------------------------
\* Whatever these servers are asked, in whatever order, nobody of their
\* clients is forgotten or answered twice, and no byte and no name is lost.
THEOREM ServersServe == Console!Spec /\ Directory!Spec /\ Can!Spec => []ClientsServed
BY ConsoleServes, LookupIsLatest, CanServes, PTL DEF ClientsServed

-----------------------------------------------------------------------------
(* The CAN server's queue as a line: what is cut out of it, and where      *)
(* something is put in.                                                    *)

\* r is what is left of s at the places of K; h says which places.
Cut(r, s, K, h) ==
  /\ h \in [1 .. Len(r) -> 1 .. Len(s)]
  /\ \A i, j \in 1 .. Len(r) : i < j => h[i] < h[j]
  /\ \A i \in 1 .. Len(r) : r[i] = s[h[i]] /\ h[i] \in K
  /\ \A k \in K : \E i \in 1 .. Len(r) : h[i] = k

LEMMA KeptCut ==
  ASSUME NEW S, NEW s \in Seq(S), NEW T
  PROVE  \E h : Cut(Kept(s, T), s, {k \in 1 .. Len(s) : s[k] \in T}, h)
<1>1. Len(s) \in Nat /\ DOMAIN s = 1 .. Len(s) /\ \A i \in 1 .. Len(s) : s[i] \in S
  BY LenProperties, ElementOfSeq
<1> DEFINE g == CHOOSE h : Keeps(h, s, T, Len(s))
<1>2. Keeps(g, s, T, Len(s))
  BY <1>1, KeepsExists
<1>3. Kept(s, T) = g[Len(s)]
  BY DEF Kept, Keeps
<1> HIDE DEF g
<1> DEFINE Spots(a, n, h) ==
      /\ h \in [1 .. Len(a) -> 1 .. n]
      /\ \A i, j \in 1 .. Len(a) : i < j => h[i] < h[j]
      /\ \A i \in 1 .. Len(a) : a[i] = s[h[i]] /\ s[h[i]] \in T
      /\ \A k \in 1 .. n : s[k] \in T => \E i \in 1 .. Len(a) : h[i] = k
    Placed(n) == g[n] \in Seq(S) /\ \E h : Spots(g[n], n, h)
    P == {n \in Nat : n <= Len(s) => Placed(n)}
<1>4. 0 \in P
  <2>1. g[0] = <<>>
    BY <1>1, <1>2 DEF Keeps
  <2>2. g[0] \in Seq(S) /\ Len(g[0]) = 0
    BY <2>1
  <2>3. Spots(g[0], 0, [i \in 1 .. 0 |-> 0])
    BY <2>2
  <2> QED BY <2>2, <2>3
<1>5. ASSUME NEW n \in Nat, n \in P PROVE n + 1 \in P
  <2> HIDE DEF Placed
  <2>a. (n <= Len(s) => Placed(n)) /\ n + 1 \in Nat
    BY <1>5
  <2> SUFFICES ASSUME n + 1 <= Len(s) PROVE Placed(n + 1)
    OBVIOUS
  <2>b. Placed(n)
    BY <1>1, <2>a
  <2> USE DEF Placed
  <2> DEFINE a == g[n + 1]
             b == g[n]
             e == s[n + 1]
  <2>1. n + 1 \in 1 .. Len(s) /\ n + 1 \in 0 .. Len(s) /\ n + 1 # 0 /\ (n + 1) - 1 = n
    BY <1>1
  <2>2. a = IF e \in T THEN Append(b, e) ELSE b
    BY <1>2, <2>1 DEF Keeps
  <2>3. e \in S /\ b \in Seq(S)
    BY <1>1, <2>1, <2>b
  <2>4. PICK h : Spots(b, n, h)
    <3> HIDE DEF Spots
    <3> QED BY <2>b
  <2>5. Len(b) \in Nat
    BY <2>3, LenProperties
  <2> SUFFICES a \in Seq(S) /\ \E f : Spots(a, n + 1, f)
    OBVIOUS
  <2>6. CASE e \notin T
    <3>1. a = b
      BY <2>2, <2>6
    <3> HIDE DEF a, b
    <3>2. Spots(b, n + 1, h)
      <4>1. \A k \in 1 .. n + 1 : k \in 1 .. n \/ k = n + 1
        OBVIOUS
      <4>2. \A k \in 1 .. n + 1 : s[k] \in T => k \in 1 .. n
        BY <2>6, <4>1
      <4>3. 1 .. n \subseteq 1 .. n + 1
        OBVIOUS
      <4> QED BY <2>4, <4>2, <4>3
    <3> QED BY <2>3, <3>1, <3>2
  <2>7. CASE e \in T
    <3>1. /\ a \in Seq(S) /\ Len(a) = Len(b) + 1
          /\ \A i \in 1 .. Len(b) : a[i] = b[i]
          /\ a[Len(b) + 1] = e
      BY <2>2, <2>3, <2>7, AppendProperties
    <3> DEFINE f == [i \in 1 .. Len(b) + 1 |-> IF i = Len(b) + 1 THEN n + 1 ELSE h[i]]
    <3> HIDE DEF a, b
    <3>2. \A i \in 1 .. Len(a) : \/ i \in 1 .. Len(b) /\ f[i] = h[i] /\ h[i] \in 1 .. n /\ i # Len(b) + 1
                                 \/ i = Len(b) + 1 /\ f[i] = n + 1
      BY <2>4, <2>5, <3>1
    <3>3. f \in [1 .. Len(a) -> 1 .. n + 1]
      BY <2>4, <2>5, <3>1
    <3> HIDE DEF f
    <3>4. \A i, j \in 1 .. Len(a) : i < j => f[i] < f[j]
      <4> SUFFICES ASSUME NEW i \in 1 .. Len(a), NEW j \in 1 .. Len(a), i < j PROVE f[i] < f[j]
        OBVIOUS
      <4>1. i \in 1 .. Len(b) /\ f[i] = h[i] /\ h[i] \in 1 .. n
        BY <2>5, <3>1, <3>2
      <4>2. CASE j \in 1 .. Len(b) /\ f[j] = h[j]
        BY <2>4, <4>1, <4>2
      <4>3. CASE f[j] = n + 1
        BY <4>1, <4>3
      <4> QED BY <3>2, <4>2, <4>3
    <3>5. \A i \in 1 .. Len(a) : a[i] = s[f[i]] /\ s[f[i]] \in T
      BY <2>4, <2>7, <3>1, <3>2
    <3>6. \A k \in 1 .. n + 1 : s[k] \in T => \E i \in 1 .. Len(a) : f[i] = k
      <4> SUFFICES ASSUME NEW k \in 1 .. n + 1, s[k] \in T PROVE \E i \in 1 .. Len(a) : f[i] = k
        OBVIOUS
      <4>1. CASE k = n + 1
        <5>1. Len(b) + 1 \in 1 .. Len(a)
          BY <2>5, <3>1
        <5>2. f[Len(b) + 1] = n + 1
          BY <2>5, <3>2, <5>1
        <5> QED BY <4>1, <5>1, <5>2
      <4>2. CASE k \in 1 .. n
        <5>1. PICK i \in 1 .. Len(b) : h[i] = k
          BY <2>4, <4>2
        <5>2. i \in 1 .. Len(a) /\ i # Len(b) + 1
          BY <2>5, <3>1
        <5> QED BY <3>2, <5>1, <5>2
      <4> QED BY <4>1, <4>2
    <3>7. Spots(a, n + 1, f)
      BY <3>3, <3>4, <3>5, <3>6
    <3> QED BY <3>1, <3>7
  <2> QED BY <2>6, <2>7
<1>6. Nat \subseteq P
  <2> HIDE DEF P
  <2> QED BY <1>4, <1>5, Induction
<1>7. Placed(Len(s))
  <2>1. Len(s) \in P
    BY <1>1, <1>6
  <2>2. Len(s) <= Len(s)
    BY <1>1
  <2> QED BY <2>1, <2>2
<1>8. PICK h : Spots(Kept(s, T), Len(s), h)
  BY <1>3, <1>7
<1>9. Cut(Kept(s, T), s, {k \in 1 .. Len(s) : s[k] \in T}, h)
  <2> DEFINE r == Kept(s, T)
             K == {k \in 1 .. Len(s) : s[k] \in T}
  <2>1. Spots(r, Len(s), h)
    BY <1>8
  <2> HIDE DEF r
  <2>2. \A i \in 1 .. Len(r) : h[i] \in 1 .. Len(s)
    BY <2>1
  <2> QED BY <2>1, <2>2 DEF Cut, r
<1> QED BY <1>9

\* The head goes, and of the rest what is not kept.
LEMMA TailCut ==
  ASSUME NEW S, NEW s \in Seq(S), s # <<>>, NEW T
  PROVE  \E h : Cut(Kept(Tail(s), T), s, {k \in 2 .. Len(s) : s[k] \in T}, h)
<1> DEFINE t == Tail(s)
           r == Kept(t, T)
           K == {k \in 2 .. Len(s) : s[k] \in T}
<1>1. /\ t \in Seq(S) /\ Len(t) = Len(s) - 1 /\ Len(s) \in Nat \ {0}
      /\ \A i \in 1 .. Len(t) : t[i] = s[i + 1]
  BY HeadFirst, HeadTailProperties
<1> HIDE DEF t
<1>2. PICK g : Cut(r, t, {k \in 1 .. Len(t) : t[k] \in T}, g)
  BY <1>1, KeptCut
<1>3. Len(r) \in Nat
  <2>1. r \in Seq(S)
    BY <1>1, KeptLine
  <2> QED BY <2>1, LenProperties
<1> HIDE DEF r
<1>4. \A i \in 1 .. Len(r) : g[i] \in 1 .. Len(t) /\ r[i] = t[g[i]] /\ t[g[i]] \in T
  BY <1>2 DEF Cut
<1> DEFINE h == [i \in 1 .. Len(r) |-> g[i] + 1]
<1>5. \A i \in 1 .. Len(r) : h[i] = g[i] + 1 /\ h[i] \in 2 .. Len(s)
  BY <1>1, <1>4
<1>6. h \in [1 .. Len(r) -> 1 .. Len(s)]
  <2>1. \A i \in 1 .. Len(r) : h[i] \in 1 .. Len(s)
    BY <1>1, <1>5
  <2> QED BY <2>1
<1> HIDE DEF h
<1>7. \A i, j \in 1 .. Len(r) : i < j => h[i] < h[j]
  <2> SUFFICES ASSUME NEW i \in 1 .. Len(r), NEW j \in 1 .. Len(r), i < j PROVE h[i] < h[j]
    OBVIOUS
  <2>1. g[i] < g[j]
    BY <1>2 DEF Cut
  <2> QED BY <1>4, <1>5, <2>1
<1>8. \A i \in 1 .. Len(r) : r[i] = s[h[i]] /\ h[i] \in K
  <2> TAKE i \in 1 .. Len(r)
  <2>1. t[g[i]] = s[g[i] + 1]
    BY <1>1, <1>4
  <2>2. r[i] = s[h[i]] /\ s[h[i]] \in T
    BY <1>4, <1>5, <2>1
  <2> QED BY <1>5, <2>2
<1>9. ASSUME NEW k \in K PROVE \E i \in 1 .. Len(r) : h[i] = k
  <2>1. k - 1 \in 1 .. Len(t) /\ (k - 1) + 1 = k
    BY <1>1
  <2>2. t[k - 1] \in T
    BY <1>1, <2>1
  <2>3. PICK i \in 1 .. Len(r) : g[i] = k - 1
    BY <1>2, <2>1, <2>2 DEF Cut
  <2> QED BY <1>5, <2>1, <2>3
<1>10. Cut(r, s, K, h)
  BY <1>6, <1>7, <1>8, <1>9 DEF Cut
<1> QED BY <1>10 DEF r, t

\* The head stays, and of the rest what is kept.
LEMMA HeadCut ==
  ASSUME NEW S, NEW s \in Seq(S), s # <<>>, NEW T
  PROVE  \E h : Cut(<<Head(s)>> \o Kept(Tail(s), T), s, {k \in 1 .. Len(s) : k = 1 \/ s[k] \in T}, h)
<1> DEFINE b == Kept(Tail(s), T)
           front == <<Head(s)>>
           r == front \o b
           K == {k \in 1 .. Len(s) : k = 1 \/ s[k] \in T}
<1>1. Tail(s) \in Seq(S) /\ Head(s) = s[1] /\ s[1] \in S /\ Len(s) \in Nat \ {0}
  BY HeadFirst
<1>2. b \in Seq(S)
  BY <1>1, KeptLine
<1>3. PICK g : Cut(b, s, {k \in 2 .. Len(s) : s[k] \in T}, g)
  BY TailCut
<1> HIDE DEF b
<1>4. front \in Seq(S) /\ Len(front) = 1 /\ front[1] = s[1]
  BY <1>1
<1> HIDE DEF front
<1>5. /\ r \in Seq(S) /\ Len(r) = 1 + Len(b) /\ Len(b) \in Nat
      /\ \A i \in 1 .. 1 + Len(b) : r[i] = IF i <= 1 THEN front[i] ELSE b[i - 1]
  <2>1. /\ r \in Seq(S) /\ Len(r) = Len(front) + Len(b)
        /\ \A i \in 1 .. Len(front) + Len(b) : r[i] = IF i <= Len(front) THEN front[i] ELSE b[i - Len(front)]
    BY <1>2, <1>4, ConcatProperties
  <2>2. Len(b) \in Nat
    BY <1>2, LenProperties
  <2> HIDE DEF r
  <2> QED BY <1>4, <2>1, <2>2
<1> HIDE DEF r
<1>6. \A i \in 1 .. Len(b) : g[i] \in 2 .. Len(s) /\ b[i] = s[g[i]] /\ s[g[i]] \in T
  BY <1>3 DEF Cut
<1> DEFINE h == [i \in 1 .. Len(r) |-> IF i = 1 THEN 1 ELSE g[i - 1]]
<1>7. \A i \in 1 .. Len(r) : \/ i = 1 /\ h[i] = 1 /\ r[i] = s[1]
                             \/ i # 1 /\ i - 1 \in 1 .. Len(b) /\ h[i] = g[i - 1] /\ r[i] = b[i - 1]
  <2> TAKE i \in 1 .. Len(r)
  <2>1. CASE i = 1
    BY <1>4, <1>5, <2>1
  <2>2. CASE i # 1
    <3>1. i - 1 \in 1 .. Len(b) /\ ~(i <= 1)
      BY <1>5, <2>2
    <3> QED BY <1>5, <2>2, <3>1
  <2> QED BY <2>1, <2>2
<1>8. \A i \in 1 .. Len(r) : h[i] \in 1 .. Len(s) /\ r[i] = s[h[i]] /\ h[i] \in K
  <2> HIDE DEF h
  <2> TAKE i \in 1 .. Len(r)
  <2>1. 1 \in 1 .. Len(s) /\ 2 .. Len(s) \subseteq 1 .. Len(s)
    BY <1>1
  <2>2. CASE i = 1
    BY <1>7, <2>1, <2>2
  <2>3. CASE i # 1
    <3>1. i - 1 \in 1 .. Len(b) /\ h[i] = g[i - 1] /\ r[i] = b[i - 1]
      BY <1>7, <2>3
    <3>2. g[i - 1] \in 2 .. Len(s) /\ b[i - 1] = s[g[i - 1]] /\ s[g[i - 1]] \in T
      BY <1>6, <3>1
    <3>3. h[i] \in 1 .. Len(s) /\ r[i] = s[h[i]] /\ s[h[i]] \in T
      BY <2>1, <3>1, <3>2
    <3> QED BY <3>3
  <2> QED BY <2>2, <2>3
<1>9. h \in [1 .. Len(r) -> 1 .. Len(s)]
  BY <1>8
<1> HIDE DEF h
<1>10. \A i, j \in 1 .. Len(r) : i < j => h[i] < h[j]
  <2> SUFFICES ASSUME NEW i \in 1 .. Len(r), NEW j \in 1 .. Len(r), i < j PROVE h[i] < h[j]
    OBVIOUS
  <2>1. j # 1 /\ j - 1 \in 1 .. Len(b) /\ h[j] = g[j - 1] /\ g[j - 1] \in 2 .. Len(s)
    BY <1>5, <1>6, <1>7
  <2>2. CASE i = 1
    BY <1>1, <1>7, <2>1, <2>2
  <2>3. CASE i # 1
    <3>1. i - 1 \in 1 .. Len(b) /\ h[i] = g[i - 1] /\ i - 1 < j - 1
      BY <1>7, <2>3
    <3> QED BY <1>3, <2>1, <3>1 DEF Cut
  <2> QED BY <2>2, <2>3
<1>11. ASSUME NEW k \in K PROVE \E i \in 1 .. Len(r) : h[i] = k
  <2>1. CASE k = 1
    <3>1. 1 \in 1 .. Len(r)
      BY <1>5
    <3> QED BY <1>7, <2>1, <3>1
  <2>2. CASE k # 1
    <3>1. k \in 2 .. Len(s) /\ s[k] \in T
      BY <2>2
    <3>2. PICK i \in 1 .. Len(b) : g[i] = k
      BY <1>3, <3>1 DEF Cut
    <3>3. i + 1 \in 1 .. Len(r) /\ i + 1 # 1 /\ (i + 1) - 1 = i
      BY <1>5
    <3>4. h[i + 1] = g[(i + 1) - 1]
      BY <1>7, <3>3
    <3> QED BY <3>2, <3>3, <3>4
  <2> QED BY <2>1, <2>2
<1>12. Cut(r, s, K, h)
  BY <1>8, <1>9, <1>10, <1>11 DEF Cut
<1> QED BY <1>12 DEF r, front, b

\* What was first and stays is first, and nothing else is.
LEMMA CutFirst ==
  ASSUME NEW S, NEW r \in Seq(S), NEW s \in Seq(S), NEW K, NEW h, Cut(r, s, K, h)
  PROVE  /\ \A i \in 1 .. Len(r) : h[i] = 1 => i = 1
         /\ 1 \in K => r # <<>> /\ Head(r) = Head(s) /\ s # <<>>
<1>1. Len(r) \in Nat /\ Len(s) \in Nat
  BY LenProperties
<1>2. ASSUME NEW i \in 1 .. Len(r), h[i] = 1 PROVE i = 1
  <2>1. SUFFICES ASSUME i # 1 PROVE FALSE
    OBVIOUS
  <2>2. 1 \in 1 .. Len(r) /\ 1 < i
    BY <1>1, <2>1
  <2>3. h[1] < h[i] /\ h[1] \in 1 .. Len(s)
    BY <2>2 DEF Cut
  <2> QED BY <1>2, <2>3
<1>3. ASSUME 1 \in K PROVE r # <<>> /\ Head(r) = Head(s) /\ s # <<>>
  <2>1. PICK i \in 1 .. Len(r) : h[i] = 1
    BY <1>3 DEF Cut
  <2>2. i = 1
    BY <1>2, <2>1
  <2>3. r[1] = s[1] /\ h[1] \in 1 .. Len(s) /\ 1 \in 1 .. Len(r) /\ 1 \in 1 .. Len(s)
    BY <2>1, <2>2 DEF Cut
  <2>4. Len(r) # 0 /\ Len(s) # 0
    BY <1>1, <2>3
  <2>5. r # <<>> /\ s # <<>>
    BY <2>4
  <2>6. Head(r) = r[1] /\ Head(s) = s[1]
    BY <2>5, HeadFirst
  <2> QED BY <2>3, <2>5, <2>6
<1> QED BY <1>2, <1>3

\* The places of token t.
At(s, t) == {k \in 1 .. Len(s) : s[k].token = t}

LEMMA CutCount ==
  ASSUME NEW S, NEW r \in Seq(S), NEW s \in Seq(S), NEW K, NEW h, Cut(r, s, K, h), NEW t
  PROVE  /\ IsFiniteSet(At(s, t)) /\ Cardinality(At(s, t)) \in Nat
         /\ Cardinality(At(r, t)) = Cardinality(At(s, t) \cap K)
<1> DEFINE A == At(r, t)
           B == At(s, t) \cap K
           f == [i \in A |-> h[i]]
<1>1. Len(r) \in Nat /\ Len(s) \in Nat
  BY LenProperties
<1>2. IsFiniteSet(At(s, t)) /\ IsFiniteSet(A)
  <2>1. IsFiniteSet(1 .. Len(s)) /\ IsFiniteSet(1 .. Len(r))
    BY <1>1, FS_Interval
  <2>2. At(s, t) \subseteq 1 .. Len(s) /\ A \subseteq 1 .. Len(r)
    BY DEF At
  <2> HIDE DEF A
  <2> QED BY <2>1, <2>2, FS_Subset
<1>3. \A i \in A : i \in 1 .. Len(r) /\ h[i] \in 1 .. Len(s) /\ h[i] \in K /\ s[h[i]].token = t
  BY DEF At, Cut
<1>4. \A i \in A : h[i] \in B
  BY <1>3 DEF At
<1>5. \A i, j \in A : h[i] = h[j] => i = j
  <2> SUFFICES ASSUME NEW i \in A, NEW j \in A, h[i] = h[j], i # j PROVE FALSE
    OBVIOUS
  <2>1. i \in 1 .. Len(r) /\ j \in 1 .. Len(r) /\ h[i] \in Int /\ h[j] \in Int
    BY <1>3
  <2>2. i < j \/ j < i
    BY <2>1
  <2>3. h[i] < h[j] \/ h[j] < h[i]
    BY <2>1, <2>2 DEF Cut
  <2> QED BY <2>1, <2>3
<1>6. \A k \in B : \E i \in A : h[i] = k
  <2> TAKE k \in B
  <2>1. k \in K /\ s[k].token = t
    BY DEF At
  <2>2. PICK i \in 1 .. Len(r) : h[i] = k
    BY <2>1 DEF Cut
  <2>3. r[i].token = t
    BY <2>1, <2>2 DEF Cut
  <2> QED BY <2>2, <2>3 DEF At
<1> HIDE DEF A, B
<1>7. f \in [A -> B] /\ \A i \in A : f[i] = h[i]
  BY <1>4
<1> HIDE DEF f
<1>8. ExistsBijection(A, B)
  <2>1. f \in Bijection(A, B)
    BY <1>5, <1>6, <1>7 DEF Bijection, Injection, IsInjective, Surjection
  <2> QED BY <2>1 DEF ExistsBijection
<1>9. Cardinality(B) = Cardinality(A)
  BY <1>2, <1>8, FS_Bijection
<1>10. Cardinality(At(s, t)) \in Nat
  BY <1>2, FS_CardinalityType
<1> QED BY <1>2, <1>9, <1>10 DEF A, B

LEMMA CutSize ==
  ASSUME NEW S, NEW r \in Seq(S), NEW s \in Seq(S), NEW K, NEW h, Cut(r, s, K, h), NEW t
  PROVE  Cardinality(At(r, t)) = Cardinality(At(s, t) \cap K)
BY CutCount

-----------------------------------------------------------------------------
(* The line and the table of batches, for a queue s whose head is x, the   *)
(* records st, and next the token to be given out next.                    *)

\* Nobody waits behind something less urgent, but for the frame on the wire.
Ranked(s, x) == \A i, j \in 1 .. Len(s) : i < j => s[i].rank >= s[j].rank \/ (i = 1 /\ x # "idle")

\* Frames of a batch are of one rank, and of no token that is still to come.
TokensOK(s, next) ==
  /\ \A i \in 1 .. Len(s) : s[i].token < next
  /\ \A i, j \in 1 .. Len(s) : s[i].token # 0 /\ s[i].token = s[j].token => s[i].rank = s[j].rank

Accounted(s, x, r) ==
  IF r.state = "pending"
  THEN At(s, r.token) # {} /\ Cardinality(At(s, r.token)) = r.total - r.confirmed
  ELSE \A k \in At(s, r.token) : k = 1 /\ x # "idle"

TableOK(s, x, st, next) ==
  \A i \in Can!Slots : st[i].token # 0 => st[i].token < next /\ Accounted(s, x, st[i])

LineOK(s, x, st, next) == Ranked(s, x) /\ TokensOK(s, next) /\ TableOK(s, x, st, next)

\* st with the batches of T failed.
FailedIn(f, st, T) ==
  \A i \in Can!Slots :
    /\ f[i].token = st[i].token /\ f[i].total = st[i].total /\ f[i].confirmed = st[i].confirmed
    /\ f[i].state = IF st[i].token \in T /\ st[i].state = "pending" THEN "failed" ELSE st[i].state

LEMMA FailedAre ==
  ASSUME StatusOK, NEW T
  PROVE  FailedIn(Can!WithFailed(T), status, T)
<1> DEFINE f == Can!WithFailed(T)
<1> SUFFICES ASSUME NEW i \in Can!Slots
             PROVE  /\ f[i].token = status[i].token /\ f[i].total = status[i].total
                    /\ f[i].confirmed = status[i].confirmed
                    /\ f[i].state = IF status[i].token \in T /\ status[i].state = "pending"
                                    THEN "failed" ELSE status[i].state
  BY DEF FailedIn
<1>1. PICK r \in Record : r = status[i]
  BY DEF StatusOK, Records
<1>2. f[i] = IF r.token \in T /\ r.state = "pending" THEN [r EXCEPT !.state = "failed"] ELSE r
  BY <1>1 DEF Can!WithFailed
<1> HIDE DEF f
<1>3. CASE r.token \in T /\ r.state = "pending"
  <2>1. f[i] = [r EXCEPT !.state = "failed"]
    BY <1>2, <1>3
  <2>2. f[i].token = r.token /\ f[i].total = r.total /\ f[i].confirmed = r.confirmed /\ f[i].state = "failed"
    BY <2>1 DEF Record
  <2> QED BY <1>1, <1>3, <2>2
<1>4. CASE ~(r.token \in T /\ r.state = "pending")
  <2>1. f[i] = r
    BY <1>2, <1>4
  <2> QED BY <1>1, <1>4, <2>1
<1> QED BY <1>3, <1>4

\* Frames are cut out, and the batches they belong to fail.
LEMMA CutKeeps ==
  ASSUME NEW s \in Seq(Item), NEW x, NEW st, NEW next, LineOK(s, x, st, next),
         NEW r \in Seq(Item), NEW K, NEW h, Cut(r, s, K, h), NEW T, NEW y, NEW f,
         FailedIn(f, st, T),
         \A k \in 1 .. Len(s) : k \in K \/ s[k].token \in T \cup {0},
         \A k \in K : s[k].token \in T => k = 1 /\ y # "idle",
         1 \in K /\ x # "idle" => y # "idle"
  PROVE  LineOK(r, y, f, next)
<1>1. \A i \in 1 .. Len(r) : h[i] \in 1 .. Len(s) /\ r[i] = s[h[i]] /\ h[i] \in K /\ (h[i] = 1 => i = 1)
  <2>1. \A i \in 1 .. Len(r) : h[i] = 1 => i = 1
    BY CutFirst
  <2> QED BY <2>1 DEF Cut
<1>2. \A i, j \in 1 .. Len(r) : i < j => h[i] < h[j]
  BY DEF Cut
<1>3. Ranked(r, y)
  <2> SUFFICES ASSUME NEW i \in 1 .. Len(r), NEW j \in 1 .. Len(r), i < j
               PROVE  r[i].rank >= r[j].rank \/ (i = 1 /\ y # "idle")
    BY DEF Ranked
  <2>1. s[h[i]].rank >= s[h[j]].rank \/ (h[i] = 1 /\ x # "idle")
    BY <1>1, <1>2 DEF LineOK, Ranked
  <2>2. CASE s[h[i]].rank >= s[h[j]].rank
    BY <1>1, <2>2
  <2>3. CASE h[i] = 1 /\ x # "idle"
    BY <1>1, <2>3
  <2> QED BY <2>1, <2>2, <2>3
<1>4. TokensOK(r, next)
  <2>1. \A i \in 1 .. Len(r) : r[i].token < next
    BY <1>1 DEF LineOK, TokensOK
  <2>2. \A i, j \in 1 .. Len(r) : r[i].token # 0 /\ r[i].token = r[j].token => r[i].rank = r[j].rank
    <3> TAKE i, j \in 1 .. Len(r)
    <3>1. h[i] \in 1 .. Len(s) /\ r[i] = s[h[i]] /\ h[j] \in 1 .. Len(s) /\ r[j] = s[h[j]]
      BY <1>1
    <3>2. \A a, b \in 1 .. Len(s) : s[a].token # 0 /\ s[a].token = s[b].token => s[a].rank = s[b].rank
      BY DEF LineOK, TokensOK
    <3>3. s[h[i]].token # 0 /\ s[h[i]].token = s[h[j]].token => s[h[i]].rank = s[h[j]].rank
      BY <3>1, <3>2
    <3> QED BY <3>1, <3>3
  <2> QED BY <2>1, <2>2 DEF TokensOK
<1>5. TableOK(r, y, f, next)
  <2> SUFFICES ASSUME NEW i \in Can!Slots, f[i].token # 0
               PROVE  f[i].token < next /\ Accounted(r, y, f[i])
    BY DEF TableOK
  <2> DEFINE t == st[i].token
  <2>1. /\ f[i].token = t /\ t # 0 /\ t < next /\ Accounted(s, x, st[i])
        /\ f[i].total = st[i].total /\ f[i].confirmed = st[i].confirmed
        /\ f[i].state = IF t \in T /\ st[i].state = "pending" THEN "failed" ELSE st[i].state
    BY DEF FailedIn, LineOK, TableOK
  <2>2. CASE st[i].state = "pending" /\ t \notin T
    <3>1. f[i].state = "pending" /\ At(s, t) # {} /\ Cardinality(At(s, t)) = f[i].total - f[i].confirmed
      BY <2>1, <2>2 DEF Accounted
    <3>2. At(s, t) \cap K = At(s, t)
      BY <2>1, <2>2 DEF At
    <3>3. Cardinality(At(r, t)) = Cardinality(At(s, t))
      BY <3>2, CutCount
    <3>4. PICK k \in At(s, t) : TRUE
      BY <3>1
    <3>5. k \in K /\ s[k].token = t
      BY <3>2, <3>4 DEF At
    <3>6. PICK j \in 1 .. Len(r) : h[j] = k
      BY <3>5 DEF Cut
    <3>7. j \in At(r, t)
      BY <1>1, <3>5, <3>6 DEF At
    <3> QED BY <2>1, <3>1, <3>3, <3>7 DEF Accounted
  <2>3. CASE st[i].state = "pending" /\ t \in T
    <3>1. f[i].state # "pending"
      BY <2>1, <2>3
    <3>2. \A k \in At(r, t) : k = 1 /\ y # "idle"
      BY <1>1, <2>3 DEF At
    <3> QED BY <2>1, <3>1, <3>2 DEF Accounted
  <2>4. CASE st[i].state # "pending"
    <3>1. f[i].state # "pending" /\ \A k \in At(s, t) : k = 1 /\ x # "idle"
      BY <2>1, <2>4 DEF Accounted
    <3>2. ASSUME NEW k \in At(r, t) PROVE k = 1 /\ y # "idle"
      <4>1. h[k] \in At(s, t) /\ h[k] \in K /\ (h[k] = 1 => k = 1)
        BY <1>1 DEF At
      <4> QED BY <3>1, <4>1
    <3> QED BY <2>1, <3>1, <3>2 DEF Accounted
  <2> QED BY <2>2, <2>3, <2>4
<1> QED BY <1>3, <1>4, <1>5 DEF LineOK

\* Nothing changes but what the head is doing.
LEMMA WireKeeps ==
  ASSUME NEW s \in Seq(Item), NEW x, NEW y, NEW st, NEW next, LineOK(s, x, st, next),
         x # "idle" => y # "idle"
  PROVE  LineOK(s, y, st, next)
<1>1. Ranked(s, y) /\ TokensOK(s, next)
  BY DEF LineOK, Ranked
<1>2. TableOK(s, y, st, next)
  BY DEF LineOK, TableOK, Accounted
<1> QED BY <1>1, <1>2 DEF LineOK

\* The head is confirmed: its batch waits for one frame less.
LEMMA ConfirmKeeps ==
  ASSUME StatusOK, NEW s \in Seq(Item), s # <<>>, NEW x, NEW next, LineOK(s, x, status, next)
  PROVE  LineOK(Tail(s), "idle", Can!WithConfirmed(Head(s).token), next)
<1> DEFINE r == Tail(s)
           K == 2 .. Len(s)
           h == [i \in 1 .. Len(r) |-> i + 1]
           u == Head(s).token
           f == Can!WithConfirmed(u)
<1>1. /\ r \in Seq(Item) /\ Len(r) = Len(s) - 1 /\ Len(s) \in Nat \ {0}
      /\ Head(s) = s[1] /\ Head(s) \in Item
      /\ \A i \in 1 .. Len(r) : r[i] = s[i + 1]
  BY HeadFirst, HeadTailProperties
<1> HIDE DEF r
<1>2. Cut(r, s, K, h)
  <2>1. h \in [1 .. Len(r) -> 1 .. Len(s)]
    BY <1>1
  <2>2. \A i \in 1 .. Len(r) : h[i] = i + 1 /\ h[i] \in K /\ r[i] = s[h[i]]
    BY <1>1
  <2> HIDE DEF h
  <2>3. \A i, j \in 1 .. Len(r) : i < j => h[i] < h[j]
    BY <2>2
  <2>4. ASSUME NEW k \in K PROVE \E i \in 1 .. Len(r) : h[i] = k
    <3>1. k - 1 \in 1 .. Len(r) /\ (k - 1) + 1 = k
      BY <1>1
    <3> QED BY <2>2, <3>1
  <2> QED BY <2>1, <2>2, <2>3, <2>4 DEF Cut
<1> HIDE DEF h, K
<1>3. \A i \in 1 .. Len(r) : i + 1 \in 1 .. Len(s) /\ i + 1 # 1 /\ r[i] = s[i + 1]
  BY <1>1
<1>4. Ranked(r, "idle")
  <2> SUFFICES ASSUME NEW i \in 1 .. Len(r), NEW j \in 1 .. Len(r), i < j
               PROVE  r[i].rank >= r[j].rank
    BY DEF Ranked
  <2>1. i + 1 < j + 1
    OBVIOUS
  <2> QED BY <1>3, <2>1 DEF LineOK, Ranked
<1>5. TokensOK(r, next)
  <2>1. \A i \in 1 .. Len(r) : r[i].token < next
    BY <1>3 DEF LineOK, TokensOK
  <2>2. \A i, j \in 1 .. Len(r) : r[i].token # 0 /\ r[i].token = r[j].token => r[i].rank = r[j].rank
    <3> TAKE i, j \in 1 .. Len(r)
    <3>1. i + 1 \in 1 .. Len(s) /\ r[i] = s[i + 1] /\ j + 1 \in 1 .. Len(s) /\ r[j] = s[j + 1]
      BY <1>3
    <3>2. \A a, b \in 1 .. Len(s) : s[a].token # 0 /\ s[a].token = s[b].token => s[a].rank = s[b].rank
      BY DEF LineOK, TokensOK
    <3>3. s[i + 1].token # 0 /\ s[i + 1].token = s[j + 1].token => s[i + 1].rank = s[j + 1].rank
      BY <3>1, <3>2
    <3> QED BY <3>1, <3>3
  <2> QED BY <2>1, <2>2 DEF TokensOK
<1>6. ASSUME NEW t
      PROVE  /\ t # u => Cardinality(At(r, t)) = Cardinality(At(s, t))
             /\ t = u => Cardinality(At(r, t)) = Cardinality(At(s, t)) - 1
             /\ Cardinality(At(s, t)) \in Nat /\ Cardinality(At(r, t)) \in Nat
             /\ Cardinality(At(r, t)) = 0 <=> At(r, t) = {}
             /\ Cardinality(At(s, t)) = 0 <=> At(s, t) = {}
  <2>1. /\ IsFiniteSet(At(s, t)) /\ Cardinality(At(s, t)) \in Nat
        /\ Cardinality(At(r, t)) = Cardinality(At(s, t) \cap K)
    <3>1. r \in Seq(Item) /\ s \in Seq(Item) /\ Cut(r, s, K, h)
      BY <1>1, <1>2
    <3>2. IsFiniteSet(At(s, t))
      BY <3>1, CutCount
    <3>3. Cardinality(At(s, t)) \in Nat
      BY <3>1, CutCount
    <3>4. Cardinality(At(r, t)) = Cardinality(At(s, t) \cap K)
      BY <3>1, CutCount
    <3> QED BY <3>2, <3>3, <3>4
  <2>2. At(s, t) \cap K = At(s, t) \ {1}
    BY <1>1 DEF At, K
  <2>3. 1 \in At(s, t) <=> t = u
    BY <1>1 DEF At
  <2>4. Cardinality(At(s, t) \ {1}) = IF 1 \in At(s, t) THEN Cardinality(At(s, t)) - 1 ELSE Cardinality(At(s, t))
    BY <2>1, FS_RemoveElement
  <2>5. IsFiniteSet(At(r, t)) /\ Cardinality(At(r, t)) \in Nat
    <3>1. At(r, t) \subseteq 1 .. Len(r) /\ IsFiniteSet(1 .. Len(r))
      <4>1. Len(r) \in Int /\ 1 \in Int
        BY <1>1
      <4> QED BY <4>1, FS_Interval DEF At
    <3> QED BY <3>1, FS_Subset, FS_CardinalityType
  <2>6. /\ Cardinality(At(r, t)) = 0 <=> At(r, t) = {}
        /\ Cardinality(At(s, t)) = 0 <=> At(s, t) = {}
    BY <2>1, <2>5, FS_EmptySet
  <2> QED BY <2>1, <2>2, <2>3, <2>4, <2>5, <2>6
<1>7. TableOK(r, "idle", f, next)
  <2> SUFFICES ASSUME NEW i \in Can!Slots, f[i].token # 0
               PROVE  f[i].token < next /\ Accounted(r, "idle", f[i])
    BY DEF TableOK
  <2>1. PICK d \in Record : d = status[i]
    BY DEF StatusOK, Records
  <2>2. /\ d.token \in Nat /\ d.total \in Nat /\ d.confirmed \in Nat
        /\ d = [token |-> d.token, state |-> d.state, total |-> d.total, confirmed |-> d.confirmed]
    BY DEF Record
  <2>3. f[i] = IF u # 0 /\ d.token = u /\ d.state = "pending"
               THEN [d EXCEPT !.confirmed = @ + 1,
                       !.state = IF d.confirmed + 1 = d.total THEN "complete" ELSE "pending"]
               ELSE d
    BY <2>1 DEF Can!WithConfirmed
  <2> HIDE DEF f
  <2>4. CASE ~(u # 0 /\ d.token = u /\ d.state = "pending")
    <3>1. f[i] = d /\ d.token # 0 /\ d.token < next /\ Accounted(s, x, d)
      BY <2>1, <2>3, <2>4 DEF LineOK, TableOK
    <3>2. CASE d.state = "pending"
      <4>1. d.token # u
        BY <2>4, <3>1, <3>2
      <4>2. At(s, d.token) # {} /\ Cardinality(At(s, d.token)) = d.total - d.confirmed
        BY <3>1, <3>2 DEF Accounted
      <4>3. At(r, d.token) # {} /\ Cardinality(At(r, d.token)) = d.total - d.confirmed
        BY <1>6, <4>1, <4>2
      <4> QED BY <3>1, <3>2, <4>3 DEF Accounted
    <3>3. CASE d.state # "pending"
      <4>1. \A k \in At(s, d.token) : k = 1
        BY <3>1, <3>3 DEF Accounted
      <4>2. \A k \in At(r, d.token) : k + 1 \in At(s, d.token) /\ k + 1 # 1
        BY <1>3 DEF At
      <4>3. At(r, d.token) = {}
        BY <4>1, <4>2
      <4> QED BY <3>1, <3>3, <4>3 DEF Accounted
    <3> QED BY <3>2, <3>3
  <2>5. CASE u # 0 /\ d.token = u /\ d.state = "pending"
    <3> DEFINE z == IF d.confirmed + 1 = d.total THEN "complete" ELSE "pending"
    <3>1. f[i] = [token |-> d.token, state |-> z, total |-> d.total, confirmed |-> d.confirmed + 1]
      BY <2>2, <2>3, <2>5
    <3>2. d.token < next /\ Accounted(s, x, d)
      BY <2>1, <2>5 DEF LineOK, TableOK
    <3>3. Cardinality(At(s, u)) = d.total - d.confirmed /\ Cardinality(At(r, u)) = Cardinality(At(s, u)) - 1
      BY <1>6, <2>5, <3>2 DEF Accounted
    <3>4. Cardinality(At(r, u)) = d.total - (d.confirmed + 1)
      BY <1>6, <2>2, <3>3
    <3>5. f[i].token = u /\ f[i].total = d.total /\ f[i].confirmed = d.confirmed + 1 /\ f[i].state = z
      BY <2>5, <3>1
    <3>6. CASE d.confirmed + 1 = d.total
      <4>1. At(r, u) = {}
        BY <1>6, <2>2, <3>4, <3>6
      <4>2. f[i].state # "pending"
        BY <3>5, <3>6
      <4> QED BY <2>5, <3>2, <3>5, <4>1, <4>2 DEF Accounted
    <3>7. CASE d.confirmed + 1 # d.total
      <4>1. Cardinality(At(r, u)) # 0
        BY <2>2, <3>4, <3>7
      <4>2. f[i].state = "pending" /\ At(r, u) # {}
        BY <1>6, <3>5, <3>7, <4>1
      <4> QED BY <2>5, <3>2, <3>4, <3>5, <4>2 DEF Accounted
    <3> QED BY <3>6, <3>7
  <2> QED BY <2>4, <2>5
<1> QED BY <1>4, <1>5, <1>7 DEF LineOK, r, f

-----------------------------------------------------------------------------
\* new is s with items put in before place p.
Block(new, s, items, p) ==
  /\ p \in 1 .. Len(s) + 1
  /\ Len(new) = Len(s) + Len(items)
  /\ \A k \in 1 .. Len(new) :
       /\ k < p => new[k] = s[k]
       /\ p <= k /\ k < p + Len(items) => new[k] = items[k - p + 1]
       /\ p + Len(items) <= k => new[k] = s[k - Len(items)]

Outside(new, p, n) == {k \in 1 .. Len(new) : k < p \/ p + n <= k}

\* Where s is in new.
LEMMA BlockCut ==
  ASSUME NEW S, NEW new \in Seq(S), NEW s \in Seq(S), NEW items \in Seq(S), NEW p,
         Block(new, s, items, p)
  PROVE  \E h : Cut(s, new, Outside(new, p, Len(items)), h)
<1> DEFINE n == Len(items)
           K == {k \in 1 .. Len(new) : k < p \/ p + n <= k}
           g == [i \in 1 .. Len(s) |-> IF i < p THEN i ELSE i + n]
<1>1. /\ n \in Nat /\ Len(s) \in Nat /\ Len(new) \in Nat /\ p \in Nat /\ Len(new) = Len(s) + n
      /\ 1 <= p /\ p <= Len(s) + 1
  BY LenProperties DEF Block
<1> HIDE DEF n
<1>2. \A i \in 1 .. Len(s) : g[i] = IF i < p THEN i ELSE i + n
  OBVIOUS
<1>3. g \in [1 .. Len(s) -> 1 .. Len(new)]
  BY <1>1
<1> HIDE DEF g
<1>4. \A i, j \in 1 .. Len(s) : i < j => g[i] < g[j]
  BY <1>1, <1>2
<1>5. \A i \in 1 .. Len(s) : s[i] = new[g[i]] /\ g[i] \in K
  <2> TAKE i \in 1 .. Len(s)
  <2>1. CASE i < p
    <3>1. g[i] = i /\ i \in 1 .. Len(new)
      BY <1>1, <1>2, <2>1
    <3> QED BY <2>1, <3>1 DEF Block
  <2>2. CASE ~(i < p)
    <3>1. g[i] = i + n /\ i + n \in 1 .. Len(new) /\ p + n <= i + n /\ (i + n) - n = i
      BY <1>1, <1>2, <2>2
    <3>2. new[i + n] = s[(i + n) - n]
      BY <3>1 DEF Block, n
    <3> QED BY <3>1, <3>2
  <2> QED BY <2>1, <2>2
<1>6. ASSUME NEW k \in K PROVE \E i \in 1 .. Len(s) : g[i] = k
  <2>1. CASE k < p
    <3>1. k \in 1 .. Len(s)
      BY <1>1, <2>1
    <3> QED BY <1>2, <2>1, <3>1
  <2>2. CASE p + n <= k
    <3>1. k - n \in 1 .. Len(s) /\ ~(k - n < p) /\ (k - n) + n = k
      BY <1>1, <2>2
    <3> QED BY <1>2, <3>1
  <2> QED BY <2>1, <2>2
<1>7. Cut(s, new, K, g)
  BY <1>3, <1>4, <1>5, <1>6 DEF Cut
<1>8. K = Outside(new, p, Len(items))
  BY DEF n, Outside
<1> HIDE DEF K
<1>9. \E h : Cut(s, new, K, h)
  BY <1>7
<1> QED BY <1>8, <1>9

\* Behind the frame on the wire, and whatever is as urgent, and before the rest.
Fits(s, x, p, rank) ==
  /\ p <= Len(s) => s[p].rank < rank
  /\ \A j \in 1 .. Len(s) : j < p => s[j].rank >= rank \/ (j = 1 /\ x # "idle")
  /\ x # "idle" => p # 1

\* Frames of token t are put in: of no batch, or of one that is new.
LEMMA BlockKeeps ==
  ASSUME NEW s \in Seq(Item), NEW new \in Seq(Item), NEW items \in Seq(Item), NEW p,
         Block(new, s, items, p),
         NEW rank \in Nat, NEW t \in Nat,
         \A i \in 1 .. Len(items) : items[i].rank = rank /\ items[i].token = t,
         NEW x, NEW st \in Records, NEW next \in Nat \ {0}, LineOK(s, x, st, next), Fits(s, x, p, rank),
         t \in {0, next}, NEW st2,
         \A i \in Can!Slots : \/ st2[i] = st[i]
                              \/ /\ t # 0 /\ st2[i].token = t /\ st2[i].state = "pending"
                                 /\ st2[i].total = Len(items) /\ st2[i].confirmed = 0
                                 /\ Len(items) # 0
  PROVE  LineOK(new, x, st2, IF t = 0 THEN next ELSE next + 1)
<1> DEFINE n == Len(items)
           K == {k \in 1 .. Len(new) : k < p \/ p + n <= k}
           m == IF t = 0 THEN next ELSE next + 1
<1>0. K = Outside(new, p, Len(items))
  BY DEF Outside
<1>1. PICK h : Cut(s, new, K, h)
  <2> HIDE DEF K
  <2>1. s \in Seq(Item) /\ new \in Seq(Item) /\ items \in Seq(Item) /\ Block(new, s, items, p)
    OBVIOUS
  <2>2. \E h : Cut(s, new, Outside(new, p, Len(items)), h)
    BY <2>1, BlockCut
  <2> QED BY <1>0, <2>2
<1>2. /\ n \in Nat /\ Len(s) \in Nat /\ Len(new) \in Nat /\ p \in Nat /\ Len(new) = Len(s) + n
      /\ 1 <= p /\ p <= Len(s) + 1
  BY LenProperties DEF Block
<1> HIDE DEF n
<1>3. /\ \A i \in 1 .. Len(s) : s[i].rank \in Nat /\ s[i].token \in Nat
      /\ \A i \in 1 .. Len(new) : new[i].rank \in Nat /\ new[i].token \in Nat
  <2>1. /\ \A i \in 1 .. Len(s) : s[i] \in Item
        /\ \A i \in 1 .. Len(new) : new[i] \in Item
    BY ElementOfSeq
  <2> QED BY <2>1 DEF Item
<1> DEFINE from(k) == IF k < p THEN k ELSE k - n
<1>4. ASSUME NEW k \in 1 .. Len(new), k \in K
      PROVE  /\ from(k) \in 1 .. Len(s) /\ new[k] = s[from(k)]
             /\ from(k) = 1 /\ x # "idle" => k = 1
  <2>1. CASE k < p
    <3>1. from(k) = k /\ k \in 1 .. Len(s)
      BY <1>2, <2>1
    <3> QED BY <2>1, <3>1 DEF Block
  <2>2. CASE p + n <= k
    <3>1. from(k) = k - n /\ k - n \in 1 .. Len(s) /\ (k - n = 1 => p = 1)
      BY <1>2, <2>2
    <3>2. new[k] = s[k - n]
      BY <2>2 DEF Block, n
    <3> QED BY <3>1, <3>2 DEF Fits
  <2> QED BY <1>4, <2>1, <2>2
<1>5. ASSUME NEW k \in 1 .. Len(new), k \notin K
      PROVE  p <= k /\ k < p + n /\ new[k].rank = rank /\ new[k].token = t
  <2>1. p <= k /\ k < p + n /\ k - p + 1 \in 1 .. n
    BY <1>2, <1>5
  <2>2. new[k] = items[k - p + 1]
    BY <2>1 DEF Block, n
  <2> QED BY <2>1, <2>2 DEF n
<1>6. \A i, j \in K : i < j => from(i) < from(j)
  BY <1>2
<1>7. Ranked(new, x)
  <2> SUFFICES ASSUME NEW i \in 1 .. Len(new), NEW j \in 1 .. Len(new), i < j
               PROVE  new[i].rank >= new[j].rank \/ (i = 1 /\ x # "idle")
    BY DEF Ranked
  <2> HIDE DEF K
  <2>0. \A a, b \in 1 .. Len(s) : a < b => s[a].rank >= s[b].rank \/ (a = 1 /\ x # "idle")
    BY DEF LineOK, Ranked
  <2>1. CASE i \in K /\ j \in K
    <3> DEFINE a == from(i)
               b == from(j)
    <3>1. a < b
      BY <1>6, <2>1
    <3>2. /\ a \in 1 .. Len(s) /\ new[i] = s[a] /\ (a = 1 /\ x # "idle" => i = 1)
          /\ b \in 1 .. Len(s) /\ new[j] = s[b]
      BY <1>4, <2>1
    <3> HIDE DEF a, b
    <3>3. s[a].rank >= s[b].rank \/ (a = 1 /\ x # "idle")
      BY <2>0, <3>1, <3>2
    <3> QED BY <3>2, <3>3
  <2>2. CASE i \notin K /\ j \notin K
    BY <1>5, <2>2
  <2>3. CASE i \in K /\ j \notin K
    <3>1. i < p /\ i \in 1 .. Len(s)
      BY <1>2, <1>5, <2>3 DEF K
    <3>2. new[i] = s[i] /\ new[j].rank = rank
      BY <1>5, <2>3, <3>1 DEF Block
    <3> QED BY <3>1, <3>2 DEF Fits
  <2>4. CASE i \notin K /\ j \in K
    <3> DEFINE b == from(j)
    <3>1. p <= b
      BY <1>2, <1>5, <2>4 DEF K
    <3>2. b \in 1 .. Len(s) /\ new[j] = s[b] /\ new[i].rank = rank
      BY <1>4, <1>5, <2>4
    <3> HIDE DEF b
    <3>3. p \in 1 .. Len(s) /\ s[p].rank < rank
      BY <1>2, <3>1, <3>2 DEF Fits
    <3>4. p = b \/ s[p].rank >= s[b].rank
      <4>1. p < b => s[p].rank >= s[b].rank \/ (p = 1 /\ x # "idle")
        BY <2>0, <3>2, <3>3
      <4>2. x # "idle" => p # 1
        BY DEF Fits
      <4>3. p < b \/ p = b
        BY <1>2, <3>1, <3>2
      <4> QED BY <4>1, <4>2, <4>3
    <3>5. s[p].rank \in Nat /\ s[b].rank \in Nat
      BY <1>3, <3>2, <3>3
    <3> QED BY <3>2, <3>3, <3>4, <3>5
  <2> QED BY <2>1, <2>2, <2>3, <2>4
<1>70. m \in Nat /\ t < m /\ next <= m
  <2>1. CASE t = 0
    BY <2>1
  <2>2. CASE t = next
    BY <2>2
  <2> QED BY <2>1, <2>2
<1>8. TokensOK(new, m)
  <2>1. \A i \in 1 .. Len(s) : s[i].token < next
    BY DEF LineOK, TokensOK
  <2>2. \A k \in 1 .. Len(new) : new[k].token = t \/ (new[k].token < next /\ new[k].token \in Nat)
    BY <1>3, <1>4, <1>5, <2>1
  <2> HIDE DEF m
  <2>3. \A k \in 1 .. Len(new) : new[k].token < m
    BY <1>70, <2>2
  <2>4. ASSUME NEW i \in 1 .. Len(new), NEW j \in 1 .. Len(new), new[i].token # 0, new[i].token = new[j].token
        PROVE  new[i].rank = new[j].rank
    <3> HIDE DEF K
    <3>1. CASE i \in K /\ j \in K
      <4> DEFINE a == from(i)
                 b == from(j)
      <4>1. /\ a \in 1 .. Len(s) /\ new[i] = s[a]
            /\ b \in 1 .. Len(s) /\ new[j] = s[b]
        BY <1>4, <3>1
      <4> HIDE DEF a, b
      <4>2. \A c, d \in 1 .. Len(s) : s[c].token # 0 /\ s[c].token = s[d].token => s[c].rank = s[d].rank
        BY DEF LineOK, TokensOK
      <4>3. s[a].token # 0 /\ s[a].token = s[b].token => s[a].rank = s[b].rank
        BY <4>1, <4>2
      <4> QED BY <2>4, <4>1, <4>3
    <3>2. CASE i \notin K /\ j \notin K
      BY <1>5, <3>2
    <3>3. ASSUME NEW c \in 1 .. Len(new), c \in K, new[c].token = t, t # 0 PROVE FALSE
      <4>1. new[c].token < next
        BY <1>4, <2>1, <3>3
      <4> QED BY <3>3, <4>1
    <3>4. CASE (i \in K) # (j \in K)
      <4>1. CASE i \in K /\ j \notin K
        BY <1>5, <2>4, <3>3, <4>1
      <4>2. CASE i \notin K /\ j \in K
        BY <1>5, <2>4, <3>3, <4>2
      <4> QED BY <3>4, <4>1, <4>2
    <3> QED BY <3>1, <3>2, <3>4
  <2>5. \A i, j \in 1 .. Len(new) : new[i].token # 0 /\ new[i].token = new[j].token => new[i].rank = new[j].rank
    BY <2>4
  <2> QED BY <2>3, <2>5 DEF TokensOK
<1>9. ASSUME NEW u, u # t
      PROVE  /\ Cardinality(At(new, u)) = Cardinality(At(s, u))
             /\ At(s, u) # {} => At(new, u) # {}
             /\ \A k \in At(new, u) : from(k) \in At(s, u) /\ (from(k) = 1 /\ x # "idle" => k = 1)
  <2>1. \A k \in At(new, u) : k \in 1 .. Len(new) /\ new[k].token = u /\ k \in K
    <3> HIDE DEF K
    <3> QED BY <1>5, <1>9 DEF At
  <2>2. Cardinality(At(s, u)) = Cardinality(At(new, u) \cap K)
    <3> HIDE DEF K, from
    <3>1. s \in Seq(Item) /\ new \in Seq(Item) /\ Cut(s, new, K, h)
      BY <1>1
    <3> QED BY <3>1, CutSize
  <2>3. At(new, u) \cap K = At(new, u)
    BY <2>1
  <2>4. \A k \in At(new, u) : from(k) \in At(s, u) /\ (from(k) = 1 /\ x # "idle" => k = 1)
    <3> TAKE k \in At(new, u)
    <3>1. from(k) \in 1 .. Len(s) /\ new[k] = s[from(k)] /\ (from(k) = 1 /\ x # "idle" => k = 1)
      BY <1>4, <2>1
    <3>2. new[k].token = u
      BY <2>1
    <3> HIDE DEF from
    <3> QED BY <3>1, <3>2 DEF At
  <2>5. ASSUME NEW i \in At(s, u) PROVE At(new, u) # {}
    <3>1. h[i] \in 1 .. Len(new) /\ s[i] = new[h[i]] /\ s[i].token = u
      BY <1>1 DEF At, Cut
    <3> QED BY <3>1 DEF At
  <2> QED BY <2>2, <2>3, <2>4, <2>5
<1>10. TableOK(new, x, st2, m)
  <2> SUFFICES ASSUME NEW i \in Can!Slots, st2[i].token # 0
               PROVE  st2[i].token < m /\ Accounted(new, x, st2[i])
    BY DEF TableOK
  <2>1. CASE st2[i] = st[i]
    <3> DEFINE u == st[i].token
    <3>1. u < next /\ Accounted(s, x, st[i]) /\ u # 0
      BY <2>1 DEF LineOK, TableOK
    <3>2. u # t
      BY <3>1
    <3>0. u \in Nat
      BY DEF Records, Record
    <3> HIDE DEF m, from
    <3>3. u < m
      BY <1>70, <3>0, <3>1
    <3>4. CASE st[i].state = "pending"
      <4>1. At(s, u) # {} /\ Cardinality(At(s, u)) = st[i].total - st[i].confirmed
        BY <3>1, <3>4 DEF Accounted
      <4>2. At(new, u) # {} /\ Cardinality(At(new, u)) = st[i].total - st[i].confirmed
        BY <1>9, <3>2, <4>1
      <4> QED BY <2>1, <3>3, <3>4, <4>2 DEF Accounted
    <3>5. CASE st[i].state # "pending"
      <4>1. \A k \in At(s, u) : k = 1 /\ x # "idle"
        BY <3>1, <3>5 DEF Accounted
      <4>2. \A k \in At(new, u) : k = 1 /\ x # "idle"
        BY <1>9, <3>2, <4>1
      <4> QED BY <2>1, <3>3, <3>5, <4>2 DEF Accounted
    <3> QED BY <3>4, <3>5
  <2>2. CASE /\ t # 0 /\ st2[i].token = t /\ st2[i].state = "pending"
             /\ st2[i].total = n /\ st2[i].confirmed = 0 /\ n # 0
    <3>1. t = next /\ m = next + 1 /\ t < m
      BY <2>2
    <3>2. At(new, t) = p .. p + n - 1
      <4>1. \A k \in At(new, t) : k \in p .. p + n - 1
        <5> TAKE k \in At(new, t)
        <5>1. k \in 1 .. Len(new) /\ new[k].token = t
          BY DEF At
        <5>2. k \notin K
          <6> SUFFICES ASSUME k \in K PROVE FALSE
            OBVIOUS
          <6>1. from(k) \in 1 .. Len(s) /\ new[k] = s[from(k)]
            BY <1>4, <5>1
          <6> HIDE DEF from
          <6>2. s[from(k)].token < next
            BY <6>1 DEF LineOK, TokensOK
          <6> QED BY <3>1, <5>1, <6>1, <6>2
        <5>3. p <= k /\ k < p + n
          BY <1>5, <5>1, <5>2
        <5> QED BY <1>2, <5>1, <5>3
      <4>2. \A k \in p .. p + n - 1 : k \in At(new, t)
        <5> TAKE k \in p .. p + n - 1
        <5>1. k \in 1 .. Len(new) /\ p <= k /\ k < p + n
          BY <1>2
        <5>2. k \notin K
          BY <1>2, <5>1
        <5>3. new[k].token = t
          BY <1>5, <5>1, <5>2
        <5> QED BY <5>1, <5>3 DEF At
      <4> QED BY <4>1, <4>2
    <3>3. Cardinality(At(new, t)) = n
      <4>1. p \in Int /\ p + n - 1 \in Int /\ p <= p + n - 1 /\ (p + n - 1) - p + 1 = n
        BY <1>2, <2>2
      <4>2. Cardinality(p .. p + n - 1) = (p + n - 1) - p + 1
        BY <4>1, FS_Interval
      <4> QED BY <3>2, <4>1, <4>2
    <3>4. At(new, t) # {}
      <4>1. p \in p .. p + n - 1
        BY <1>2, <2>2
      <4> QED BY <3>2, <4>1
    <3>5. n = st2[i].total - st2[i].confirmed
      BY <1>2, <2>2
    <3> HIDE DEF m
    <3> QED BY <2>2, <3>1, <3>3, <3>4, <3>5 DEF Accounted
  <2> QED BY <2>1, <2>2 DEF n
<1> QED BY <1>7, <1>8, <1>10 DEF LineOK

\* Frames of no batch are put in.
LEMMA BlockOfNone ==
  ASSUME NEW s \in Seq(Item), NEW new \in Seq(Item), NEW items \in Seq(Item), NEW p,
         Block(new, s, items, p), NEW rank \in Nat,
         \A i \in 1 .. Len(items) : items[i].rank = rank /\ items[i].token = 0,
         NEW x, NEW st \in Records, NEW next \in Nat \ {0}, LineOK(s, x, st, next), Fits(s, x, p, rank)
  PROVE  LineOK(new, x, st, next)
<1> DEFINE t == 0
<1>1. /\ t \in Nat /\ t \in {0, next} /\ next = IF t = 0 THEN next ELSE next + 1
      /\ \A i \in 1 .. Len(items) : items[i].rank = rank /\ items[i].token = t
      /\ \A i \in Can!Slots : st[i] = st[i]
  OBVIOUS
<1> HIDE DEF t
<1>2. LineOK(new, x, st, IF t = 0 THEN next ELSE next + 1)
  BY <1>1, BlockKeeps
<1> QED BY <1>1, <1>2

\* Frames of a new batch are put in.
LEMMA BlockOfNew ==
  ASSUME NEW s \in Seq(Item), NEW new \in Seq(Item), NEW items \in Seq(Item), NEW p,
         Block(new, s, items, p), NEW rank \in Nat, NEW t \in Nat \ {0},
         \A i \in 1 .. Len(items) : items[i].rank = rank /\ items[i].token = t,
         NEW x, NEW st \in Records, LineOK(s, x, st, t), Fits(s, x, p, rank),
         NEW st2, Len(items) # 0,
         \A i \in Can!Slots : \/ st2[i] = st[i]
                              \/ /\ st2[i].token = t /\ st2[i].state = "pending"
                                 /\ st2[i].total = Len(items) /\ st2[i].confirmed = 0
  PROVE  LineOK(new, x, st2, t + 1)
<1> DEFINE next == t
<1>1. /\ t \in Nat /\ t \in {0, next} /\ t + 1 = IF t = 0 THEN next ELSE next + 1
      /\ next \in Nat \ {0} /\ LineOK(s, x, st, next)
      /\ \A i \in Can!Slots : \/ st2[i] = st[i]
                              \/ /\ t # 0 /\ st2[i].token = t /\ st2[i].state = "pending"
                                 /\ st2[i].total = Len(items) /\ st2[i].confirmed = 0
                                 /\ Len(items) # 0
  OBVIOUS
<1> HIDE DEF next
<1>2. LineOK(new, x, st2, IF t = 0 THEN next ELSE next + 1)
  BY <1>1, BlockKeeps
<1> QED BY <1>1, <1>2

LEMMA JoinedBlock ==
  ASSUME NEW S, NEW s \in Seq(S), NEW items \in Seq(S)
  PROVE  Block(s \o items, s, items, Len(s) + 1)
<1> DEFINE new == s \o items
           n == Len(items)
           p == Len(s) + 1
<1>1. /\ n \in Nat /\ Len(s) \in Nat /\ Len(new) = Len(s) + n
      /\ \A k \in 1 .. Len(s) + n : new[k] = IF k <= Len(s) THEN s[k] ELSE items[k - Len(s)]
  BY LenProperties, ConcatProperties
<1> HIDE DEF new, n
<1>2. ASSUME NEW k \in 1 .. Len(new)
      PROVE  /\ k < p => new[k] = s[k]
             /\ p <= k => new[k] = items[k - p + 1]
             /\ ~(p + n <= k)
  <2>1. k < p <=> k <= Len(s)
    BY <1>1
  <2>2. k - p + 1 = k - Len(s) /\ ~(p + n <= k) /\ (p <= k <=> ~(k <= Len(s)))
    BY <1>1
  <2> HIDE DEF p
  <2>3. new[k] = IF k <= Len(s) THEN s[k] ELSE items[k - Len(s)]
    BY <1>1
  <2> QED BY <2>1, <2>2, <2>3
<1>3. p \in 1 .. Len(s) + 1
  BY <1>1
<1> HIDE DEF p
<1>4. Block(new, s, items, p)
  BY <1>1, <1>2, <1>3 DEF Block, n
<1> QED BY <1>4 DEF new, p

LEMMA PutInBlock ==
  ASSUME NEW S, NEW s \in Seq(S), NEW items \in Seq(S), NEW p \in 1 .. Len(s) + 1
  PROVE  LET new == SubSeq(s, 1, p - 1) \o items \o SubSeq(s, p, Len(s))
         IN  new \in Seq(S) /\ Block(new, s, items, p)
<1> DEFINE a == SubSeq(s, 1, p - 1)
           b == SubSeq(s, p, Len(s))
           n == Len(items)
           w == a \o items
           new == w \o b
<1>1. Len(s) \in Nat /\ p \in Nat /\ 1 <= p /\ p <= Len(s) + 1 /\ \A i \in 1 .. Len(s) : s[i] \in S
  BY LenProperties, ElementOfSeq
<1>2. a \in Seq(S) /\ Len(a) = p - 1 /\ \A i \in 1 .. p - 1 : a[i] = s[i]
  <2>1. \A i \in 1 .. p - 1 : s[i] \in S
    BY <1>1
  <2>2. /\ a \in Seq(S)
        /\ Len(a) = IF 1 <= p - 1 THEN p - 1 - 1 + 1 ELSE 0
        /\ \A i \in 1 .. p - 1 - 1 + 1 : a[i] = s[1 + i - 1]
    BY <1>1, <2>1, SubSeqProperties
  <2> HIDE DEF a
  <2>3. Len(a) = p - 1 /\ \A i \in 1 .. p - 1 : 1 + i - 1 = i
    BY <1>1, <2>2
  <2> QED BY <1>1, <2>2, <2>3
<1>3. b \in Seq(S) /\ Len(b) = Len(s) + 1 - p /\ \A i \in 1 .. Len(b) : b[i] = s[p + i - 1]
  <2>1. \A i \in p .. Len(s) : s[i] \in S
    BY <1>1
  <2>2. /\ b \in Seq(S)
        /\ Len(b) = IF p <= Len(s) THEN Len(s) - p + 1 ELSE 0
        /\ \A i \in 1 .. Len(s) - p + 1 : b[i] = s[p + i - 1]
    BY <1>1, <2>1, SubSeqProperties
  <2> HIDE DEF b
  <2>3. Len(b) = Len(s) + 1 - p
    BY <1>1, <2>2
  <2> QED BY <1>1, <2>2, <2>3
<1> HIDE DEF a, b
<1>4. /\ n \in Nat /\ w \in Seq(S) /\ Len(w) = Len(a) + n
      /\ \A k \in 1 .. Len(a) + n : w[k] = IF k <= Len(a) THEN a[k] ELSE items[k - Len(a)]
  BY <1>2, LenProperties, ConcatProperties
<1> HIDE DEF w, n
<1>5. /\ new \in Seq(S) /\ Len(new) = Len(w) + Len(b)
      /\ \A k \in 1 .. Len(w) + Len(b) : new[k] = IF k <= Len(w) THEN w[k] ELSE b[k - Len(w)]
  BY <1>3, <1>4, ConcatProperties
<1> HIDE DEF new
<1>6. Len(w) = p - 1 + n /\ Len(new) = Len(s) + n
  BY <1>1, <1>2, <1>3, <1>4, <1>5
<1>60. /\ Len(s) \in Nat /\ p \in Nat /\ n \in Nat /\ 1 <= p /\ p <= Len(s) + 1
       /\ Len(a) = p - 1 /\ Len(b) = Len(s) + 1 - p /\ Len(w) = p - 1 + n /\ Len(new) = Len(s) + n
  BY <1>1, <1>2, <1>3, <1>4, <1>6
<1>7. ASSUME NEW k \in 1 .. Len(new)
      PROVE  /\ k < p => new[k] = s[k]
             /\ p <= k /\ k < p + n => new[k] = items[k - p + 1]
             /\ p + n <= k => new[k] = s[k - n]
  <2>1. CASE k < p
    <3>1. k \in 1 .. p - 1 /\ k \in 1 .. Len(a) + n /\ k <= Len(a) /\ k <= Len(w) /\ ~(p <= k) /\ ~(p + n <= k)
          /\ k \in 1 .. Len(w) + Len(b)
      BY <1>60, <2>1
    <3>2. new[k] = w[k] /\ w[k] = a[k] /\ a[k] = s[k]
      BY <1>2, <1>4, <1>5, <3>1
    <3> QED BY <3>1, <3>2
  <2>2. CASE p <= k /\ k < p + n
    <3>1. /\ k \in 1 .. Len(a) + n /\ ~(k <= Len(a)) /\ k <= Len(w) /\ ~(k < p) /\ ~(p + n <= k)
          /\ k \in 1 .. Len(w) + Len(b) /\ k - Len(a) = k - p + 1
      BY <1>60, <2>2
    <3>2. new[k] = w[k] /\ w[k] = items[k - Len(a)]
      BY <1>4, <1>5, <3>1
    <3> QED BY <3>1, <3>2
  <2>3. CASE p + n <= k
    <3>1. /\ ~(k <= Len(w)) /\ ~(k < p) /\ ~(k < p + n)
          /\ k \in 1 .. Len(w) + Len(b) /\ k - Len(w) \in 1 .. Len(b) /\ p + (k - Len(w)) - 1 = k - n
      BY <1>60, <2>3
    <3>2. new[k] = b[k - Len(w)] /\ b[k - Len(w)] = s[p + (k - Len(w)) - 1]
      BY <1>3, <1>5, <3>1
    <3> QED BY <3>1, <3>2
  <2> QED BY <1>1, <1>4, <2>1, <2>2, <2>3
<1>8. Block(new, s, items, p)
  BY <1>6, <1>7 DEF Block, n
<1> QED BY <1>5, <1>8 DEF new, w, a, b

\* tx_push_priority puts in where it may.
LEMMA InsertedBlock ==
  ASSUME NEW s \in Seq(Item), NEW items \in Seq(Item), NEW rank \in Nat, tx # "idle" => s # <<>>
  PROVE  /\ Can!Inserted(items, rank, s) \in Seq(Item)
         /\ \E p : Block(Can!Inserted(items, rank, s), s, items, p) /\ Fits(s, tx, p, rank)
<1> DEFINE ok(p) == /\ p <= Len(s) => s[p].rank < rank
                    /\ \A j \in Can!FirstToOvertake .. p - 1 : s[j].rank >= rank
           p == CHOOSE i \in Can!FirstToOvertake .. Len(s) + 1 : ok(i)
           new == SubSeq(s, 1, p - 1) \o items \o SubSeq(s, p, Len(s))
<1>1. p \in Can!FirstToOvertake .. Len(s) + 1 /\ ok(p)
  <2>1. \E i \in Can!FirstToOvertake .. Len(s) + 1 : ok(i)
    BY PlaceExists
  <2> HIDE DEF ok
  <2> QED BY <2>1
<1>2. Can!Inserted(items, rank, s) = new
  BY DEF Can!Inserted
<1> HIDE DEF p
<1>3. Can!FirstToOvertake = (IF tx = "idle" THEN 1 ELSE 2) /\ Len(s) \in Nat
  BY LenProperties DEF Can!FirstToOvertake
<1>4. p \in 1 .. Len(s) + 1
  BY <1>1, <1>3
<1>5. new \in Seq(Item) /\ Block(new, s, items, p)
  BY <1>4, PutInBlock
<1>6. Fits(s, tx, p, rank)
  <2>1. tx # "idle" => p # 1
    BY <1>1, <1>3
  <2>2. ASSUME NEW j \in 1 .. Len(s), j < p PROVE s[j].rank >= rank \/ (j = 1 /\ tx # "idle")
    <3>1. j \in Can!FirstToOvertake .. p - 1 \/ (j = 1 /\ tx # "idle")
      BY <1>3, <1>4, <2>2
    <3> QED BY <1>1, <3>1
  <2> QED BY <1>1, <2>1, <2>2 DEF Fits
<1> HIDE DEF new
<1> QED BY <1>2, <1>5, <1>6

\* What is queued as usual goes to the end.
LEMMA JoinedFits ==
  ASSUME NEW s \in Seq(Item), NEW x, x # "idle" => s # <<>>
  PROVE  Fits(s, x, Len(s) + 1, 0)
<1>1. Len(s) \in Nat /\ (s # <<>> => Len(s) # 0)
  BY LenProperties, EmptySeq
<1>2. \A i \in 1 .. Len(s) : s[i].rank \in Nat
  <2>1. \A i \in 1 .. Len(s) : s[i] \in Item
    BY ElementOfSeq
  <2> QED BY <2>1 DEF Item
<1> QED BY <1>1, <1>2 DEF Fits

\* The head stays when something is put in behind it.
LEMMA BlockHead ==
  ASSUME NEW S, NEW s \in Seq(S), NEW new \in Seq(S), NEW items \in Seq(S), NEW p, Block(new, s, items, p), p # 1
  PROVE  Head(new) = Head(s)
<1>1. Len(s) \in Nat /\ Len(items) \in Nat /\ Len(new) \in Nat
  BY LenProperties
<1>2. Len(s) # 0 /\ Len(new) # 0 /\ 1 \in 1 .. Len(new) /\ 1 < p
  BY <1>1 DEF Block
<1>3. new[1] = s[1]
  BY <1>2 DEF Block
<1>4. s # <<>> /\ new # <<>>
  BY <1>2
<1> QED BY <1>3, <1>4, HeadFirst

LEMMA ItemsAre ==
  ASSUME NEW cmds \in Seq(Can!Commands), NEW from \in Tasks \cup {Nobody},
         NEW token \in Nat, NEW rank \in Nat, from = Nobody \/ Len(cmds) = 1,
         token # 0 => from = Nobody
  PROVE  LET items == Can!Items(cmds, from, token, rank)
         IN  /\ items \in Seq(Item) /\ Len(items) = Len(cmds)
             /\ \A i \in 1 .. Len(items) : items[i].rank = rank /\ items[i].token = token
<1> DEFINE items == Can!Items(cmds, from, token, rank)
<1>1. items \in Seq(Item) /\ Len(items) = Len(cmds)
  BY AloneItems
<1>2. DOMAIN cmds = 1 .. Len(cmds)
  BY LenProperties
<1>3. items = [i \in 1 .. Len(cmds) |-> [cmd |-> cmds[i], from |-> from, token |-> token, rank |-> rank]]
  BY <1>2 DEF Can!Items
<1>4. \A i \in 1 .. Len(cmds) : items[i].rank = rank /\ items[i].token = token
  BY <1>3
<1> HIDE DEF items
<1> QED BY <1>1, <1>4 DEF items

LEMMA AllocatedTable ==
  ASSUME NEW st \in Records, NEW n, Can!Allocate(st, n)
  PROVE  /\ nextToken' = nextToken + 1
         /\ \A i \in Can!Slots : \/ status'[i] = st[i]
                                 \/ /\ status'[i].token = nextToken /\ status'[i].state = "pending"
                                    /\ status'[i].total = n /\ status'[i].confirmed = 0
<1> DEFINE slot == Can!NextSlot(st)
           r == [token |-> nextToken, state |-> "pending", total |-> n, confirmed |-> 0]
<1>1. status' = [st EXCEPT ![slot] = r] /\ nextToken' = nextToken + 1
  BY DEF Can!Allocate
<1>2. r.token = nextToken /\ r.state = "pending" /\ r.total = n /\ r.confirmed = 0
  OBVIOUS
<1> HIDE DEF slot, r
<1>3. DOMAIN st = Can!Slots
  BY DEF Records
<1>4. \A i \in Can!Slots : status'[i] = st[i] \/ status'[i] = r
  BY <1>1, <1>3
<1> QED BY <1>1, <1>2, <1>4

-----------------------------------------------------------------------------
\* The queue with its ranks, and the table of batches that accounts for it.
LineInv == LineOK(q, tx, status, nextToken)

\* The frame on the wire is not displaced.
HeadStays == tx # "idle" /\ tx' # "idle" => Head(q') = Head(q)

LEMMA LineStill ==
  ASSUME CanInv, LineInv, q' = q, status' = status, nextToken' = nextToken,
         tx # "idle" => tx' # "idle"
  PROVE  LineInv' /\ HeadStays
<1>1. q \in Seq(Item)
  BY DEF CanInv, QueueOK
<1>2. LineOK(q, tx', status, nextToken)
  BY <1>1, WireKeeps DEF LineInv
<1> QED BY <1>2 DEF LineInv, HeadStays

LEMMA FailHeadLine ==
  ASSUME CanInv, LineInv, q # <<>>, Can!FailHead, tx' = "idle", nextToken' = nextToken
  PROVE  LineInv' /\ HeadStays
<1> DEFINE gone == {x \in Can!Members(q) : x.token # 0 /\ x.token = Head(q).token}
           t == Tail(q)
           rest == Members(t) \ gone
           r == Kept(t, rest)
           K == {k \in 2 .. Len(q) : q[k] \in rest}
           T == {Head(q).token} \ {0}
<1>1. q \in Seq(Item) /\ StatusOK
  BY DEF CanInv, QueueOK
<1>2. /\ t \in Seq(Item) /\ Head(q) = q[1] /\ 1 \in 1 .. Len(q) /\ Len(q) \in Nat
      /\ Len(t) = Len(q) - 1 /\ \A i \in 1 .. Len(t) : t[i] = q[i + 1]
  BY <1>1, AloneTail, LenProperties DEF CanInv, QueueOK
<1>3. q' = r /\ status' = Can!WithFailed(T)
  BY CanLists DEF Can!FailHead, Can!WithoutHead, Without
<1>4. \A k \in 1 .. Len(q) : q[k] \in gone <=> q[k].token # 0 /\ q[k].token = q[1].token
  <2>1. \A k \in 1 .. Len(q) : q[k] \in Can!Members(q)
    BY <1>1, MembersPos, CanLists
  <2> QED BY <1>2, <2>1
<1>5. \A k \in 2 .. Len(q) : q[k] \in Members(t)
  <2> TAKE k \in 2 .. Len(q)
  <2>1. k - 1 \in 1 .. Len(t) /\ (k - 1) + 1 = k
    BY <1>2
  <2>2. t[k - 1] = q[k]
    BY <1>2, <2>1
  <2> QED BY <1>2, <2>1, <2>2, MembersPos
<1>6. r \in Seq(Item)
  <2>1. t \in Seq(Item)
    BY <1>2
  <2> HIDE DEF t, rest
  <2> QED BY <2>1, KeptLine
<1> HIDE DEF gone
<1>7. PICK h : Cut(r, q, K, h)
  <2>1. \E h : Cut(Kept(Tail(q), rest), q, {k \in 2 .. Len(q) : q[k] \in rest}, h)
    <3> HIDE DEF rest
    <3> QED BY <1>1, TailCut
  <2> QED BY <2>1
<1>8. FailedIn(status', status, T)
  BY <1>1, <1>3, FailedAre
<1> HIDE DEF r, t
<1>9. \A k \in 1 .. Len(q) : k \in K \/ q[k].token \in T \cup {0}
  <2> TAKE k \in 1 .. Len(q)
  <2>1. CASE k = 1
    BY <1>2, <2>1
  <2>2. CASE k # 1
    <3>1. k \in 2 .. Len(q)
      BY <1>2, <2>2
    <3> QED BY <1>2, <1>4, <1>5, <3>1
  <2> QED BY <2>1, <2>2
<1>10. \A k \in K : ~(q[k].token \in T)
  <2> TAKE k \in K
  <2>1. k \in 1 .. Len(q) /\ q[k] \notin gone
    BY <1>2
  <2> QED BY <1>2, <1>4, <2>1
<1>11. ~(1 \in K)
  BY <1>2
<1> HIDE DEF K, T
<1>12. LineOK(r, "idle", status', nextToken)
  BY <1>1, <1>6, <1>7, <1>8, <1>9, <1>10, <1>11, CutKeeps DEF LineInv
<1> QED BY <1>3, <1>12 DEF LineInv, HeadStays

LEMMA FailAllLine ==
  ASSUME CanInv, LineInv, Can!FailAll, nextToken' = nextToken
  PROVE  LineInv' /\ HeadStays
<1> DEFINE T == Can!Tokens(q)
           none == <<>>
           h == [i \in 1 .. Len(none) |-> 1]
<1>1. q \in Seq(Item) /\ StatusOK
  BY DEF CanInv, QueueOK
<1>2. q' = none /\ status' = Can!WithFailed(T) /\ tx' = "idle"
  BY DEF Can!FailAll
<1>3. none \in Seq(Item) /\ Len(none) = 0
  OBVIOUS
<1>4. Cut(none, q, {}, h)
  BY <1>3 DEF Cut
<1>5. FailedIn(status', status, T)
  BY <1>1, <1>2, FailedAre
<1>6. \A k \in 1 .. Len(q) : q[k].token \in T \cup {0}
  <2>1. \A k \in 1 .. Len(q) : q[k] \in Members(q)
    BY <1>1, MembersPos
  <2> QED BY <2>1, CanLists DEF Can!Tokens
<1> HIDE DEF none, h, T
<1>7. LineOK(none, "idle", status', nextToken)
  <2> DEFINE K == {}
  <2>1. Cut(none, q, K, h) /\ ~(1 \in K) /\ \A k \in K : FALSE
    BY <1>4
  <2>2. \A k \in 1 .. Len(q) : k \in K \/ q[k].token \in T \cup {0}
    BY <1>6
  <2> HIDE DEF K
  <2> QED BY <1>1, <1>3, <1>5, <2>1, <2>2, CutKeeps DEF LineInv
<1> QED BY <1>2, <1>7 DEF LineInv, HeadStays

LEMMA CancelLine ==
  ASSUME CanInv, LineInv, NEW t, Can!HandleCancel(t)
  PROVE  LineInv' /\ HeadStays
<1>1. q \in Seq(Item) /\ StatusOK /\ (tx # "idle" => q # <<>>)
  BY DEF CanInv, QueueOK
<1>2. CASE Can!Refuse
  <2>1. UNCHANGED <<q, status, nextToken, tx>>
    BY <1>2 DEF Can!Refuse, Can!server, Can!batches
  <2> QED BY <2>1, LineStill
<1>3. CASE ~Can!Refuse
  <2> DEFINE gone == {x \in Can!Members(q) : x.token = t}
             rest == Members(q) \ gone
             r == Kept(q, rest)
             heads == q # <<>> /\ Head(q).token = t
             K == {k \in 1 .. Len(q) : q[k] \in rest}
             T == {t}
  <2>1. /\ tx' = IF heads THEN "idle" ELSE tx
        /\ status' = Can!WithFailed(T)
        /\ q' = r /\ nextToken' = nextToken
    BY <1>3, CanLists DEF Can!HandleCancel, Without
  <2>2. \A k \in 1 .. Len(q) : q[k] \in rest <=> q[k].token # t
    <3>1. \A k \in 1 .. Len(q) : q[k] \in Can!Members(q) /\ q[k] \in Members(q)
      BY <1>1, MembersPos, CanLists
    <3> QED BY <3>1
  <2> HIDE DEF gone
  <2>3. PICK h : Cut(r, q, K, h)
    <3>1. \E h : Cut(Kept(q, rest), q, {k \in 1 .. Len(q) : q[k] \in rest}, h)
      <4> HIDE DEF rest
      <4> QED BY <1>1, KeptCut
    <3> QED BY <3>1
  <2>4. r \in Seq(Item)
    BY <1>1, KeptLine
  <2>5. FailedIn(status', status, T)
    BY <1>1, <2>1, FailedAre
  <2> HIDE DEF r, rest
  <2>6. \A k \in 1 .. Len(q) : k \in K \/ q[k].token \in T \cup {0}
    BY <2>2
  <2>7. \A k \in K : ~(q[k].token \in T)
    BY <2>2
  <2>8. 1 \in K => ~heads
    <3> SUFFICES ASSUME 1 \in K, q # <<>> PROVE Head(q).token # t
      OBVIOUS
    <3>1. Head(q) = q[1]
      BY <1>1, HeadFirst
    <3> QED BY <2>2, <3>1
  <2>9. q # <<>> /\ ~heads => 1 \in K
    <3> SUFFICES ASSUME q # <<>>, Head(q).token # t PROVE 1 \in K
      OBVIOUS
    <3>1. Head(q) = q[1] /\ Len(q) \in Nat \ {0}
      BY <1>1, HeadFirst
    <3>2. 1 \in 1 .. Len(q)
      BY <3>1
    <3> QED BY <2>2, <3>1, <3>2
  <2> HIDE DEF K, T, heads
  <2>10. LineOK(r, tx', status', nextToken)
    <3>1. 1 \in K /\ tx # "idle" => tx' # "idle"
      BY <2>1, <2>8
    <3> QED BY <1>1, <2>3, <2>4, <2>5, <2>6, <2>7, <3>1, CutKeeps DEF LineInv
  <2>11. HeadStays
    <3> SUFFICES ASSUME tx # "idle", tx' # "idle" PROVE Head(r) = Head(q)
      BY <2>1 DEF HeadStays
    <3>1. 1 \in K
      BY <1>1, <2>1, <2>9
    <3> QED BY <1>1, <2>3, <2>4, <3>1, CutFirst
  <2> QED BY <2>1, <2>10, <2>11 DEF LineInv
<1> QED BY <1>2, <1>3

\* What is left when the queue is cleared for something more urgent.
LEMMA SparedLine ==
  ASSUME CanInv, LineInv, NEW rank \in Nat, NEW f,
         FailedIn(f, status, {x.token : x \in Can!Cancelled(rank)} \ {0})
  PROVE  LineOK(Can!Spared(rank), tx, f, nextToken) /\ (tx # "idle" => Head(Can!Spared(rank)) = Head(q))
<1> DEFINE urgent == {x \in Can!Members(q) : x.rank >= rank}
           room == Can!Spared(rank)
           T == {x.token : x \in Can!Cancelled(rank)} \ {0}
           K == {k \in 1 .. Len(q) : (k = 1 /\ tx # "idle") \/ q[k] \in urgent}
<1>1. q \in Seq(Item) /\ (tx # "idle" => q # <<>>)
  BY DEF CanInv, QueueOK
<1>2. \A i \in 1 .. Len(q) : q[i].rank \in Nat /\ (q[i] \in urgent <=> q[i].rank >= rank)
  <2>1. \A i \in 1 .. Len(q) : q[i] \in Item /\ q[i] \in Can!Members(q)
    BY <1>1, ElementOfSeq, MembersPos, CanLists
  <2> QED BY <2>1 DEF Item
<1>3. room \in Seq(Item)
  BY SparedRest
<1>4. \A t : t \in T <=> t # 0 /\ \E i \in 1 .. Len(q) : q[i].token = t /\ q[i].rank < rank /\ (i = 1 => tx = "idle")
  <2>1. DOMAIN q = 1 .. Len(q)
    BY <1>1, LenProperties
  <2>2. T = {x.token : x \in {q[i] : i \in {j \in 1 .. Len(q) : q[j].rank < rank /\ (j = 1 => tx = "idle")}}} \ {0}
    BY <2>1 DEF Can!Cancelled
  <2> HIDE DEF T
  <2> QED BY <2>2
<1>5. \E h : Cut(room, q, K, h)
  <2> HIDE DEF urgent
  <2>1. CASE tx = "idle"
    <3>1. room = Kept(q, urgent)
      BY <2>1, CanLists DEF Can!Spared, urgent
    <3>2. K = {k \in 1 .. Len(q) : q[k] \in urgent}
      BY <2>1
    <3>3. \E h : Cut(Kept(q, urgent), q, {k \in 1 .. Len(q) : q[k] \in urgent}, h)
      BY <1>1, KeptCut
    <3> HIDE DEF room, K
    <3> QED BY <3>1, <3>2, <3>3
  <2>2. CASE tx # "idle"
    <3>1. room = <<Head(q)>> \o Kept(Tail(q), urgent)
      BY <2>2, CanLists DEF Can!Spared, urgent
    <3>2. K = {k \in 1 .. Len(q) : k = 1 \/ q[k] \in urgent}
      BY <2>2
    <3>3. \E h : Cut(<<Head(q)>> \o Kept(Tail(q), urgent), q, {k \in 1 .. Len(q) : k = 1 \/ q[k] \in urgent}, h)
      BY <1>1, <2>2, HeadCut
    <3> HIDE DEF room, K
    <3> QED BY <3>1, <3>2, <3>3
  <2> QED BY <2>1, <2>2
<1> HIDE DEF urgent, room, T
<1>6. PICK h : Cut(room, q, K, h)
  BY <1>5
<1>7. \A k \in 1 .. Len(q) : k \in K \/ q[k].token \in T \cup {0}
  <2> TAKE k \in 1 .. Len(q)
  <2>1. CASE k \notin K
    <3>1. q[k].rank < rank /\ (k = 1 => tx = "idle")
      BY <1>2, <2>1
    <3> QED BY <1>4, <3>1
  <2> QED BY <2>1
<1>8. \A k \in K : q[k].token \in T => k = 1 /\ tx # "idle"
  <2> SUFFICES ASSUME NEW k \in K, q[k].token \in T, ~(k = 1 /\ tx # "idle") PROVE FALSE
    OBVIOUS
  <2>1. k \in 1 .. Len(q) /\ q[k].rank >= rank /\ q[k].rank \in Nat
    BY <1>2
  <2>2. PICK i \in 1 .. Len(q) : q[i].token = q[k].token /\ q[i].rank < rank
    BY <1>4
  <2>3. q[k].token # 0
    BY <1>4
  <2>4. \A a, b \in 1 .. Len(q) : q[a].token # 0 /\ q[a].token = q[b].token => q[a].rank = q[b].rank
    BY DEF LineInv, LineOK, TokensOK
  <2>5. q[i].rank = q[k].rank
    BY <2>1, <2>2, <2>3, <2>4
  <2> QED BY <2>1, <2>2, <2>5
<1>9. tx # "idle" => 1 \in K
  <2> SUFFICES ASSUME tx # "idle" PROVE 1 \in 1 .. Len(q)
    OBVIOUS
  <2>1. Len(q) \in Nat \ {0}
    BY <1>1, HeadFirst
  <2> QED BY <2>1
<1> HIDE DEF K
<1>10. FailedIn(f, status, T)
  BY DEF T
<1>11. LineOK(room, tx, f, nextToken)
  BY <1>1, <1>3, <1>6, <1>7, <1>8, <1>10, CutKeeps DEF LineInv
<1>12. tx # "idle" => Head(room) = Head(q)
  BY <1>1, <1>3, <1>6, <1>9, CutFirst
<1> QED BY <1>11, <1>12 DEF room

\* The head is confirmed.
LEMMA ConfirmsLine ==
  ASSUME CanInv, LineInv, Can!FrameConfirms
  PROVE  LineInv' /\ HeadStays
<1>1. q \in Seq(Item) /\ StatusOK /\ q # <<>>
  BY DEF CanInv, QueueOK, Can!FrameConfirms, Can!IsAnswer
<1>2. q' = Tail(q) /\ tx' = "idle" /\ status' = Can!WithConfirmed(Head(q).token) /\ nextToken' = nextToken
  BY DEF Can!FrameConfirms
<1>3. LineOK(Tail(q), "idle", status', nextToken)
  BY <1>1, <1>2, ConfirmKeeps DEF LineInv
<1> QED BY <1>2, <1>3 DEF LineInv, HeadStays

\* What a request finds, and what its frames are.
LEMMA RequestLine ==
  ASSUME CanInv
  PROVE  /\ q \in Seq(Item) /\ status \in Records /\ StatusOK /\ nextToken \in Nat \ {0}
         /\ tx # "idle" => q # <<>>
         /\ 0 \in Nat /\ 1 \in Nat /\ 2 \in Nat /\ nextToken \in Nat /\ Nobody \in Tasks \cup {Nobody}
         /\ Can!Normal = 0 /\ Can!Urgent = 1 /\ Can!Stop = 2
BY DEF CanInv, QueueOK, StatusOK, Can!Normal, Can!Urgent, Can!Stop

LEMMA HandleConfirmedLine ==
  ASSUME CanInv, LineInv, NEW cmds, Can!HandleConfirmed(cmds)
  PROVE  LineInv' /\ HeadStays
<1>1. msg.kind = "request" /\ msg.from \in Tasks /\ cmds \in Can!One(Can!Absolute)
  BY AskedFor DEF Can!HandleConfirmed
<1>2. CASE Can!Refuse
  <2>1. UNCHANGED <<q, status, nextToken, tx>>
    BY <1>2 DEF Can!Refuse, Can!server, Can!batches
  <2> QED BY <2>1, LineStill
<1>3. CASE ~Can!Refuse
  <2> DEFINE items == Can!Items(cmds, msg.from, 0, 0)
             new == q \o items
             p == Len(q) + 1
  <2>1. Can!Queued(new, cmds) /\ UNCHANGED Can!batches
    BY <1>3, RequestLine DEF Can!HandleConfirmed
  <2>2. q' = new /\ tx' = tx /\ status' = status /\ nextToken' = nextToken
    BY <2>1, QueuedRest DEF Can!batches
  <2>3. cmds \in Seq(Can!Commands) /\ Len(cmds) = 1
    BY <1>1, Choices
  <2>4. /\ items \in Seq(Item)
        /\ \A i \in 1 .. Len(items) : items[i].rank = 0 /\ items[i].token = 0
    BY <1>1, <2>3, ItemsAre
  <2>5. /\ q \in Seq(Item) /\ status \in Records /\ nextToken \in Nat \ {0} /\ (tx # "idle" => q # <<>>)
        /\ 0 \in Nat
    BY RequestLine
  <2> HIDE DEF items
  <2>6. new \in Seq(Item)
    BY <2>4, <2>5, ConcatProperties
  <2>7. Block(new, q, items, p)
    BY <2>4, <2>5, JoinedBlock
  <2>8. Fits(q, tx, p, 0)
    BY <2>5, JoinedFits
  <2> HIDE DEF new, p
  <2>10. LineOK(new, tx, status, nextToken)
    BY <2>4, <2>5, <2>6, <2>7, <2>8, BlockOfNone DEF LineInv
  <2>11. tx # "idle" => Head(new) = Head(q)
    <3> SUFFICES ASSUME tx # "idle" PROVE Head(new) = Head(q)
      OBVIOUS
    <3>1. p # 1
      BY <2>8 DEF Fits
    <3> QED BY <2>4, <2>5, <2>6, <2>7, <3>1, BlockHead
  <2> QED BY <2>2, <2>10, <2>11 DEF LineInv, HeadStays
<1> QED BY <1>2, <1>3

LEMMA SeveralAre ==
  ASSUME NEW cmds, NEW C \in SUBSET Can!Commands, cmds \in Can!Several(C)
  PROVE  cmds \in Seq(Can!Commands) /\ Len(cmds) # 0
<1>1. cmds \in Seq(Can!Commands)
  BY Choices
<1>2. PICK k \in 1 .. BatchMax : cmds \in [1 .. k -> C]
  BY DEF Can!Several
<1>3. k \in Nat /\ k # 0
  BY ComponentAssumptions DEF Can!CanAssumption
<1>4. DOMAIN cmds = 1 .. Len(cmds) /\ Len(cmds) \in Nat /\ DOMAIN cmds = 1 .. k
  BY <1>1, <1>2, LenProperties
<1>5. 1 \in 1 .. Len(cmds)
  BY <1>3, <1>4
<1> QED BY <1>1, <1>4, <1>5

LEMMA HandleBatchLine ==
  ASSUME CanInv, LineInv, NEW cmds, Can!HandleBatch(cmds)
  PROVE  LineInv' /\ HeadStays
<1>1. msg.kind = "request" /\ msg.from \in Tasks /\ cmds \in Can!Several(Speeds) \cup Can!Several(Turnouts)
  <2>1. /\ Can!Asks({DispatcherTask}, Can!Several(Speeds) \cup Can!Several(Turnouts), cmds)
        /\ {DispatcherTask} \subseteq Tasks
    BY ComponentAssumptions DEF Can!HandleBatch, Can!CanAssumption
  <2> QED BY <2>1, AskedFor
<1>2. CASE Can!Refuse
  <2>1. UNCHANGED <<q, status, nextToken, tx>>
    BY <1>2 DEF Can!Refuse, Can!server, Can!batches
  <2> QED BY <2>1, LineStill
<1>3. CASE ~Can!Refuse
  <2> DEFINE items == Can!Items(cmds, Nobody, nextToken, 0)
             new == q \o items
             p == Len(q) + 1
             t == nextToken
  <2>1. Can!Allocate(status, Len(cmds)) /\ Can!Queued(new, cmds)
    BY <1>3, RequestLine DEF Can!HandleBatch
  <2>2. q' = new /\ tx' = tx
    BY <2>1, QueuedRest
  <2>3. cmds \in Seq(Can!Commands) /\ Len(cmds) # 0
    BY <1>1, Choices, SeveralAre
  <2>5. /\ q \in Seq(Item) /\ status \in Records /\ nextToken \in Nat \ {0} /\ (tx # "idle" => q # <<>>)
        /\ 0 \in Nat /\ nextToken \in Nat /\ Nobody \in Tasks \cup {Nobody}
    BY RequestLine
  <2>4. /\ items \in Seq(Item) /\ Len(items) = Len(cmds)
        /\ \A i \in 1 .. Len(items) : items[i].rank = 0 /\ items[i].token = t
    BY <2>3, <2>5, ItemsAre
  <2> HIDE DEF items
  <2>6. new \in Seq(Item)
    BY <2>4, <2>5, ConcatProperties
  <2>7. Block(new, q, items, p)
    BY <2>4, <2>5, JoinedBlock
  <2>8. Fits(q, tx, p, 0)
    BY <2>5, JoinedFits
  <2> HIDE DEF new, p
  <2>9. /\ nextToken' = nextToken + 1
        /\ \A i \in Can!Slots : \/ status'[i] = status[i]
                                \/ /\ status'[i].token = t /\ status'[i].state = "pending"
                                   /\ status'[i].total = Len(items) /\ status'[i].confirmed = 0
    BY <2>1, <2>4, <2>5, AllocatedTable
  <2>10. LineOK(new, tx, status', t + 1)
    <3>1. t \in Nat \ {0} /\ LineOK(q, tx, status, t) /\ Len(items) # 0
      BY <2>3, <2>4, <2>5 DEF LineInv
    <3> HIDE DEF t
    <3> QED BY <2>4, <2>5, <2>6, <2>7, <2>8, <2>9, <3>1, BlockOfNew
  <2>11. tx # "idle" => Head(new) = Head(q)
    <3> SUFFICES ASSUME tx # "idle" PROVE Head(new) = Head(q)
      OBVIOUS
    <3>1. p # 1
      BY <2>8 DEF Fits
    <3> QED BY <2>4, <2>5, <2>6, <2>7, <3>1, BlockHead
  <2>12. LineOK(new, tx, status', nextToken')
    BY <2>9, <2>10
  <2> QED BY <2>2, <2>11, <2>12 DEF LineInv, HeadStays
<1> QED BY <1>2, <1>3

LEMMA HandleControlLine ==
  ASSUME CanInv, LineInv, NEW cmds, Can!HandleControl(cmds)
  PROVE  LineInv' /\ HeadStays
<1> DEFINE full == Len(q) >= QueueSize
           room == IF full THEN Can!Spared(Can!Urgent) ELSE q
           went == IF full THEN Can!Cancelled(Can!Urgent) ELSE {}
           T == {x.token : x \in went} \ {0}
           items == Can!Items(cmds, msg.from, 0, Can!Urgent)
           new == Can!Inserted(items, Can!Urgent, room)
<1>1. msg.kind = "request" /\ msg.from \in Tasks /\ cmds \in Can!One(Can!Control)
  <2>1. Can!Asks({DispatcherTask}, Can!One(Can!Control), cmds) /\ {DispatcherTask} \subseteq Tasks
    BY ComponentAssumptions DEF Can!HandleControl, Can!CanAssumption
  <2> QED BY <2>1, AskedFor
<1>2. /\ status' = Can!WithFailed(T) /\ nextToken' = nextToken
      /\ \/ Can!Queued(new, cmds)
         \/ q' = room /\ tx' = tx
  BY DEF Can!HandleControl
<1>3. /\ q \in Seq(Item) /\ status \in Records /\ StatusOK /\ nextToken \in Nat \ {0} /\ (tx # "idle" => q # <<>>)
      /\ 0 \in Nat /\ Can!Urgent = 1 /\ Can!Urgent \in Nat
  BY RequestLine
<1>4. FailedIn(status', status, T) /\ status' \in Records
  BY <1>2, <1>3, FailedAre, FailedRecords
<1>5. room \in Seq(Item) /\ (tx # "idle" => room # <<>> /\ Head(room) = Head(q)) /\ LineOK(room, tx, status', nextToken)
  <2>1. CASE full
    <3>1. room = Can!Spared(Can!Urgent) /\ T = {x.token : x \in Can!Cancelled(Can!Urgent)} \ {0}
      BY <2>1
    <3> HIDE DEF room, T
    <3>2. FailedIn(status', status, {x.token : x \in Can!Cancelled(Can!Urgent)} \ {0})
      BY <1>4, <3>1
    <3>3. room \in Seq(Item) /\ (tx # "idle" => room # <<>>)
      BY <1>3, <3>1, SparedRest
    <3>4. LineOK(Can!Spared(Can!Urgent), tx, status', nextToken) /\ (tx # "idle" => Head(Can!Spared(Can!Urgent)) = Head(q))
      BY <1>3, <3>2, SparedLine
    <3> QED BY <3>1, <3>3, <3>4
  <2>2. CASE ~full
    <3>1. room = q /\ T = {}
      BY <2>2
    <3> HIDE DEF room, T
    <3>2. TableOK(q, tx, status', nextToken)
      <4>1. \A i \in Can!Slots : /\ status'[i].token = status[i].token /\ status'[i].total = status[i].total
                                 /\ status'[i].confirmed = status[i].confirmed
                                 /\ status'[i].state = status[i].state
        BY <1>4, <3>1 DEF FailedIn
      <4>2. \A i \in Can!Slots : status[i].token # 0 =>
               status[i].token < nextToken /\ Accounted(q, tx, status[i])
        BY DEF LineInv, LineOK, TableOK
      <4> QED BY <4>1, <4>2 DEF TableOK, Accounted
    <3>3. LineOK(q, tx, status', nextToken)
      BY <3>2 DEF LineInv, LineOK
    <3> QED BY <1>3, <3>1, <3>3
  <2> QED BY <2>1, <2>2
<1> HIDE DEF room, T, full, went
<1>6. CASE Can!Queued(new, cmds)
  <2>1. q' = new /\ tx' = tx
    BY <1>6, QueuedRest
  <2>2. cmds \in Seq(Can!Commands) /\ Len(cmds) = 1
    BY <1>1, Choices
  <2>3. /\ items \in Seq(Item)
        /\ \A i \in 1 .. Len(items) : items[i].rank = Can!Urgent /\ items[i].token = 0
    BY <1>1, <1>3, <2>2, ItemsAre
  <2> HIDE DEF items
  <2>4. new \in Seq(Item)
    BY <1>3, <1>5, <2>3, InsertedBlock
  <2>5. PICK p : Block(new, room, items, p) /\ Fits(room, tx, p, Can!Urgent)
    BY <1>3, <1>5, <2>3, InsertedBlock
  <2> HIDE DEF new
  <2>10. LineOK(new, tx, status', nextToken)
    BY <1>3, <1>4, <1>5, <2>3, <2>4, <2>5, BlockOfNone
  <2>11. tx # "idle" => Head(new) = Head(q)
    <3> SUFFICES ASSUME tx # "idle" PROVE Head(new) = Head(room)
      BY <1>5
    <3>1. p # 1
      BY <2>5 DEF Fits
    <3> QED BY <1>5, <2>3, <2>4, <2>5, <3>1, BlockHead
  <2> QED BY <1>2, <2>1, <2>10, <2>11 DEF LineInv, HeadStays
<1>7. CASE q' = room /\ tx' = tx
  BY <1>2, <1>5, <1>7 DEF LineInv, HeadStays
<1> QED BY <1>2, <1>6, <1>7

LEMMA HandleEmergencyLine ==
  ASSUME CanInv, LineInv, NEW cmds, Can!HandleEmergency(cmds)
  PROVE  LineInv' /\ HeadStays
<1> DEFINE room == Can!Spared(Can!Stop)
           T == {x.token : x \in Can!Cancelled(Can!Stop)} \ {0}
           remain == Can!WithFailed(T)
           items == Can!Items(cmds, Nobody, nextToken, Can!Stop)
           new == Can!Inserted(items, Can!Stop, room)
           t == nextToken
<1>1. msg.kind = "request" /\ msg.from \in Tasks /\ cmds \in Can!Several(Speeds)
  <2>1. /\ Can!Asks({DispatcherTask}, Can!Several(Speeds), cmds)
        /\ {DispatcherTask} \subseteq Tasks
    BY ComponentAssumptions DEF Can!HandleEmergency, Can!CanAssumption
  <2> QED BY <2>1, AskedFor
<1>2. CASE Can!Refuse
  <2>1. UNCHANGED <<q, status, nextToken, tx>>
    BY <1>2 DEF Can!Refuse, Can!server, Can!batches
  <2> QED BY <2>1, LineStill
<1>3. CASE ~Can!Refuse
  <2>1. \/ Can!Allocate(remain, Len(cmds)) /\ Can!Queued(new, cmds)
        \/ status' = remain /\ q' = room /\ nextToken' = nextToken /\ tx' = tx
    BY <1>3 DEF Can!HandleEmergency
  <2>2. cmds \in Seq(Can!Commands) /\ Len(cmds) # 0
    BY <1>1, Choices, SeveralAre
  <2>3. /\ q \in Seq(Item) /\ StatusOK /\ nextToken \in Nat \ {0} /\ (tx # "idle" => q # <<>>)
        /\ Can!Stop \in Nat /\ nextToken \in Nat /\ Nobody \in Tasks \cup {Nobody}
    BY RequestLine
  <2>4. /\ items \in Seq(Item) /\ Len(items) = Len(cmds)
        /\ \A i \in 1 .. Len(items) : items[i].rank = Can!Stop /\ items[i].token = t
    BY <2>2, <2>3, ItemsAre
  <2>5. remain \in Records /\ FailedIn(remain, status, T)
    BY <2>3, FailedRecords, FailedAre
  <2> HIDE DEF items, remain
  <2>6. /\ room \in Seq(Item) /\ (tx # "idle" => room # <<>> /\ Head(room) = Head(q))
        /\ LineOK(room, tx, remain, nextToken)
    <3>1. room \in Seq(Item) /\ (tx # "idle" => room # <<>>)
      BY <2>3, SparedRest
    <3>2. LineOK(room, tx, remain, nextToken) /\ (tx # "idle" => Head(room) = Head(q))
      BY <2>3, <2>5, SparedLine
    <3> QED BY <3>1, <3>2
  <2> HIDE DEF room
  <2>7. CASE Can!Allocate(remain, Len(cmds)) /\ Can!Queued(new, cmds)
    <3>1. q' = new /\ tx' = tx
      BY <2>7, QueuedRest
    <3>2. new \in Seq(Item)
      BY <2>3, <2>4, <2>6, InsertedBlock
    <3>3. PICK p : Block(new, room, items, p) /\ Fits(room, tx, p, Can!Stop)
      BY <2>3, <2>4, <2>6, InsertedBlock
    <3> HIDE DEF new
    <3>4. /\ nextToken' = nextToken + 1
          /\ \A i \in Can!Slots : \/ status'[i] = remain[i]
                                  \/ /\ status'[i].token = t /\ status'[i].state = "pending"
                                     /\ status'[i].total = Len(items) /\ status'[i].confirmed = 0
      BY <2>4, <2>5, <2>7, AllocatedTable
    <3>5. LineOK(new, tx, status', t + 1)
      <4>1. t \in Nat \ {0} /\ LineOK(room, tx, remain, t) /\ Len(items) # 0
        BY <2>2, <2>3, <2>4, <2>6
      <4> HIDE DEF t
      <4> QED BY <2>3, <2>4, <2>5, <2>6, <3>2, <3>3, <3>4, <4>1, BlockOfNew
    <3>6. tx # "idle" => Head(new) = Head(q)
      <4> SUFFICES ASSUME tx # "idle" PROVE Head(new) = Head(room)
        BY <2>6
      <4>1. p # 1
        BY <3>3 DEF Fits
      <4> QED BY <2>4, <2>6, <3>2, <3>3, <4>1, BlockHead
    <3>7. LineOK(new, tx, status', nextToken')
      BY <3>4, <3>5
    <3> QED BY <3>1, <3>6, <3>7 DEF LineInv, HeadStays
  <2>8. CASE status' = remain /\ q' = room /\ nextToken' = nextToken /\ tx' = tx
    BY <2>6, <2>8 DEF LineInv, HeadStays
  <2> QED BY <2>1, <2>7, <2>8
<1> QED BY <1>2, <1>3

LEMMA LineStep ==
  ASSUME CanInv, LineInv, [Can!Next]_(Can!vars)
  PROVE  LineInv' /\ HeadStays
<1>1. CASE \E cmds \in Can!Several(Can!Commands) :
             \/ Can!HandleConfirmed(cmds) \/ Can!HandleControl(cmds)
             \/ Can!HandleBatch(cmds) \/ Can!HandleEmergency(cmds)
  BY <1>1, HandleConfirmedLine, HandleControlLine, HandleBatchLine, HandleEmergencyLine
<1>2. CASE \E t \in {status[i].token : i \in Can!Slots} : Can!HandleCancel(t)
  BY <1>2, CancelLine
<1>3. CASE Can!FrameConfirms
  BY <1>3, ConfirmsLine
<1>4. CASE Can!ProgressNoAnswer \/ Can!ProgressFailed \/ Can!StartFails
  <2>1. q # <<>> /\ Can!FailHead /\ tx' = "idle" /\ nextToken' = nextToken
    <3>1. tx # "idle" => q # <<>>
      BY DEF CanInv, QueueOK
    <3> QED BY <1>4, <3>1 DEF Can!ProgressNoAnswer, Can!ProgressFailed, Can!StartFails, Can!MayStart
  <2> QED BY <2>1, FailHeadLine
<1>5. CASE Can!StartDone \/ Can!HandleHwFailed
  <2>1. CASE Can!FailAll
    <3>1. nextToken' = nextToken
      BY <1>5 DEF Can!StartDone, Can!HandleHwFailed
    <3> QED BY <2>1, <3>1, FailAllLine
  <2>2. CASE ~Can!FailAll
    <3>1. UNCHANGED <<q, status, nextToken, tx>>
      BY <1>5, <2>2 DEF Can!StartDone, Can!HandleHwFailed
    <3> QED BY <3>1, LineStill
  <2> QED BY <2>1, <2>2
<1>6. CASE \/ Can!Transmit \/ Can!ProgressQuiet \/ Can!ProgressPending \/ Can!ProgressSent
           \/ Can!StartSend \/ Can!StartBusy \/ Can!FrameIgnored \/ Can!HandleRegister
           \/ Can!Notifiers \/ \E c \in Tasks : Can!TakeRequest(c)
  <2>1. UNCHANGED <<q, status, nextToken>> /\ (tx # "idle" => tx' # "idle")
    BY <1>6 DEF Can!Transmit, Can!ProgressQuiet, Can!ProgressPending, Can!ProgressSent,
      Can!StartSend, Can!StartBusy, Can!FrameIgnored, Can!HandleRegister, Can!Notifiers,
      Can!TakePoll, Can!TakeQuery, Can!TakeHwFailed, Can!TakeFrame, Can!TakeNotice, Can!Take,
      Can!TakeRequest, Can!server, Can!batches
  <2> QED BY <2>1, LineStill
<1>7. CASE UNCHANGED Can!vars
  <2>1. UNCHANGED <<q, status, nextToken, tx>>
    BY <1>7 DEF Can!vars, Can!server, Can!batches
  <2> QED BY <2>1, LineStill
<1> QED BY <1>1, <1>2, <1>3, <1>4, <1>5, <1>6, <1>7 DEF Can!Next, Can!Server

LEMMA LineInit ==
  ASSUME Can!Init
  PROVE  LineInv
<1>1. q = <<>> /\ nextToken = 1 /\ status = [i \in Can!Slots |-> Can!NoRecord]
  BY DEF Can!Init
<1>2. Ranked(q, tx) /\ TokensOK(q, nextToken)
  BY <1>1 DEF Ranked, TokensOK
<1>3. TableOK(q, tx, status, nextToken)
  BY <1>1 DEF TableOK, Can!NoRecord
<1> QED BY <1>2, <1>3 DEF LineInv, LineOK

LEMMA LineCounts ==
  ASSUME CanInv, LineInv
  PROVE  Can!BatchesAccounted /\ \A i, j \in DOMAIN q : i < j => q[i].rank >= q[j].rank \/ (i = 1 /\ tx # "idle")
<1>1. DOMAIN q = 1 .. Len(q)
  BY LenProperties DEF CanInv, QueueOK
<1>2. \A i, j \in DOMAIN q : i < j => q[i].rank >= q[j].rank \/ (i = 1 /\ tx # "idle")
  BY <1>1 DEF LineInv, LineOK, Ranked
<1>3. Can!BatchesAccounted
  <2> SUFFICES ASSUME NEW i \in Can!Slots, status[i].token # 0
               PROVE  LET mine == {k \in DOMAIN q : q[k].token = status[i].token}
                      IN /\ status[i].state = "pending" =>
                              mine # {} /\ Can!Cardinality(mine) = status[i].total - status[i].confirmed
                         /\ status[i].state # "pending" => mine \subseteq (IF tx = "idle" THEN {} ELSE {1})
    BY DEF Can!BatchesAccounted
  <2> DEFINE L == {k \in DOMAIN q : q[k].token = status[i].token}
  <2>1. L = At(q, status[i].token)
    BY <1>1 DEF At
  <2>2. Accounted(q, tx, status[i])
    BY DEF LineInv, LineOK, TableOK
  <2>3. Can!Cardinality(L) = Cardinality(L)
    BY CanLists
  <2> HIDE DEF L
  <2>4. /\ status[i].state = "pending" => L # {} /\ Can!Cardinality(L) = status[i].total - status[i].confirmed
        /\ status[i].state # "pending" => L \subseteq (IF tx = "idle" THEN {} ELSE {1})
    BY <2>1, <2>2, <2>3 DEF Accounted
  <2> QED BY <2>4 DEF L
<1> QED BY <1>2, <1>3

-----------------------------------------------------------------------------
(* The answers that are to come.  Place 0 is the message at hand, place -1 *)
(* a frame that was given up and is in the controller yet; the others are  *)
(* those of late.                                                          *)
Bytes == Can!Commands \cup {Can!NoFrame}

Answer(k) == IF k = 0 THEN msg.cmd ELSE IF k = -1 THEN txb ELSE late[k]

Arrives == {k \in 0 .. Len(late) : k = 0 => msg.kind = "frame"}

\* Answers that prove nothing but that one frame was carried out.
Open == {k \in -1 .. Len(late) : /\ k = 0 => msg.kind = "frame"
                                 /\ k = -1 => tx = "idle" /\ txb # Can!NoFrame
                                 /\ Answer(k) \notin Can!Absolute}

\* At most one of them is the frame's on the wire, which the station has
\* carried out then, and at most one is another's: the quarantined one's.
Excused(own) ==
  /\ own \in Open => tx # "idle" /\ obeyed /\ Answer(own) = Head(q).cmd
  /\ \A a, b \in Open : a # own /\ b # own => a = b
  /\ \A a \in Open : a # own => Answer(a) = quarantine

\* The frame on the wire, and the controller's buffer.
WireOK ==
  /\ tx \in {"idle", "active", "waiting"} /\ txb \in Bytes
  /\ ~hw => tx = "idle"
  /\ tx = "active" => txb \in {Head(q).cmd, Can!NoFrame} /\ (txb # Can!NoFrame => ~obeyed)
  /\ tx = "waiting" => txb = Can!NoFrame
  /\ pc = "receive" => msg.kind # "frame"

LateOK ==
  /\ late \in Seq(Bytes)
  /\ \A k \in Arrives : /\ Answer(k) # Can!NoFrame
                        /\ Answer(k) \in Can!Absolute => Answer(k) \in canReached

OpenOK == hw /\ ~overwritten => \E own \in Int : Excused(own)

AnswersInv == WireOK /\ LateOK /\ OpenOK

\* Answers may move to other places.
LEMMA Renamed ==
  ASSUME NEW own \in Int, Excused(own), NEW f,
         \A k \in Open' : f[k] \in Open /\ Answer(k)' = Answer(f[k]),
         \A j, k \in Open' : f[j] = f[k] => j = k,
         quarantine' = quarantine,
         tx # "idle" => tx' # "idle" /\ obeyed' = obeyed /\ Head(q') = Head(q)
  PROVE  \E k \in Int : Excused(k)'
<1>0. \A k \in Open' : k \in Int
  BY DEF Open
<1>1. /\ own \in Open => tx # "idle" /\ obeyed /\ Answer(own) = Head(q).cmd
      /\ \A a, b \in Open : a # own /\ b # own => a = b
      /\ \A a \in Open : a # own => Answer(a) = quarantine
  BY DEF Excused
<1>2. ASSUME NEW k \in Open', f[k] = own PROVE Excused(k)'
  <2>1. k \in Open' => (tx # "idle")' /\ obeyed' /\ Answer(k)' = (Head(q).cmd)'
    BY <1>1, <1>2
  <2>2. \A a \in Open' : a # k => f[a] \in Open /\ f[a] # own
    BY <1>2
  <2>3. \A a, b \in Open' : a # k /\ b # k => a = b
    BY <1>1, <2>2
  <2>4. \A a \in Open' : a # k => Answer(a)' = quarantine'
    BY <1>1, <2>2
  <2> QED BY <2>1, <2>3, <2>4 DEF Excused
<1>3. ASSUME \A k \in Open' : f[k] # own PROVE Excused(-2)'
  <2>1. -2 \notin Open'
    BY DEF Open
  <2>2. \A a, b \in Open' : a = b
    BY <1>1, <1>3
  <2>3. \A a \in Open' : Answer(a)' = quarantine'
    BY <1>1, <1>3
  <2> QED BY <2>1, <2>2, <2>3 DEF Excused
<1>4. CASE \E k \in Open' : f[k] = own
  BY <1>0, <1>2, <1>4
<1>5. CASE \A k \in Open' : f[k] # own
  <2>1. -2 \in Int
    OBVIOUS
  <2> QED BY <1>3, <1>5, <2>1
<1> QED BY <1>4, <1>5

\* Nothing comes of answers that are the same, or fewer.
LEMMA AnswersStay ==
  ASSUME LateOK, OpenOK, late' = late, canReached' = canReached,
         msg'.kind = "frame" => msg' = msg,
         tx' = "idle" => txb' \in {txb, Can!NoFrame},
         quarantine' = quarantine, overwritten' = overwritten, hw' => hw,
         tx # "idle" => tx' # "idle" /\ obeyed' = obeyed /\ Head(q') = Head(q)
  PROVE  LateOK' /\ OpenOK'
<1>1. \A k \in Arrives' : k \in Arrives /\ Answer(k)' = Answer(k)
  <2> TAKE k \in Arrives'
  <2>1. k \in 0 .. Len(late) /\ (k = 0 => msg'.kind = "frame" /\ msg' = msg) /\ k # -1
    BY DEF Arrives
  <2> QED BY <2>1 DEF Arrives, Answer
<1>2. LateOK'
  BY <1>1 DEF LateOK
<1>3. \A k \in Open' : k \in Open /\ Answer(k)' = Answer(k)
  <2> TAKE k \in Open'
  <2>1. /\ k \in -1 .. Len(late) /\ (k = 0 => msg'.kind = "frame" /\ msg' = msg)
        /\ k = -1 => tx' = "idle" /\ txb' # Can!NoFrame
        /\ Answer(k)' \notin Can!Absolute
    BY DEF Open
  <2>2. Answer(k)' = Answer(k)
    BY <2>1 DEF Answer
  <2> QED BY <2>1, <2>2 DEF Open
<1>4. ASSUME NEW own \in Int, Excused(own) PROVE \E k \in Int : Excused(k)'
  <2> DEFINE f == [k \in Open' |-> k]
  <2>1. \A k \in Open' : f[k] = k
    OBVIOUS
  <2> HIDE DEF f
  <2>2. /\ \A k \in Open' : f[k] \in Open /\ Answer(k)' = Answer(f[k])
        /\ \A j, k \in Open' : f[j] = f[k] => j = k
    BY <1>3, <2>1
  <2> QED BY <1>4, <2>2, Renamed
<1>5. OpenOK'
  BY <1>4 DEF OpenOK
<1> QED BY <1>2, <1>5

\* The frame on the wire is given up: its answer, if any, is the quarantined
\* one from now on, and there was none before.
LEMMA GivenUp ==
  ASSUME WireOK, LateOK, OpenOK, tx # "idle", tx' = "idle", Can!Quarantine,
         late' = late, canReached' = canReached, msg'.kind = "frame" => msg' = msg,
         txb' \in {txb, Can!NoFrame}, hw' => hw
  PROVE  LateOK' /\ OpenOK'
<1>1. \A k \in Arrives' : k \in Arrives /\ Answer(k)' = Answer(k)
  <2> TAKE k \in Arrives'
  <2>1. k \in 0 .. Len(late) /\ (k = 0 => msg'.kind = "frame" /\ msg' = msg) /\ k # -1
    BY DEF Arrives
  <2> QED BY <2>1 DEF Arrives, Answer
<1>2. LateOK'
  BY <1>1 DEF LateOK
<1>3. ASSUME hw', ~overwritten' PROVE Excused(-2)'
  <2>1. quarantine' = Head(q).cmd /\ quarantine = Can!NoFrame /\ hw /\ ~overwritten
    BY <1>3 DEF Can!Quarantine
  <2>2. PICK own \in Int : Excused(own)
    BY <2>1 DEF OpenOK
  <2>3. \A k \in Open : k \in Arrives
    <3>1. Len(late) \in Nat
      BY LenProperties DEF LateOK
    <3> QED BY <3>1 DEF Open, Arrives
  <2>4. \A k \in Open : k = own
    BY <2>1, <2>2, <2>3 DEF Excused, LateOK
  <2>5. \A k \in Open : obeyed /\ Answer(k) = Head(q).cmd
    BY <2>2, <2>4 DEF Excused
  <2>6. ASSUME NEW k \in Open'
        PROVE  (k = -1 /\ ~obeyed /\ Answer(k)' = Head(q).cmd) \/ (k \in Open /\ Answer(k)' = Answer(k))
    <3>1. /\ k \in -1 .. Len(late) /\ (k = 0 => msg'.kind = "frame" /\ msg' = msg)
          /\ k = -1 => txb' # Can!NoFrame
          /\ Answer(k)' \notin Can!Absolute
      BY DEF Open
    <3>2. CASE k = -1
      <4>1. txb' = txb /\ txb # Can!NoFrame
        BY <3>1, <3>2
      <4>2. tx = "active"
        BY <4>1 DEF WireOK
      <4>3. txb = Head(q).cmd /\ ~obeyed
        BY <4>1, <4>2 DEF WireOK
      <4> QED BY <3>2, <4>1, <4>3 DEF Answer
    <3>3. CASE k # -1
      <4>1. Answer(k)' = Answer(k)
        BY <3>1, <3>3 DEF Answer
      <4> QED BY <3>1, <3>3, <4>1 DEF Open
    <3> QED BY <3>2, <3>3
  <2>7. \A a, b \in Open' : a = b
    BY <2>4, <2>5, <2>6
  <2>8. \A a \in Open' : Answer(a)' = quarantine'
    BY <2>1, <2>5, <2>6
  <2>9. -2 \notin Open'
    BY DEF Open
  <2> QED BY <2>7, <2>8, <2>9 DEF Excused
<1>4. -2 \in Int
  OBVIOUS
<1>5. OpenOK'
  BY <1>3, <1>4 DEF OpenOK
<1> QED BY <1>2, <1>5

LEMMA Removed ==
  ASSUME NEW S, NEW s \in Seq(S), NEW i \in 1 .. Len(s)
  PROVE  LET r == Can!RemoveAt(s, i)
         IN  /\ r \in Seq(S) /\ Len(r) = Len(s) - 1
             /\ \A k \in 1 .. Len(r) : r[k] = IF k < i THEN s[k] ELSE s[k + 1]
<1> DEFINE a == SubSeq(s, 1, i - 1)
           b == SubSeq(s, i + 1, Len(s))
           r == a \o b
<1>1. Len(s) \in Nat /\ i \in Nat /\ 1 <= i /\ i <= Len(s) /\ \A k \in 1 .. Len(s) : s[k] \in S
  BY LenProperties, ElementOfSeq
<1>2. a \in Seq(S) /\ Len(a) = i - 1 /\ \A k \in 1 .. i - 1 : a[k] = s[k]
  <2>1. \A k \in 1 .. i - 1 : s[k] \in S
    BY <1>1
  <2>2. /\ a \in Seq(S)
        /\ Len(a) = IF 1 <= i - 1 THEN i - 1 - 1 + 1 ELSE 0
        /\ \A k \in 1 .. i - 1 - 1 + 1 : a[k] = s[1 + k - 1]
    BY <1>1, <2>1, SubSeqProperties
  <2> HIDE DEF a
  <2>3. Len(a) = i - 1 /\ \A k \in 1 .. i - 1 : 1 + k - 1 = k
    BY <1>1, <2>2
  <2> QED BY <1>1, <2>2, <2>3
<1>3. b \in Seq(S) /\ Len(b) = Len(s) - i /\ \A k \in 1 .. Len(b) : b[k] = s[i + k]
  <2>1. \A k \in i + 1 .. Len(s) : s[k] \in S
    BY <1>1
  <2>2. /\ b \in Seq(S)
        /\ Len(b) = IF i + 1 <= Len(s) THEN Len(s) - (i + 1) + 1 ELSE 0
        /\ \A k \in 1 .. Len(s) - (i + 1) + 1 : b[k] = s[i + 1 + k - 1]
    BY <1>1, <2>1, SubSeqProperties
  <2> HIDE DEF b
  <2>3. Len(b) = Len(s) - i /\ \A k \in 1 .. Len(b) : i + 1 + k - 1 = i + k /\ k \in 1 .. Len(s) - (i + 1) + 1
    BY <1>1, <2>2
  <2> QED BY <2>2, <2>3
<1> HIDE DEF a, b
<1>4. /\ r \in Seq(S) /\ Len(r) = Len(a) + Len(b)
      /\ \A k \in 1 .. Len(a) + Len(b) : r[k] = IF k <= Len(a) THEN a[k] ELSE b[k - Len(a)]
  BY <1>2, <1>3, ConcatProperties
<1> HIDE DEF r
<1>5. Len(r) = Len(s) - 1
  BY <1>1, <1>2, <1>3, <1>4
<1>6. ASSUME NEW k \in 1 .. Len(r) PROVE r[k] = IF k < i THEN s[k] ELSE s[k + 1]
  <2>0. r[k] = IF k <= Len(a) THEN a[k] ELSE b[k - Len(a)]
    BY <1>4
  <2>1. CASE k < i
    <3>1. k <= Len(a) /\ k \in 1 .. i - 1
      BY <1>1, <1>2, <2>1
    <3> QED BY <1>2, <2>0, <2>1, <3>1
  <2>2. CASE ~(k < i)
    <3>1. ~(k <= Len(a)) /\ k - Len(a) \in 1 .. Len(b) /\ i + (k - Len(a)) = k + 1
      BY <1>1, <1>2, <1>3, <1>5, <2>2
    <3>2. r[k] = b[k - Len(a)] /\ b[k - Len(a)] = s[i + (k - Len(a))]
      BY <1>3, <2>0, <3>1
    <3> QED BY <2>2, <3>1, <3>2
  <2> QED BY <2>1, <2>2
<1>7. Can!RemoveAt(s, i) = r
  BY DEF Can!RemoveAt, r, a, b
<1> QED BY <1>4, <1>5, <1>6, <1>7

\* A frame leaves the controller.
LEMMA TransmitAnswers ==
  ASSUME AnswersInv, Can!Transmit
  PROVE  AnswersInv'
<1> DEFINE n == Len(late)
<1>1. PICK heard \in BOOLEAN :
        /\ txb # Can!NoFrame /\ txb' = Can!NoFrame
        /\ obeyed' = (heard /\ tx = "active")
        /\ canReached' = IF heard THEN canReached \cup ({txb} \cap Can!Absolute) ELSE canReached
        /\ late' = late \/ (heard /\ late' = Append(late, txb))
        /\ UNCHANGED <<pc, msg, hw, q, tx, quarantine, overwritten>>
  <2>1. PICK heard \in BOOLEAN :
        /\ obeyed' = (heard /\ tx = "active")
        /\ canReached' = IF heard THEN canReached \cup ({txb} \cap Can!Absolute) ELSE canReached
        /\ late' \in {late} \cup IF heard THEN {Append(late, txb)} ELSE {}
    BY DEF Can!Transmit
  <2>2. /\ txb # Can!NoFrame /\ txb' = Can!NoFrame
        /\ UNCHANGED <<pc, msg, hw, q, tx, quarantine, overwritten>>
    BY DEF Can!Transmit, Can!server
  <2>3. late' = late \/ (heard /\ late' = Append(late, txb))
    BY <2>1
  <2> QED BY <2>1, <2>2, <2>3
<1>2. late \in Seq(Bytes) /\ txb \in Bytes /\ n \in Nat
  BY LenProperties DEF AnswersInv, LateOK, WireOK
<1>3. WireOK'
  BY <1>1 DEF AnswersInv, WireOK, Bytes
<1>4. /\ late' \in Seq(Bytes) /\ Len(late') \in {n, n + 1}
      /\ \A k \in 1 .. n : late'[k] = late[k]
      /\ Len(late') = n + 1 => heard /\ late'[n + 1] = txb
  <2>1. CASE late' = late
    BY <1>2, <2>1
  <2>2. CASE heard /\ late' = Append(late, txb)
    <3>1. /\ Append(late, txb) \in Seq(Bytes) /\ Len(Append(late, txb)) = n + 1
          /\ (\A k \in 1 .. n : Append(late, txb)[k] = late[k]) /\ Append(late, txb)[n + 1] = txb
      BY <1>2, AppendProperties
    <3> QED BY <2>2, <3>1
  <2> QED BY <1>1, <2>1, <2>2
<1> HIDE DEF n
<1>5. \A k \in Arrives' : \/ k \in Arrives /\ Answer(k)' = Answer(k)
                          \/ k = n + 1 /\ heard /\ Answer(k)' = txb
  <2> TAKE k \in Arrives'
  <2>1. k \in 0 .. Len(late') /\ (k = 0 => msg.kind = "frame")
    BY <1>1 DEF Arrives
  <2>2. CASE k \in 0 .. n
    <3>1. k = 0 \/ k \in 1 .. n
      BY <1>2, <2>2
    <3>2. k # -1
      BY <1>2, <2>2
    <3>3. Answer(k)' = Answer(k)
      BY <1>1, <1>4, <3>1, <3>2 DEF Answer
    <3> QED BY <2>1, <2>2, <3>3 DEF Arrives, n
  <2>3. CASE k \notin 0 .. n
    <3>1. k = n + 1 /\ Len(late') = n + 1 /\ k # 0 /\ k # -1
      BY <1>2, <1>4, <2>1, <2>3
    <3> QED BY <1>4, <3>1 DEF Answer
  <2> QED BY <2>2, <2>3
<1>6. LateOK'
  <2> SUFFICES ASSUME NEW k \in Arrives'
               PROVE  /\ Answer(k)' # Can!NoFrame
                      /\ Answer(k)' \in Can!Absolute => Answer(k)' \in canReached'
    BY <1>4 DEF LateOK
  <2>1. CASE k \in Arrives /\ Answer(k)' = Answer(k)
    BY <1>1, <2>1 DEF AnswersInv, LateOK
  <2>2. CASE k = n + 1 /\ heard /\ Answer(k)' = txb
    BY <1>1, <2>2
  <2> QED BY <1>5, <2>1, <2>2
<1>7. \A k \in Open' : \/ k \in Open /\ k # -1 /\ k # n + 1 /\ Answer(k)' = Answer(k)
                       \/ k = n + 1 /\ heard /\ Answer(k)' = txb /\ txb \notin Can!Absolute
  <2> TAKE k \in Open'
  <2>1. k \in -1 .. Len(late') /\ k # -1 /\ (k = 0 => msg.kind = "frame") /\ Answer(k)' \notin Can!Absolute
    BY <1>1 DEF Open
  <2>2. k \in Arrives'
    <3>1. k \in 0 .. Len(late')
      BY <1>2, <1>4, <2>1
    <3> QED BY <1>1, <2>1, <3>1 DEF Arrives
  <2>3. CASE k \in Arrives /\ Answer(k)' = Answer(k)
    <3>1. k \in -1 .. n /\ k # n + 1
      BY <1>2, <2>3 DEF Arrives, n
    <3> QED BY <2>1, <2>3, <3>1 DEF Open, n
  <2> QED BY <1>5, <2>1, <2>2, <2>3
<1>8. ASSUME NEW own \in Int, Excused(own) PROVE \E k \in Int : Excused(k)'
  <2>1. CASE tx = "active"
    <3>0. PICK m \in Int : m = n + 1
      BY <1>2
    <3>1. txb = Head(q).cmd /\ ~obeyed
      BY <1>1, <2>1 DEF AnswersInv, WireOK
    <3>2. own \notin Open
      BY <1>8, <3>1 DEF Excused
    <3>3. m \in Open' => (tx # "idle")' /\ obeyed' /\ Answer(m)' = (Head(q).cmd)'
      BY <1>1, <1>7, <2>1, <3>0, <3>1
    <3>4. \A k \in Open' : k # m => k \in Open /\ k # own /\ Answer(k)' = Answer(k)
      BY <1>7, <3>0, <3>2
    <3>5. /\ \A a, b \in Open' : a # m /\ b # m => a = b
          /\ \A a \in Open' : a # m => Answer(a)' = quarantine'
      BY <1>1, <1>8, <3>4 DEF Excused
    <3>6. Excused(m)'
      BY <3>3, <3>5 DEF Excused
    <3> QED BY <3>0, <3>6
  <2>2. CASE tx # "active"
    <3>1. tx = "idle"
      BY <1>1, <2>2 DEF AnswersInv, WireOK
    <3> DEFINE f == [k \in Open' |-> IF k = n + 1 THEN -1 ELSE k]
    <3>2. \A k \in Open' : f[k] = IF k = n + 1 THEN -1 ELSE k
      OBVIOUS
    <3> HIDE DEF f
    <3>3. ASSUME NEW k \in Open' PROVE f[k] \in Open /\ Answer(k)' = Answer(f[k])
      <4>1. CASE k # n + 1
        BY <1>7, <3>2, <4>1
      <4>2. CASE k = n + 1
        <5>1. f[k] = -1 /\ Answer(k)' = txb /\ txb \notin Can!Absolute
          BY <1>7, <3>2, <4>2
        <5>2. Answer(-1) = txb /\ -1 \in -1 .. Len(late)
          BY <1>2 DEF Answer, n
        <5>3. -1 \in Open
          BY <1>1, <3>1, <5>1, <5>2 DEF Open
        <5> QED BY <5>1, <5>2, <5>3
      <4> QED BY <4>1, <4>2
    <3>4. \A j, k \in Open' : f[j] = f[k] => j = k
      BY <1>7, <3>2
    <3> QED BY <1>1, <1>8, <3>1, <3>3, <3>4, Renamed
  <2> QED BY <2>1, <2>2
<1>9. OpenOK'
  BY <1>1, <1>8 DEF AnswersInv, OpenOK
<1> QED BY <1>3, <1>6, <1>9 DEF AnswersInv

\* An answer comes to hand.
LEMMA TakeFrameAnswers ==
  ASSUME AnswersInv, Can!TakeFrame
  PROVE  AnswersInv'
<1> DEFINE n == Len(late)
<1>1. PICK i \in DOMAIN late : Can!Take([kind |-> "frame", cmd |-> late[i]]) /\ late' = Can!RemoveAt(late, i)
  BY DEF Can!TakeFrame
<1>2. /\ pc = "receive" /\ msg' = [kind |-> "frame", cmd |-> late[i]] /\ pc' = "progress"
      /\ UNCHANGED <<hw, q, tx, quarantine, overwritten, txb, obeyed, canReached>>
  BY <1>1 DEF Can!Take, Can!server
<1>3. late \in Seq(Bytes) /\ n \in Nat /\ i \in 1 .. n /\ msg.kind # "frame"
  BY <1>2, LenProperties DEF AnswersInv, LateOK, WireOK
<1>4. /\ late' \in Seq(Bytes) /\ Len(late') = n - 1
      /\ \A k \in 1 .. n - 1 : late'[k] = IF k < i THEN late[k] ELSE late[k + 1]
  BY <1>1, <1>3, Removed
<1>5. WireOK'
  BY <1>2 DEF AnswersInv, WireOK
<1> HIDE DEF n
<1> DEFINE to(k) == IF k = -1 THEN -1 ELSE IF k = 0 THEN i ELSE IF k < i THEN k ELSE k + 1
<1>6. ASSUME NEW k \in -1 .. n - 1
      PROVE  to(k) \in -1 .. n /\ to(k) # 0 /\ (to(k) = -1 <=> k = -1) /\ Answer(k)' = Answer(to(k))
  <2>1. CASE k = -1
    BY <1>2, <1>3, <2>1 DEF Answer
  <2>2. CASE k = 0
    <3>1. to(k) = i /\ i # 0 /\ i # -1 /\ i \in -1 .. n /\ k # -1
      BY <1>3, <2>2
    <3>2. Answer(k)' = late[i]
      BY <1>2, <2>2 DEF Answer
    <3>3. Answer(to(k)) = late[i]
      BY <3>1 DEF Answer
    <3> QED BY <3>1, <3>2, <3>3
  <2>3. CASE k # -1 /\ k # 0
    <3>1. k \in 1 .. n - 1 /\ to(k) = (IF k < i THEN k ELSE k + 1)
      BY <1>3, <2>3
    <3>2. to(k) \in -1 .. n /\ to(k) # 0 /\ to(k) # -1
      BY <1>3, <3>1
    <3>3. Answer(k)' = late'[k]
      BY <2>3 DEF Answer
    <3>4. Answer(to(k)) = late[to(k)]
      BY <3>2 DEF Answer
    <3>5. late'[k] = late[to(k)]
      BY <1>4, <3>1
    <3> HIDE DEF to
    <3> QED BY <2>3, <3>2, <3>3, <3>4, <3>5
  <2> QED BY <2>1, <2>2, <2>3
<1>7. \A j, k \in -1 .. n - 1 : to(j) = to(k) => j = k
  BY <1>3
<1> HIDE DEF to
<1>8. LateOK'
  <2> SUFFICES ASSUME NEW k \in Arrives'
               PROVE  /\ Answer(k)' # Can!NoFrame
                      /\ Answer(k)' \in Can!Absolute => Answer(k)' \in canReached
    BY <1>2, <1>4 DEF LateOK
  <2>1. k \in 0 .. n - 1
    BY <1>4 DEF Arrives
  <2>2. k \in -1 .. n - 1 /\ k # -1
    BY <1>3, <2>1
  <2>3. to(k) \in -1 .. n /\ to(k) # 0 /\ to(k) # -1 /\ Answer(k)' = Answer(to(k))
    BY <1>6, <2>2
  <2>4. to(k) \in 0 .. n
    BY <1>3, <2>3
  <2>5. to(k) \in Arrives
    BY <2>3, <2>4 DEF Arrives, n
  <2> QED BY <2>3, <2>5 DEF AnswersInv, LateOK
<1>9. ASSUME NEW own \in Int, Excused(own) PROVE \E k \in Int : Excused(k)'
  <2> DEFINE f == [k \in Open' |-> to(k)]
  <2>1. \A k \in Open' : f[k] = to(k)
    OBVIOUS
  <2> HIDE DEF f
  <2>2. \A k \in Open' : k \in -1 .. n - 1
    BY <1>4 DEF Open
  <2>3. ASSUME NEW k \in Open' PROVE f[k] \in Open /\ Answer(k)' = Answer(f[k])
    <3>1. /\ to(k) \in -1 .. n /\ to(k) # 0 /\ (to(k) = -1 <=> k = -1) /\ Answer(k)' = Answer(to(k))
          /\ f[k] = to(k)
      BY <1>6, <2>1, <2>2
    <3>2. Answer(k)' \notin Can!Absolute /\ (k = -1 => tx = "idle" /\ txb # Can!NoFrame)
      BY <1>2 DEF Open
    <3>3. to(k) \in Open
      BY <3>1, <3>2 DEF Open, n
    <3> QED BY <3>1, <3>3
  <2>4. \A j, k \in Open' : f[j] = f[k] => j = k
    BY <1>7, <2>1, <2>2
  <2> QED BY <1>2, <1>9, <2>3, <2>4, Renamed
<1>10. OpenOK'
  BY <1>2, <1>9 DEF AnswersInv, OpenOK
<1> QED BY <1>5, <1>8, <1>10 DEF AnswersInv

\* An answer that proves nothing is dropped.
LEMMA FrameIgnoredAnswers ==
  ASSUME AnswersInv, Can!FrameIgnored
  PROVE  AnswersInv'
<1>1. /\ pc = "handle" /\ msg.kind = "frame" /\ msg' = Can!Nothing
      /\ quarantine' = IF quarantine = msg.cmd THEN Can!NoFrame ELSE quarantine
      /\ UNCHANGED <<hw, q, tx, overwritten, txb, late, obeyed, canReached>>
  BY DEF Can!FrameIgnored, Can!Handles, Can!Released, Can!Finish, Can!hardware, Can!station
<1>2. msg'.kind # "frame"
  BY <1>1 DEF Can!Nothing
<1>3. WireOK'
  BY <1>1, <1>2 DEF AnswersInv, WireOK
<1>4. CASE quarantine # msg.cmd
  <2>1. LateOK' /\ OpenOK'
    BY <1>1, <1>2, <1>4, AnswersStay DEF AnswersInv
  <2> QED BY <1>3, <2>1 DEF AnswersInv
<1>5. CASE quarantine = msg.cmd
  <2>1. \A k \in Arrives' : k \in Arrives /\ Answer(k)' = Answer(k)
    <3> TAKE k \in Arrives'
    <3>1. k \in 0 .. Len(late) /\ k # 0 /\ k # -1
      BY <1>1, <1>2 DEF Arrives
    <3> QED BY <1>1, <3>1 DEF Arrives, Answer
  <2>2. LateOK'
    BY <1>1, <2>1 DEF AnswersInv, LateOK
  <2>3. \A k \in Open' : k \in Open /\ k # 0 /\ Answer(k)' = Answer(k)
    <3> TAKE k \in Open'
    <3>1. /\ k \in -1 .. Len(late) /\ k # 0 /\ (k = -1 => tx = "idle" /\ txb # Can!NoFrame)
          /\ Answer(k)' \notin Can!Absolute
      BY <1>1, <1>2 DEF Open
    <3>2. Answer(k)' = Answer(k)
      BY <1>1, <3>1 DEF Answer
    <3> QED BY <3>1, <3>2 DEF Open
  <2>4. Len(late) \in Nat /\ Answer(0) = msg.cmd
    BY LenProperties DEF AnswersInv, LateOK, Answer
  <2>5. ASSUME NEW own \in Int, Excused(own) PROVE \E k \in Int : Excused(k)'
    <3>1. /\ own \in Open => tx # "idle" /\ obeyed /\ Answer(own) = Head(q).cmd
          /\ \A a, b \in Open : a # own /\ b # own => a = b
          /\ \A a \in Open : a # own => Answer(a) = msg.cmd
      BY <1>5, <2>5 DEF Excused
    <3>2. ASSUME \A a \in Open' : a = own PROVE \E k \in Int : Excused(k)'
      <4>1. own \in Open' => (tx # "idle")' /\ obeyed' /\ Answer(own)' = (Head(q).cmd)'
        BY <1>1, <2>3, <3>1
      <4>2. Excused(own)'
        BY <3>2, <4>1 DEF Excused
      <4> QED BY <4>2
    <3>3. CASE msg.cmd \in Can!Absolute
      <4>1. \A a \in Open : a = own
        BY <3>1, <3>3 DEF Open
      <4> QED BY <2>3, <3>2, <4>1
    <3>4. CASE msg.cmd \notin Can!Absolute
      <4>1. 0 \in Open
        <5>1. 0 \in -1 .. Len(late) /\ 0 # -1
          BY <2>4
        <5> QED BY <1>1, <2>4, <3>4, <5>1 DEF Open
      <4>2. CASE own # 0
        <5>1. \A a \in Open' : a = own
          BY <2>3, <3>1, <4>1, <4>2
        <5> QED BY <3>2, <5>1
      <4>3. CASE own = 0
        <5>1. /\ tx # "idle" /\ obeyed /\ Head(q).cmd = msg.cmd
              /\ \A a \in Open' : Answer(a)' = msg.cmd
              /\ \A a, b \in Open' : a = b
          BY <2>3, <2>4, <3>1, <4>1, <4>3
        <5>2. ASSUME NEW b \in Open' PROVE Excused(b)'
          <6>1. b \in Open' => (tx # "idle")' /\ obeyed' /\ Answer(b)' = (Head(q).cmd)'
            BY <1>1, <5>1
          <6>2. \A a \in Open' : a = b
            BY <5>1, <5>2
          <6> QED BY <6>1, <6>2 DEF Excused
        <5>3. \A b \in Open' : b \in Int
          BY DEF Open
        <5>4. ASSUME Open' = {} PROVE Excused(-2)'
          BY <5>4 DEF Excused
        <5>5. -2 \in Int
          OBVIOUS
        <5> QED BY <5>2, <5>3, <5>4, <5>5
      <4> QED BY <4>2, <4>3
    <3> QED BY <3>3, <3>4
  <2>6. OpenOK'
    BY <1>1, <2>5 DEF AnswersInv, OpenOK
  <2> QED BY <1>3, <2>2, <2>6 DEF AnswersInv
<1> QED BY <1>4, <1>5

\* An answer confirms the frame on the wire, and the station has carried out
\* that frame or an identical absolute one.
LEMMA FrameConfirmsAnswers ==
  ASSUME AnswersInv, Can!FrameConfirms
  PROVE  AnswersInv' /\ (obeyed \/ Head(q).cmd \in canReached \/ overwritten)
<1>1. /\ pc = "handle" /\ msg.kind = "frame" /\ msg' = Can!Nothing /\ pc' = "start"
      /\ tx = "waiting" /\ tx' = "idle" /\ Head(q).cmd = msg.cmd
      /\ quarantine # msg.cmd \/ msg.cmd \in Can!Absolute
      /\ quarantine' = IF quarantine = msg.cmd THEN Can!NoFrame ELSE quarantine
      /\ UNCHANGED <<hw, overwritten, txb, late, obeyed, canReached>>
  BY DEF Can!FrameConfirms, Can!Handles, Can!Released, Can!Finish, Can!hardware, Can!station,
    Can!Swallowed, Can!IsAnswer
<1>2. msg'.kind # "frame" /\ hw /\ txb = Can!NoFrame
  BY <1>1 DEF Can!Nothing, AnswersInv, WireOK
<1>3. WireOK'
  BY <1>1, <1>2 DEF AnswersInv, WireOK
<1>4. \A k \in Arrives' : k \in Arrives /\ Answer(k)' = Answer(k)
  <2> TAKE k \in Arrives'
  <2>1. k \in 0 .. Len(late) /\ k # 0 /\ k # -1
    BY <1>1, <1>2 DEF Arrives
  <2> QED BY <1>1, <2>1 DEF Arrives, Answer
<1>5. LateOK'
  BY <1>1, <1>4 DEF AnswersInv, LateOK
<1>6. \A k \in Open' : k \in Open /\ k # 0 /\ Answer(k)' = Answer(k)
  <2> TAKE k \in Open'
  <2>1. k \in -1 .. Len(late) /\ k # 0 /\ k # -1 /\ Answer(k)' \notin Can!Absolute
    BY <1>1, <1>2 DEF Open
  <2>2. Answer(k)' = Answer(k)
    BY <1>1, <2>1 DEF Answer
  <2> QED BY <2>1, <2>2 DEF Open
<1>7. /\ Len(late) \in Nat /\ Answer(0) = msg.cmd /\ 0 \in Arrives
      /\ msg.cmd \in Can!Absolute => msg.cmd \in canReached
      /\ msg.cmd \notin Can!Absolute => 0 \in Open
  <2>1. Len(late) \in Nat /\ Answer(0) = msg.cmd
    BY LenProperties DEF AnswersInv, LateOK, Answer
  <2>2. 0 \in 0 .. Len(late) /\ 0 \in -1 .. Len(late) /\ 0 # -1
    BY <2>1
  <2>3. 0 \in Arrives
    BY <1>1, <2>2 DEF Arrives
  <2>4. msg.cmd \in Can!Absolute => msg.cmd \in canReached
    BY <2>1, <2>3 DEF AnswersInv, LateOK
  <2>5. msg.cmd \notin Can!Absolute => 0 \in Open
    BY <1>1, <2>1, <2>2 DEF Open
  <2> QED BY <2>1, <2>3, <2>4, <2>5
<1>8. ASSUME NEW own \in Int, Excused(own)
      PROVE  Excused(-2)' /\ (obeyed \/ Head(q).cmd \in canReached)
  <2>1. /\ own \in Open => obeyed /\ Answer(own) = msg.cmd
        /\ \A a, b \in Open : a # own /\ b # own => a = b
        /\ \A a \in Open : a # own => Answer(a) = quarantine
    BY <1>1, <1>8 DEF Excused
  <2>2. -2 \notin Open'
    BY DEF Open
  <2>3. ASSUME \A a, b \in Open' : a = b, \A a \in Open' : Answer(a)' = quarantine'
        PROVE  Excused(-2)'
    BY <2>2, <2>3 DEF Excused
  <2>4. CASE msg.cmd \in Can!Absolute
    <3>1. own \notin Open
      BY <2>1, <2>4 DEF Open
    <3>2. \A a, b \in Open' : a = b
      BY <1>6, <2>1, <3>1
    <3>3. \A a \in Open' : Answer(a)' = quarantine /\ Answer(a) \notin Can!Absolute
      BY <1>6, <2>1, <3>1 DEF Open
    <3>4. \A a \in Open' : Answer(a)' = quarantine'
      BY <1>1, <1>6, <2>4, <3>3
    <3>5. Head(q).cmd \in canReached
      BY <1>1, <1>7, <2>4
    <3> QED BY <2>3, <3>2, <3>4, <3>5
  <2>5. CASE msg.cmd \notin Can!Absolute
    <3>1. quarantine' = quarantine /\ quarantine # msg.cmd /\ 0 \in Open
      BY <1>1, <1>7, <2>5
    <3>2. own = 0
      BY <1>7, <2>1, <3>1
    <3>3. \A a, b \in Open' : a = b
      BY <1>6, <2>1, <3>2
    <3>4. \A a \in Open' : Answer(a)' = quarantine'
      BY <1>6, <2>1, <3>1, <3>2
    <3> QED BY <2>1, <2>3, <3>1, <3>2, <3>3, <3>4
  <2> QED BY <2>4, <2>5
<1>9. -2 \in Int
  OBVIOUS
<1>10. OpenOK'
  BY <1>1, <1>8, <1>9 DEF AnswersInv, OpenOK
<1>11. obeyed \/ Head(q).cmd \in canReached \/ overwritten
  BY <1>2, <1>8 DEF AnswersInv, OpenOK
<1> QED BY <1>3, <1>5, <1>10, <1>11 DEF AnswersInv

\* Nothing of the hardware and the wire changes but, maybe, what is behind
\* the frame on it.
LEMMA QuietAnswers ==
  ASSUME AnswersInv, HeadStays,
         UNCHANGED <<hw, tx, txb, late, quarantine, overwritten, obeyed, canReached>>,
         msg'.kind = "frame" => msg' = msg, pc' = "receive" => msg'.kind # "frame"
  PROVE  AnswersInv'
<1>1. WireOK'
  BY DEF AnswersInv, WireOK, HeadStays
<1>2. LateOK' /\ OpenOK'
  BY AnswersStay DEF AnswersInv, HeadStays
<1> QED BY <1>1, <1>2 DEF AnswersInv

\* Without a controller only what is on its way counts.
LEMMA DeadAnswers ==
  ASSUME AnswersInv, late' = late, canReached' = canReached,
         msg'.kind = "frame" => msg' = msg, ~hw'
  PROVE  LateOK' /\ OpenOK'
<1>1. \A k \in Arrives' : k \in Arrives /\ Answer(k)' = Answer(k)
  <2> TAKE k \in Arrives'
  <2>1. k \in 0 .. Len(late) /\ (k = 0 => msg'.kind = "frame" /\ msg' = msg) /\ k # -1
    BY DEF Arrives
  <2> QED BY <2>1 DEF Arrives, Answer
<1>2. LateOK'
  BY <1>1 DEF AnswersInv, LateOK
<1>3. OpenOK'
  BY DEF OpenOK
<1> QED BY <1>2, <1>3

LEMMA GoesOnMsg ==
  ASSUME Can!GoesOn
  PROVE  (msg'.kind = "frame" => msg' = msg) /\ (pc' = "receive" => msg'.kind # "frame")
BY DEF Can!GoesOn, Can!Nothing

LEMMA FinishMsg ==
  ASSUME NEW next, Can!Finish(next)
  PROVE  msg'.kind # "frame"
BY DEF Can!Finish, Can!Nothing

LEMMA HeadCommand ==
  ASSUME CanInv, q # <<>>
  PROVE  Head(q).cmd \in Can!Commands
<1>1. Head(q) \in Item
  BY HeadTailProperties DEF CanInv, QueueOK
<1> QED BY <1>1 DEF Item

LEMMA RefuseAnswers ==
  ASSUME AnswersInv, HeadStays, Can!Refuse
  PROVE  AnswersInv'
<1>1. UNCHANGED <<hw, tx, txb, late, quarantine, overwritten, obeyed, canReached>>
  BY DEF Can!Refuse, Can!server, Can!hardware, Can!station
<1>2. msg'.kind # "frame"
  BY FinishMsg DEF Can!Refuse
<1> QED BY <1>1, <1>2, QuietAnswers

LEMMA QueuedAnswers ==
  ASSUME AnswersInv, HeadStays, NEW newq, NEW cmds, Can!Queued(newq, cmds)
  PROVE  AnswersInv'
<1>1. UNCHANGED <<hw, tx, txb, late, quarantine, overwritten, obeyed, canReached>>
  BY DEF Can!Queued, Can!hardware, Can!station
<1>2. msg'.kind # "frame"
  BY FinishMsg DEF Can!Queued
<1> QED BY <1>1, <1>2, QuietAnswers

\* The frame on the wire is given up after too long, or withdrawn.
LEMMA EndedAnswers ==
  ASSUME AnswersInv, tx # "idle", tx' = "idle", Can!Quarantine,
         late' = late, canReached' = canReached,
         msg'.kind = "frame" => msg' = msg, pc' = "receive" => msg'.kind # "frame",
         txb' \in {txb, Can!NoFrame}, hw' => hw
  PROVE  AnswersInv'
<1>1. WireOK'
  BY DEF AnswersInv, WireOK, Bytes
<1>2. LateOK' /\ OpenOK'
  BY GivenUp DEF AnswersInv
<1> QED BY <1>1, <1>2 DEF AnswersInv

LEMMA HandleCancelAnswers ==
  ASSUME AnswersInv, HeadStays, NEW t, Can!HandleCancel(t)
  PROVE  AnswersInv'
<1>1. CASE Can!Refuse
  BY <1>1, RefuseAnswers
<1>2. CASE ~Can!Refuse
  <2> DEFINE heads == q # <<>> /\ Head(q).token = t
  <2>1. /\ IF heads /\ tx # "idle" THEN Can!Quarantine ELSE UNCHANGED <<quarantine, overwritten>>
        /\ IF heads /\ tx = "active" THEN Can!Abort ELSE UNCHANGED <<txb, hw>>
        /\ tx' = IF heads THEN "idle" ELSE tx
        /\ UNCHANGED <<late, obeyed, canReached>> /\ Can!Finish("start")
    BY <1>2 DEF Can!HandleCancel
  <2>2. msg'.kind # "frame"
    BY <2>1, FinishMsg
  <2> HIDE DEF heads
  <2>3. txb' \in {txb, Can!NoFrame} /\ (hw' => hw)
    BY <2>1 DEF Can!Abort
  <2>4. CASE heads /\ tx # "idle"
    BY <2>1, <2>2, <2>3, <2>4, EndedAnswers
  <2>5. CASE ~(heads /\ tx # "idle")
    <3>1. UNCHANGED <<hw, tx, txb, late, quarantine, overwritten, obeyed, canReached>>
      BY <2>1, <2>5
    <3> QED BY <2>2, <3>1, QuietAnswers
  <2> QED BY <2>4, <2>5
<1> QED BY <1>1, <1>2

LEMMA CommandAnswers ==
  ASSUME AnswersInv, HeadStays, NEW cmds,
         \/ Can!HandleConfirmed(cmds) \/ Can!HandleControl(cmds)
         \/ Can!HandleBatch(cmds) \/ Can!HandleEmergency(cmds)
  PROVE  AnswersInv'
<1>1. \/ Can!Refuse
      \/ \E newq : Can!Queued(newq, cmds)
      \/ /\ UNCHANGED <<hw, tx, quarantine, overwritten, Can!hardware>>
         /\ \E next : Can!Finish(next)
  <2>1. CASE Can!HandleConfirmed(cmds)
    BY <2>1 DEF Can!HandleConfirmed
  <2>2. CASE Can!HandleControl(cmds)
    BY <2>2 DEF Can!HandleControl
  <2>3. CASE Can!HandleBatch(cmds)
    BY <2>3 DEF Can!HandleBatch
  <2>4. CASE Can!HandleEmergency(cmds)
    BY <2>4 DEF Can!HandleEmergency
  <2> QED BY <2>1, <2>2, <2>3, <2>4
<1>2. CASE /\ UNCHANGED <<hw, tx, quarantine, overwritten, Can!hardware>>
           /\ \E next : Can!Finish(next)
  <2>1. msg'.kind # "frame"
    BY <1>2, FinishMsg
  <2> QED BY <1>2, <2>1, QuietAnswers DEF Can!hardware, Can!station
<1> QED BY <1>1, <1>2, RefuseAnswers, QueuedAnswers

\* The server's own steps with the frame on the wire.
LEMMA ProgressAnswers ==
  ASSUME AnswersInv, HeadStays,
         \/ Can!ProgressQuiet \/ Can!ProgressNoAnswer \/ Can!ProgressPending
         \/ Can!ProgressSent \/ Can!ProgressFailed
  PROVE  AnswersInv'
<1>1. msg' = msg /\ pc' # "receive" /\ late' = late /\ canReached' = canReached /\ obeyed' = obeyed
  BY DEF Can!ProgressQuiet, Can!ProgressNoAnswer, Can!ProgressPending, Can!ProgressSent,
    Can!ProgressFailed, Can!hardware, Can!station
<1>2. CASE Can!ProgressQuiet \/ Can!ProgressPending
  <2>1. UNCHANGED <<hw, tx, txb, quarantine, overwritten>>
    BY <1>2 DEF Can!ProgressQuiet, Can!ProgressPending, Can!hardware
  <2> QED BY <1>1, <2>1, QuietAnswers
<1>3. CASE Can!ProgressNoAnswer
  <2>1. tx # "idle" /\ tx' = "idle" /\ Can!Quarantine /\ txb' = txb /\ hw' = hw
    BY <1>3 DEF Can!ProgressNoAnswer, Can!hardware
  <2> QED BY <1>1, <2>1, EndedAnswers
<1>4. CASE Can!ProgressFailed
  <2>1. /\ tx # "idle" /\ tx' = "idle" /\ Can!Quarantine
        /\ txb' \in {txb, Can!NoFrame} /\ (hw' => hw)
    BY <1>4 DEF Can!ProgressFailed, Can!Abort
  <2> QED BY <1>1, <2>1, EndedAnswers
<1>5. CASE Can!ProgressSent
  <2>1. /\ tx = "active" /\ tx' = "waiting" /\ txb = Can!NoFrame /\ txb' = txb /\ q' = q
        /\ UNCHANGED <<hw, quarantine, overwritten>>
    BY <1>5 DEF Can!ProgressSent, Can!hardware
  <2>2. WireOK'
    BY <1>1, <2>1 DEF AnswersInv, WireOK
  <2>3. LateOK' /\ OpenOK'
    BY <1>1, <2>1, AnswersStay DEF AnswersInv
  <2> QED BY <2>2, <2>3 DEF AnswersInv
<1> QED BY <1>2, <1>3, <1>4, <1>5

LEMMA StartAnswers ==
  ASSUME CanInv, AnswersInv, HeadStays,
         Can!StartSend \/ Can!StartBusy \/ Can!StartFails \/ Can!StartDone
  PROVE  AnswersInv'
<1>1. /\ msg'.kind = "frame" => msg' = msg
      /\ pc' = "receive" => msg'.kind # "frame"
      /\ late' = late /\ canReached' = canReached
  <2>1. CASE Can!StartFails
    BY <2>1 DEF Can!StartFails, AnswersInv, WireOK
  <2>2. CASE ~Can!StartFails
    <3>1. Can!GoesOn /\ late' = late /\ canReached' = canReached
      BY <2>2 DEF Can!StartSend, Can!StartBusy, Can!StartDone, Can!hardware, Can!station
    <3> QED BY <3>1, GoesOnMsg
  <2> QED BY <2>1, <2>2
<1>2. CASE Can!StartSend
  <2>1. /\ hw /\ q # <<>> /\ tx = "idle" /\ txb = Can!NoFrame
        /\ txb' = Head(q).cmd /\ obeyed' = FALSE /\ tx' = "active"
        /\ UNCHANGED <<hw, q, quarantine, overwritten>>
    BY <1>2 DEF Can!StartSend, Can!MayStart, Can!Raise
  <2>2. txb' \in Bytes
    BY <2>1, HeadCommand DEF Bytes
  <2>3. WireOK'
    BY <1>1, <2>1, <2>2 DEF AnswersInv, WireOK
  <2>4. LateOK' /\ OpenOK'
    BY <1>1, <2>1, AnswersStay DEF AnswersInv
  <2> QED BY <2>3, <2>4 DEF AnswersInv
<1>3. CASE Can!StartBusy
  <2>1. UNCHANGED <<hw, tx, txb, quarantine, overwritten, obeyed>>
    BY <1>3 DEF Can!StartBusy, Can!hardware, Can!station
  <2> QED BY <1>1, <2>1, QuietAnswers
<1>4. CASE Can!StartFails
  <2>1. /\ hw /\ q # <<>> /\ tx = "idle" /\ tx' = tx
        /\ UNCHANGED <<pc, msg, quarantine, overwritten>>
        /\ \/ txb' \in {txb, Can!NoFrame}
           \/ ~hw' /\ txb' = Head(q).cmd
    BY <1>4 DEF Can!StartFails, Can!MayStart, Can!Abort, Can!Raise
  <2>2. txb' \in Bytes
    BY <2>1, HeadCommand DEF Bytes, AnswersInv, WireOK
  <2>3. WireOK'
    BY <1>1, <2>1, <2>2 DEF AnswersInv, WireOK
  <2>4. CASE txb' \in {txb, Can!NoFrame}
    <3>1. LateOK' /\ OpenOK'
      BY <1>1, <2>1, <2>4, AnswersStay DEF AnswersInv
    <3> QED BY <2>3, <3>1 DEF AnswersInv
  <2>5. CASE ~hw'
    BY <1>1, <2>3, <2>5, DeadAnswers DEF AnswersInv
  <2> QED BY <2>1, <2>4, <2>5
<1>5. CASE Can!StartDone
  <2>1. /\ UNCHANGED <<hw, quarantine, overwritten, txb, obeyed>>
        /\ tx' # tx => ~hw /\ tx' = "idle"
    BY <1>5 DEF Can!StartDone, Can!FailAll, Can!hardware, Can!station
  <2>2. tx' = tx
    BY <2>1 DEF AnswersInv, WireOK
  <2> QED BY <1>1, <2>1, <2>2, QuietAnswers
<1> QED BY <1>2, <1>3, <1>4, <1>5

LEMMA AnswersStep ==
  ASSUME CanInv, LineInv, AnswersInv, [Can!Next]_(Can!vars)
  PROVE  AnswersInv'
<1>0. HeadStays
  BY LineStep
<1>1. CASE \E cmds \in Can!Several(Can!Commands) :
             \/ Can!HandleConfirmed(cmds) \/ Can!HandleControl(cmds)
             \/ Can!HandleBatch(cmds) \/ Can!HandleEmergency(cmds)
  BY <1>0, <1>1, CommandAnswers
<1>2. CASE \E t \in {status[i].token : i \in Can!Slots} : Can!HandleCancel(t)
  BY <1>0, <1>2, HandleCancelAnswers
<1>3. CASE Can!Transmit
  BY <1>3, TransmitAnswers
<1>4. CASE Can!FrameIgnored \/ Can!FrameConfirms
  BY <1>4, FrameIgnoredAnswers, FrameConfirmsAnswers
<1>5. CASE \/ Can!ProgressQuiet \/ Can!ProgressNoAnswer \/ Can!ProgressPending
           \/ Can!ProgressSent \/ Can!ProgressFailed
  BY <1>0, <1>5, ProgressAnswers
<1>6. CASE Can!StartSend \/ Can!StartBusy \/ Can!StartFails \/ Can!StartDone
  BY <1>0, <1>6, StartAnswers
<1>7. CASE Can!HandleHwFailed
  <2>1. /\ ~hw' /\ tx' = "idle" /\ Can!Finish("receive")
        /\ UNCHANGED <<quarantine, overwritten, txb, late, obeyed, canReached>>
    BY <1>7 DEF Can!HandleHwFailed, Can!FailAll, Can!hardware, Can!station
  <2>2. msg'.kind # "frame"
    BY <2>1, FinishMsg
  <2>3. WireOK'
    BY <2>1, <2>2 DEF AnswersInv, WireOK
  <2> QED BY <2>1, <2>2, <2>3, DeadAnswers DEF AnswersInv
<1>8. CASE Can!HandleRegister
  <2>1. /\ UNCHANGED <<hw, tx, txb, late, quarantine, overwritten, obeyed, canReached>>
        /\ Can!Finish("receive")
    BY <1>8 DEF Can!HandleRegister, Can!server, Can!hardware, Can!station
  <2> QED BY <1>0, <2>1, FinishMsg, QuietAnswers
<1>9. CASE Can!TakeFrame
  BY <1>9, TakeFrameAnswers
<1>10. CASE \/ Can!TakePoll \/ Can!TakeQuery \/ Can!TakeHwFailed
            \/ \E c \in Tasks : Can!TakeRequest(c)
  <2>1. PICK m : Can!Take(m) /\ late' = late /\ m.kind # "frame"
    <3>1. ASSUME NEW kind \in {"poll", "query", "hw failed"}, Can!TakeNotice(kind)
          PROVE  \E m : Can!Take(m) /\ late' = late /\ m.kind # "frame"
      <4>1. [kind |-> kind].kind # "frame"
        OBVIOUS
      <4> QED BY <3>1, <4>1 DEF Can!TakeNotice
    <3>2. ASSUME NEW c \in Tasks, Can!TakeRequest(c)
          PROVE  \E m : Can!Take(m) /\ late' = late /\ m.kind # "frame"
      <4>1. [kind |-> "request", from |-> c].kind # "frame"
        OBVIOUS
      <4> QED BY <3>2, <4>1 DEF Can!TakeRequest
    <3> QED BY <1>10, <3>1, <3>2 DEF Can!TakePoll, Can!TakeQuery, Can!TakeHwFailed
  <2>2. UNCHANGED <<hw, tx, txb, late, quarantine, overwritten, obeyed, canReached>> /\ msg' = m
    BY <2>1 DEF Can!Take, Can!server
  <2> QED BY <1>0, <2>1, <2>2, QuietAnswers
<1>11. CASE UNCHANGED Can!vars
  <2>1. UNCHANGED <<hw, tx, txb, late, quarantine, overwritten, obeyed, canReached, pc, msg>>
    BY <1>11 DEF Can!vars, Can!server, Can!hardware, Can!station
  <2>2. pc' = "receive" => msg'.kind # "frame"
    BY <2>1 DEF AnswersInv, WireOK
  <2> QED BY <1>0, <2>1, <2>2, QuietAnswers
<1> QED BY <1>1, <1>2, <1>3, <1>4, <1>5, <1>6, <1>7, <1>8, <1>9, <1>10, <1>11
    DEF Can!Next, Can!Server, Can!Notifiers

LEMMA AnswersInit ==
  ASSUME Can!Init
  PROVE  AnswersInv
<1>1. /\ pc = "receive" /\ msg = Can!Nothing /\ tx = "idle" /\ txb = Can!NoFrame /\ late = <<>>
      /\ quarantine = Can!NoFrame
  BY DEF Can!Init
<1>2. msg.kind # "frame"
  BY <1>1 DEF Can!Nothing
<1>3. WireOK
  BY <1>1, <1>2 DEF WireOK, Bytes
<1>4. late \in Seq(Bytes) /\ Len(late) = 0
  BY <1>1
<1>5. Arrives = {} /\ Open = {}
  <2>1. \A k \in 0 .. 0 : k = 0
    OBVIOUS
  <2>2. \A k \in -1 .. 0 : k = 0 \/ k = -1
    OBVIOUS
  <2> QED BY <1>1, <1>2, <1>4, <2>1, <2>2 DEF Arrives, Open
<1>6. LateOK
  BY <1>4, <1>5 DEF LateOK
<1>7. -2 \in Int /\ Excused(-2)
  BY <1>5 DEF Excused
<1>8. OpenOK
  BY <1>7 DEF OpenOK
<1> QED BY <1>3, <1>6, <1>8 DEF AnswersInv

\* What the CAN server owes those who queue frames: batches fail or complete as
\* a whole, stops overtake what is less urgent but never the frame on the wire,
\* and what it reports done the station has done.
THEOREM BatchesAreInOrder == Can!Spec => BatchesInOrder
<1> DEFINE Inv == CanInv /\ LineInv /\ AnswersInv
           Order == \A i, j \in DOMAIN q : i < j => q[i].rank >= q[j].rank \/ (i = 1 /\ tx # "idle")
           Stays == tx # "idle" /\ tx' # "idle" => Head(q') = Head(q)
           Done == Can!FrameConfirms => obeyed \/ Head(q).cmd \in canReached \/ overwritten
<1>1. Can!Init => Inv
  BY CanInit, LineInit, AnswersInit
<1>2. Inv /\ [Can!Next]_(Can!vars) => Inv'
  BY CanStep, LineStep, AnswersStep
<1>3. Inv => Can!BatchesAccounted /\ Order
  BY LineCounts
<1>4. Inv /\ [Can!Next]_(Can!vars) => [Stays]_(Can!vars)
  BY LineStep DEF HeadStays
<1>5. Inv /\ [Can!Next]_(Can!vars) => [Done]_(Can!vars)
  BY FrameConfirmsAnswers
<1>6. []Order /\ [][Stays]_(Can!vars) => Can!UrgentFirst
  BY DEF Can!UrgentFirst
<1>7. [][Done]_(Can!vars) => Can!DoneMeansExecuted
  BY DEF Can!DoneMeansExecuted
<1> HIDE DEF Inv, Order, Stays, Done
<1> QED BY <1>1, <1>2, <1>3, <1>4, <1>5, <1>6, <1>7, PTL DEF Can!Spec, BatchesInOrder
=============================================================================
