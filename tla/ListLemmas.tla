----------------------------- MODULE ListLemmas -----------------------------
(***************************************************************************)
(* What appending, unlinking the head and inserting do to the members of a *)
(* list without repetitions, which the invariants of the kernel and of the *)
(* dispatcher rest on; induction over the natural numbers, for sets, with  *)
(* what filtering a list keeps as its first use; and what a line that is   *)
(* cut into several lists keeps when an element goes from one to the next, *)
(* which those of the terminal server and the CAN server rest on.          *)
(***************************************************************************)
EXTENDS Lists, SequenceTheorems, WellFoundedInduction, TLAPS

\* Members of a list are the values at its positions 1 .. Len.
LEMMA MembersPos ==
  ASSUME NEW S, NEW q \in Seq(S), NEW e
  PROVE  e \in Members(q) <=> \E i \in 1 .. Len(q) : q[i] = e
  BY LenProperties DEF Members

\* Appending a new element keeps a list free of repetitions.
LEMMA AppendLine ==
  ASSUME NEW S, NEW q \in Seq(S), NEW e \in S, InjectiveSeq(q),
         e \notin Members(q)
  PROVE  /\ Append(q, e) \in Seq(S)
         /\ \A x : x \in Members(Append(q, e)) <=> x \in Members(q) \/ x = e
         /\ InjectiveSeq(Append(q, e))
<1> DEFINE r == Append(q, e)
<1>1. /\ r \in Seq(S)
      /\ Len(r) = Len(q) + 1
      /\ \A i \in 1 .. Len(q) : r[i] = q[i]
      /\ r[Len(q) + 1] = e
      /\ Len(q) \in Nat
      /\ DOMAIN q = 1 .. Len(q)
      /\ DOMAIN r = 1 .. Len(r)
  BY AppendProperties, LenProperties
<1> HIDE DEF r
<1>2. \A x : x \in Members(r) <=> \E i \in 1 .. Len(r) : r[i] = x
  BY <1>1, MembersPos
<1>3. \A x : x \in Members(q) <=> \E i \in 1 .. Len(q) : q[i] = x
  BY <1>1, MembersPos
<1>4. \A x : x \in Members(r) <=> x \in Members(q) \/ x = e
  BY <1>1, <1>2, <1>3
<1>5. InjectiveSeq(r)
  BY <1>1, <1>3 DEF InjectiveSeq
<1> QED BY <1>1, <1>4, <1>5 DEF r

\* Unlinking the head removes exactly the head.
LEMMA TailLine ==
  ASSUME NEW S, NEW q \in Seq(S), q # <<>>, InjectiveSeq(q)
  PROVE  /\ Tail(q) \in Seq(S)
         /\ Head(q) \in S
         /\ Head(q) \in Members(q)
         /\ \A x : x \in Members(Tail(q))
                     <=> x \in Members(q) /\ x # Head(q)
         /\ InjectiveSeq(Tail(q))
<1> DEFINE r == Tail(q)
<1>1. /\ r \in Seq(S)
      /\ Len(r) = Len(q) - 1
      /\ \A i \in 1 .. Len(r) : r[i] = q[i + 1]
      /\ Len(q) \in Nat \ {0}
      /\ DOMAIN q = 1 .. Len(q)
      /\ DOMAIN r = 1 .. Len(r)
      /\ Head(q) \in S
  BY HeadTailProperties, LenProperties, EmptySeq
<1>2. Head(q) = q[1]
  OBVIOUS
<1> HIDE DEF r
<1>3. \A x : x \in Members(r) <=> \E i \in 1 .. Len(r) : r[i] = x
  BY <1>1, MembersPos
<1>4. \A x : x \in Members(q) <=> \E i \in 1 .. Len(q) : q[i] = x
  BY <1>1, MembersPos
<1>5. Head(q) \in Members(q)
  BY <1>1, <1>2, <1>4
<1>6. ASSUME NEW x PROVE x \in Members(r) <=> x \in Members(q) /\ x # Head(q)
  <2>1. ASSUME NEW i \in 1 .. Len(r), r[i] = x
        PROVE  x \in Members(q) /\ x # Head(q)
    <3>1. i + 1 \in 1 .. Len(q) /\ q[i + 1] = x /\ 1 \in 1 .. Len(q)
      BY <1>1, <2>1
    <3>2. i + 1 # 1
      BY <2>1
    <3> QED BY <3>1, <3>2, <1>1, <1>2, <1>4 DEF InjectiveSeq
  <2>2. ASSUME NEW i \in 1 .. Len(q), q[i] = x, x # Head(q)
        PROVE  x \in Members(r)
    <3>1. i # 1
      BY <2>2, <1>2
    <3>2. i - 1 \in 1 .. Len(r) /\ r[i - 1] = q[i]
      BY <3>1, <1>1
    <3> QED BY <3>2, <2>2, <1>3
  <2> QED BY <2>1, <2>2, <1>3, <1>4
<1>7. InjectiveSeq(r)
  <2> SUFFICES ASSUME NEW i \in 1 .. Len(r), NEW j \in 1 .. Len(r),
                      r[i] = r[j]
               PROVE  i = j
    BY <1>1 DEF InjectiveSeq
  <2>1. i + 1 \in 1 .. Len(q) /\ j + 1 \in 1 .. Len(q) /\ q[i + 1] = q[j + 1]
    BY <1>1
  <2> QED BY <2>1, <1>1 DEF InjectiveSeq
<1> QED BY <1>1, <1>5, <1>6, <1>7 DEF r

\* The list with e behind position k, as InsertByWakeup builds it.
Inserted(q, k, e) == SubSeq(q, 1, k) \o <<e>> \o SubSeq(q, k + 1, Len(q))

\* r is q with e behind position k, position by position.
HasInserted(r, q, k, e) ==
  /\ Len(r) = Len(q) + 1
  /\ \A i \in 1 .. Len(q) + 1 :
       r[i] = IF i <= k THEN q[i] ELSE IF i = k + 1 THEN e ELSE q[i - 1]

\* Inserting after position k moves the positions behind it by one.
LEMMA InsertPositions ==
  ASSUME NEW S, NEW q \in Seq(S), NEW e \in S, NEW k \in 0 .. Len(q)
  PROVE  Inserted(q, k, e) \in Seq(S) /\ HasInserted(Inserted(q, k, e), q, k, e)
<1> DEFINE a == SubSeq(q, 1, k)
           b == SubSeq(q, k + 1, Len(q))
           r == a \o <<e>> \o b
<1>1. Len(q) \in Nat /\ DOMAIN q = 1 .. Len(q)
  BY LenProperties
<1>2. \A i \in 1 .. Len(q) : q[i] \in S
  BY ElementOfSeq
<1>3. /\ a \in Seq(S)
      /\ Len(a) = k
      /\ \A i \in 1 .. k : a[i] = q[i]
  <2>1. \A i \in 1 .. k : q[i] \in S
    BY <1>1, <1>2
  <2>2. /\ a \in Seq(S)
        /\ Len(a) = (IF 1 <= k THEN k - 1 + 1 ELSE 0)
        /\ \A i \in 1 .. k - 1 + 1 : a[i] = q[1 + i - 1]
    BY <2>1, SubSeqProperties, <1>1
  <2> HIDE DEF a
  <2> QED BY <2>2, <1>1
<1>4. /\ b \in Seq(S)
      /\ Len(b) = Len(q) - k
      /\ \A i \in 1 .. Len(q) - k : b[i] = q[k + i]
  <2>1. \A i \in k + 1 .. Len(q) : q[i] \in S
    BY <1>1, <1>2
  <2>2. /\ b \in Seq(S)
        /\ Len(b) = (IF k + 1 <= Len(q) THEN Len(q) - (k + 1) + 1 ELSE 0)
        /\ \A i \in 1 .. Len(q) - (k + 1) + 1 : b[i] = q[(k + 1) + i - 1]
    BY <2>1, SubSeqProperties, <1>1
  <2> HIDE DEF b
  <2>a. k \in Nat /\ k <= Len(q)
    BY <1>1
  <2>b. Len(b) = IF k + 1 <= Len(q) THEN Len(q) - (k + 1) + 1 ELSE 0
    BY <2>2
  <2>c. \A n, m \in Nat :
          m <= n => n - m = IF m + 1 <= n THEN n - (m + 1) + 1 ELSE 0
    OBVIOUS
  <2>3. Len(b) = Len(q) - k
    BY <2>a, <2>b, <2>c, <1>1
  <2>4. ASSUME NEW i \in 1 .. Len(q) - k PROVE b[i] = q[k + i]
    <3>1. (k + 1) + i - 1 = k + i /\ i \in 1 .. Len(q) - (k + 1) + 1
      BY <1>1
    <3> QED BY <3>1, <2>2
  <2> QED BY <2>2, <2>3, <2>4
<1>5. <<e>> \in Seq(S) /\ Len(<<e>>) = 1 /\ <<e>>[1] = e
  OBVIOUS
<1> HIDE DEF a, b
<1> DEFINE ae == a \o <<e>>
<1>6. /\ ae \in Seq(S)
      /\ Len(ae) = k + 1
      /\ \A i \in 1 .. k + 1 : ae[i] = IF i <= k THEN q[i] ELSE e
  <2>1. /\ ae \in Seq(S)
        /\ Len(ae) = Len(a) + Len(<<e>>)
        /\ \A i \in 1 .. Len(a) + Len(<<e>>) :
             ae[i] = IF i <= Len(a) THEN a[i] ELSE <<e>>[i - Len(a)]
    BY <1>3, <1>5, ConcatProperties
  <2> HIDE DEF ae
  <2>2. \A i \in 1 .. k + 1 : ae[i] = IF i <= k THEN q[i] ELSE e
    BY <2>1, <1>3, <1>5, <1>1
  <2> QED BY <2>1, <2>2, <1>3, <1>5
<1>7. /\ r \in Seq(S)
      /\ Len(r) = Len(q) + 1
      /\ \A i \in 1 .. Len(q) + 1 :
           r[i] = IF i <= k THEN q[i] ELSE IF i = k + 1 THEN e ELSE q[i - 1]
  <2>0. r = ae \o b
    OBVIOUS
  <2> HIDE DEF ae, r
  <2>1. /\ r \in Seq(S)
        /\ Len(r) = Len(ae) + Len(b)
        /\ \A i \in 1 .. Len(ae) + Len(b) :
             r[i] = IF i <= Len(ae) THEN ae[i] ELSE b[i - Len(ae)]
    BY <1>4, <1>6, <2>0, ConcatProperties
  <2>2. Len(r) = Len(q) + 1
    BY <2>1, <1>4, <1>6, <1>1
  <2>3. ASSUME NEW i \in 1 .. Len(q) + 1
        PROVE  r[i] = IF i <= k THEN q[i] ELSE IF i = k + 1 THEN e
                                               ELSE q[i - 1]
    <3>1. CASE i <= k + 1
      <4>1. i \in 1 .. k + 1 /\ i \in 1 .. Len(ae) + Len(b) /\ i <= Len(ae)
        BY <3>1, <1>4, <1>6, <1>1
      <4>2. r[i] = ae[i]
        BY <4>1, <2>1
      <4> QED BY <4>1, <4>2, <1>6
    <3>2. CASE i > k + 1
      <4>1. i - (k + 1) \in 1 .. Len(q) - k /\ k + (i - (k + 1)) = i - 1
        BY <3>2, <1>1
      <4>2. b[i - (k + 1)] = q[i - 1]
        BY <4>1, <1>4
      <4> QED BY <3>2, <4>2, <2>1, <1>4, <1>6, <1>1
    <3> QED BY <3>1, <3>2, <1>1
  <2> QED BY <2>1, <2>2, <2>3
<1> QED BY <1>7 DEF r, a, b, Inserted, HasInserted

\* Inserting a new element anywhere (timer_wait_insert, and the front
\* insertion of io_event_wait_insert with k = 0).
LEMMA InsertLine ==
  ASSUME NEW S, NEW q \in Seq(S), NEW e \in S, InjectiveSeq(q),
         e \notin Members(q), NEW k \in 0 .. Len(q)
  PROVE  LET r == SubSeq(q, 1, k) \o <<e>> \o SubSeq(q, k + 1, Len(q))
         IN  /\ r \in Seq(S)
             /\ \A x : x \in Members(r) <=> x \in Members(q) \/ x = e
             /\ InjectiveSeq(r)
<1> DEFINE r == Inserted(q, k, e)
<1>1. Len(q) \in Nat /\ DOMAIN q = 1 .. Len(q)
  BY LenProperties
<1>2. /\ r \in Seq(S)
      /\ Len(r) = Len(q) + 1
      /\ \A i \in 1 .. Len(q) + 1 :
           r[i] = IF i <= k THEN q[i] ELSE IF i = k + 1 THEN e ELSE q[i - 1]
  <2>1. r \in Seq(S) /\ HasInserted(r, q, k, e)
    BY InsertPositions
  <2> HIDE DEF r
  <2> QED BY <2>1 DEF HasInserted
<1> HIDE DEF r
<1>3. DOMAIN r = 1 .. Len(q) + 1
  BY <1>2, LenProperties
<1>4. \A x : x \in Members(r) <=> \E i \in 1 .. Len(q) + 1 : r[i] = x
  BY <1>2, MembersPos
<1>5. \A x : x \in Members(q) <=> \E i \in 1 .. Len(q) : q[i] = x
  BY MembersPos
<1>6. ASSUME NEW x PROVE x \in Members(r) <=> x \in Members(q) \/ x = e
  <2>1. ASSUME NEW i \in 1 .. Len(q) + 1, r[i] = x
        PROVE  x \in Members(q) \/ x = e
    BY <2>1, <1>2, <1>5, <1>1
  <2>2. ASSUME NEW i \in 1 .. Len(q), q[i] = x
        PROVE  x \in Members(r)
    <3>1. CASE i <= k
      BY <3>1, <2>2, <1>2, <1>4, <1>1
    <3>2. CASE i > k
      <4>1. i + 1 \in 1 .. Len(q) + 1 /\ r[i + 1] = q[i]
        BY <3>2, <1>2, <1>1
      <4> QED BY <4>1, <2>2, <1>4
    <3> QED BY <3>1, <3>2, <1>1
  <2>3. e \in Members(r)
    <3>1. k + 1 \in 1 .. Len(q) + 1 /\ r[k + 1] = e
      BY <1>2, <1>1
    <3> QED BY <3>1, <1>4
  <2> QED BY <2>1, <2>2, <2>3, <1>4, <1>5
<1>7. InjectiveSeq(r)
  <2> SUFFICES ASSUME NEW i \in 1 .. Len(q) + 1, NEW j \in 1 .. Len(q) + 1,
                      r[i] = r[j], i < j
               PROVE  FALSE
    BY <1>3, <1>1 DEF InjectiveSeq
  <2>1. \A n \in 1 .. Len(q) : q[n] # e
    BY <1>5
  <2>2. CASE j = k + 1
    BY <2>2, <2>1, <1>2, <1>1
  <2>3. CASE i = k + 1
    <3>1. j - 1 \in 1 .. Len(q)
      BY <2>3, <1>1
    <3> QED BY <3>1, <2>3, <2>1, <1>2, <1>1
  <2>4. CASE i # k + 1 /\ j # k + 1
    <3> DEFINE f(n) == IF n <= k THEN n ELSE n - 1
    <3>1. /\ f(i) \in 1 .. Len(q) /\ f(j) \in 1 .. Len(q)
          /\ f(i) # f(j)
          /\ r[i] = q[f(i)] /\ r[j] = q[f(j)]
      BY <2>4, <1>2, <1>1
    <3> HIDE DEF f
    <3> QED BY <3>1, <1>1 DEF InjectiveSeq
  <2> QED BY <2>2, <2>3, <2>4
<1> QED BY <1>2, <1>6, <1>7 DEF r, Inserted

-----------------------------------------------------------------------------
(* Induction over the natural numbers, for a set: a predicate P is proved  *)
(* for all of them with {n \in Nat : P(n)}.                                *)

Less == {p \in Nat \X Nat : p[1] < p[2]}

LEMMA LessIsWellFounded == IsWellFoundedOn(Less, Nat)
<1>1. OpToRel(<, Nat) = Less
  BY DEF OpToRel, Less
<1> QED BY <1>1, NatLessThanWellFounded

\* A set of natural numbers that is not empty has a smallest one.
LEMMA SmallestExists ==
  ASSUME NEW T, T \subseteq Nat, T # {}
  PROVE  \E n \in T : \A m \in T : n <= m
<1>1. \E n \in T : \A m \in T : ~(<<m, n>> \in Less)
  BY LessIsWellFounded, WFMin
<1>2. PICK n \in T : \A m \in T : ~(<<m, n>> \in Less)
  BY <1>1
<1>3. \A m \in T : ~(m < n)
  BY <1>2 DEF Less
<1>4. n \in Nat /\ \A m \in T : m \in Nat
  OBVIOUS
<1>5. \A m \in T : n <= m
  BY <1>3, <1>4
<1> QED BY <1>5

LEMMA Induction ==
  ASSUME NEW S, 0 \in S, \A n \in Nat : n \in S => n + 1 \in S
  PROVE  Nat \subseteq S
<1> SUFFICES ASSUME Nat \ S # {} PROVE FALSE
  OBVIOUS
<1>1. PICK n \in Nat \ S : \A m \in Nat \ S : n <= m
  BY SmallestExists
<1>2. n # 0 /\ n - 1 \in Nat /\ n - 1 \in S
  BY <1>1
<1> QED BY <1>1, <1>2

-----------------------------------------------------------------------------
(* Keeping some of a list's elements, and joining two lists.               *)

\* g is how Kept goes through the first n elements of q.
Keeps(g, q, T, n) ==
  g = [i \in 0 .. n |->
         IF i = 0 THEN <<>>
         ELSE IF q[i] \in T THEN Append(g[i - 1], q[i]) ELSE g[i - 1]]

LEMMA KeepsExists ==
  ASSUME NEW q, NEW T
  PROVE  \A n \in Nat : \E g : Keeps(g, q, T, n)
<1> DEFINE S == {n \in Nat : \E g : Keeps(g, q, T, n)}
<1>1. 0 \in S
  <2> DEFINE g == [i \in 0 .. 0 |-> <<>>]
  <2>1. Keeps(g, q, T, 0)
    BY DEF Keeps
  <2> QED BY <2>1
<1>2. ASSUME NEW n \in Nat, n \in S PROVE n + 1 \in S
  <2>1. PICK g : Keeps(g, q, T, n)
    BY <1>2
  <2> DEFINE h == [i \in 0 .. n + 1 |->
                     IF i <= n THEN g[i]
                     ELSE IF q[i] \in T THEN Append(g[n], q[i]) ELSE g[n]]
  <2>2. ASSUME NEW i \in 0 .. n + 1
        PROVE  h[i] = IF i = 0 THEN <<>>
                      ELSE IF q[i] \in T THEN Append(h[i - 1], q[i]) ELSE h[i - 1]
    <3>1. CASE i = 0
      BY <3>1, <2>1 DEF Keeps
    <3>2. CASE i # 0 /\ i <= n
      <4>1. i \in 0 .. n /\ i - 1 \in 0 .. n /\ i - 1 \in 0 .. n + 1 /\ i - 1 <= n
        BY <3>2
      <4>2. h[i] = g[i] /\ h[i - 1] = g[i - 1]
        BY <3>2, <4>1
      <4>3. g[i] = IF q[i] \in T THEN Append(g[i - 1], q[i]) ELSE g[i - 1]
        BY <3>2, <4>1, <2>1 DEF Keeps
      <4> QED BY <3>2, <4>2, <4>3
    <3>3. CASE i = n + 1
      <4>1. h[i - 1] = g[n] /\ i # 0
        BY <3>3
      <4> QED BY <3>3, <4>1
    <3> QED BY <3>1, <3>2, <3>3
  <2>3. Keeps(h, q, T, n + 1)
    <3>1. h = [i \in 0 .. n + 1 |-> h[i]]
      OBVIOUS
    <3> HIDE DEF h
    <3> QED BY <3>1, <2>2 DEF Keeps
  <2> QED BY <2>3
<1>3. Nat \subseteq S
  <2> HIDE DEF S
  <2> QED BY <1>1, <1>2, Induction
<1> QED BY <1>3

\* The elements that are kept are those of T, and no element is doubled.
LEMMA KeptLine ==
  ASSUME NEW S, NEW q \in Seq(S), NEW T
  PROVE  /\ Kept(q, T) \in Seq(S)
         /\ \A x : x \in Members(Kept(q, T)) <=> x \in Members(q) /\ x \in T
         /\ InjectiveSeq(q) => InjectiveSeq(Kept(q, T))
<1>1. Len(q) \in Nat /\ DOMAIN q = 1 .. Len(q) /\ \A i \in 1 .. Len(q) : q[i] \in S
  BY LenProperties, ElementOfSeq
<1> DEFINE g == CHOOSE h : Keeps(h, q, T, Len(q))
<1>2. Keeps(g, q, T, Len(q))
  BY <1>1, KeepsExists
<1>3. Kept(q, T) = g[Len(q)]
  BY DEF Kept, Keeps
<1> HIDE DEF g
<1> DEFINE Sound(n) ==
      /\ g[n] \in Seq(S)
      /\ \A x : x \in Members(g[n]) <=> (\E i \in 1 .. n : q[i] = x) /\ x \in T
      /\ InjectiveSeq(q) => InjectiveSeq(g[n])
    P == {n \in Nat : n <= Len(q) => Sound(n)}
<1>4. 0 \in P
  <2>1. g[0] = <<>>
    BY <1>1, <1>2 DEF Keeps
  <2>2. g[0] \in Seq(S) /\ Members(g[0]) = {} /\ InjectiveSeq(g[0])
    BY <2>1 DEF Members, InjectiveSeq
  <2> QED BY <2>2
<1>5. ASSUME NEW n \in Nat, n \in P PROVE n + 1 \in P
  <2> SUFFICES ASSUME n + 1 <= Len(q) PROVE Sound(n + 1)
    OBVIOUS
  <2>1. Sound(n)
    BY <1>1, <1>5
  <2>2. n + 1 \in 1 .. Len(q) /\ n + 1 \in 0 .. Len(q) /\ n + 1 # 0 /\ (n + 1) - 1 = n
    BY <1>1
  <2>3. g[n + 1] = IF q[n + 1] \in T THEN Append(g[n], q[n + 1]) ELSE g[n]
    BY <1>2, <2>2 DEF Keeps
  <2>4. q[n + 1] \in S
    BY <1>1, <2>2
  <2>5. \A x : (\E i \in 1 .. n + 1 : q[i] = x)
                 <=> (\E i \in 1 .. n : q[i] = x) \/ x = q[n + 1]
    OBVIOUS
  <2>6. CASE q[n + 1] \notin T
    BY <2>1, <2>3, <2>5, <2>6
  <2>7. CASE q[n + 1] \in T
    <3>1. g[n + 1] = Append(g[n], q[n + 1])
      BY <2>3, <2>7
    <3>2. /\ g[n + 1] \in Seq(S)
          /\ Len(g[n + 1]) = Len(g[n]) + 1
          /\ \A i \in 1 .. Len(g[n]) : g[n + 1][i] = g[n][i]
          /\ g[n + 1][Len(g[n]) + 1] = q[n + 1]
          /\ Len(g[n]) \in Nat
      BY <2>1, <2>4, <3>1, AppendProperties, LenProperties
    <3>3. \A x : x \in Members(g[n + 1]) <=> x \in Members(g[n]) \/ x = q[n + 1]
      <4> DEFINE a == g[n + 1]
                 b == g[n]
                 e == q[n + 1]
      <4>1. /\ a \in Seq(S) /\ b \in Seq(S)
            /\ Len(b) \in Nat /\ Len(a) = Len(b) + 1
            /\ \A i \in 1 .. Len(b) : a[i] = b[i]
            /\ a[Len(b) + 1] = e
        BY <2>1, <3>2
      <4> HIDE DEF a, b, e
      <4>2. /\ \A x : x \in Members(a) <=> \E i \in 1 .. Len(a) : a[i] = x
            /\ \A x : x \in Members(b) <=> \E i \in 1 .. Len(b) : b[i] = x
        BY <4>1, MembersPos
      <4>3. \A x : x \in Members(a) <=> x \in Members(b) \/ x = e
        BY <4>1, <4>2
      <4> QED BY <4>3 DEF a, b, e
    <3>4. ASSUME InjectiveSeq(q) PROVE InjectiveSeq(g[n + 1])
      <4>1. q[n + 1] \notin Members(g[n])
        BY <1>1, <2>1, <2>2, <3>4 DEF InjectiveSeq
      <4> QED BY <2>1, <2>4, <3>1, <3>4, <4>1, AppendLine
    <3> QED BY <2>1, <2>5, <2>7, <3>2, <3>3, <3>4
  <2> QED BY <2>6, <2>7
<1>6. Nat \subseteq P
  <2> HIDE DEF P
  <2> QED BY <1>4, <1>5, Induction
<1>7. Sound(Len(q))
  <2>1. Len(q) \in P
    BY <1>1, <1>6
  <2>2. Len(q) <= Len(q)
    BY <1>1
  <2> QED BY <2>1, <2>2
<1>8. \A x : x \in Members(q) <=> \E i \in 1 .. Len(q) : q[i] = x
  BY MembersPos
<1> QED BY <1>3, <1>7, <1>8

LEMMA WithoutLine ==
  ASSUME NEW S, NEW q \in Seq(S), NEW T
  PROVE  /\ Without(q, T) \in Seq(S)
         /\ \A x : x \in Members(Without(q, T)) <=> x \in Members(q) /\ x \notin T
         /\ InjectiveSeq(q) => InjectiveSeq(Without(q, T))
BY KeptLine DEF Without

\* Joining two lists that have no element in common.
LEMMA JoinedLine ==
  ASSUME NEW S, NEW p \in Seq(S), NEW q \in Seq(S)
  PROVE  /\ p \o q \in Seq(S)
         /\ \A x : x \in Members(p \o q) <=> x \in Members(p) \/ x \in Members(q)
         /\ InjectiveSeq(p) /\ InjectiveSeq(q) /\ (\A x \in Members(p) : x \notin Members(q))
              => InjectiveSeq(p \o q)
<1> DEFINE r == p \o q
<1>1. /\ r \in Seq(S)
      /\ Len(r) = Len(p) + Len(q)
      /\ \A i \in 1 .. Len(p) + Len(q) :
           r[i] = IF i <= Len(p) THEN p[i] ELSE q[i - Len(p)]
  BY ConcatProperties
<1>2. /\ Len(p) \in Nat /\ DOMAIN p = 1 .. Len(p)
      /\ Len(q) \in Nat /\ DOMAIN q = 1 .. Len(q)
      /\ DOMAIN r = 1 .. Len(p) + Len(q)
  BY <1>1, LenProperties
<1> HIDE DEF r
<1>3. /\ \A x : x \in Members(r) <=> \E i \in 1 .. Len(p) + Len(q) : r[i] = x
      /\ \A x : x \in Members(p) <=> \E i \in 1 .. Len(p) : p[i] = x
      /\ \A x : x \in Members(q) <=> \E i \in 1 .. Len(q) : q[i] = x
  BY <1>1, MembersPos
<1>4. \A i \in 1 .. Len(p) : i \in 1 .. Len(p) + Len(q) /\ r[i] = p[i]
  BY <1>1, <1>2
<1>5. \A i \in 1 .. Len(q) : i + Len(p) \in 1 .. Len(p) + Len(q) /\ r[i + Len(p)] = q[i]
  BY <1>1, <1>2
<1>6. \A i \in 1 .. Len(p) + Len(q) :
        \/ i \in 1 .. Len(p) /\ r[i] = p[i]
        \/ i > Len(p) /\ i - Len(p) \in 1 .. Len(q) /\ r[i] = q[i - Len(p)]
  BY <1>1, <1>2
<1>7. \A x : x \in Members(r) <=> x \in Members(p) \/ x \in Members(q)
  BY <1>3, <1>4, <1>5, <1>6
<1>8. ASSUME InjectiveSeq(p), InjectiveSeq(q), \A x \in Members(p) : x \notin Members(q)
      PROVE  InjectiveSeq(r)
  <2> SUFFICES ASSUME NEW i \in 1 .. Len(p) + Len(q), NEW j \in 1 .. Len(p) + Len(q),
                      r[i] = r[j]
               PROVE  i = j
    BY <1>2 DEF InjectiveSeq
  <2>1. CASE i \in 1 .. Len(p) /\ j \in 1 .. Len(p)
    BY <2>1, <1>2, <1>4, <1>8 DEF InjectiveSeq
  <2>2. CASE i > Len(p) /\ j > Len(p)
    <3>1. i - Len(p) \in 1 .. Len(q) /\ j - Len(p) \in 1 .. Len(q)
          /\ q[i - Len(p)] = q[j - Len(p)]
      BY <2>2, <1>6, <1>2
    <3>2. i - Len(p) = j - Len(p)
      BY <3>1, <1>2, <1>8 DEF InjectiveSeq
    <3> QED BY <3>2, <1>2
  <2>3. ASSUME NEW k \in 1 .. Len(p), NEW l \in 1 .. Len(p) + Len(q), l > Len(p)
        PROVE  r[k] # r[l]
    <3>1. r[k] \in Members(p)
      BY <1>3, <1>4
    <3>2. r[l] = q[l - Len(p)] /\ l - Len(p) \in 1 .. Len(q)
      BY <1>6, <1>2, <2>3
    <3>3. r[l] \in Members(q)
      BY <1>3, <3>2
    <3> QED BY <1>8, <3>1, <3>3
  <2>4. /\ i \in 1 .. Len(p) \/ i > Len(p)
        /\ j \in 1 .. Len(p) \/ j > Len(p)
    BY <1>2
  <2> QED BY <2>1, <2>2, <2>3, <2>4
<1> QED BY <1>1, <1>7, <1>8 DEF r

\* What is kept stays in its order.
LEMMA KeptOrdered ==
  ASSUME NEW S, NEW q \in Seq(S), NEW T, NEW R,
         \A i, j \in 1 .. Len(q) : i < j => <<q[i], q[j]>> \in R
  PROVE  \A i, j \in 1 .. Len(Kept(q, T)) : i < j => <<Kept(q, T)[i], Kept(q, T)[j]>> \in R
<1>1. Len(q) \in Nat /\ DOMAIN q = 1 .. Len(q) /\ \A i \in 1 .. Len(q) : q[i] \in S
  BY LenProperties, ElementOfSeq
<1> DEFINE g == CHOOSE h : Keeps(h, q, T, Len(q))
<1>2. Keeps(g, q, T, Len(q))
  BY <1>1, KeepsExists
<1>3. Kept(q, T) = g[Len(q)]
  BY DEF Kept, Keeps
<1> HIDE DEF g
<1> DEFINE Sorted(n) ==
      /\ g[n] \in Seq(S)
      /\ \A i \in 1 .. Len(g[n]) : \E k \in 1 .. n : g[n][i] = q[k]
      /\ \A i, j \in 1 .. Len(g[n]) : i < j => <<g[n][i], g[n][j]>> \in R
    P == {n \in Nat : n <= Len(q) => Sorted(n)}
<1>4. 0 \in P
  <2>1. g[0] = <<>>
    BY <1>1, <1>2 DEF Keeps
  <2>2. g[0] \in Seq(S) /\ Len(g[0]) = 0
    BY <2>1
  <2> QED BY <2>2
<1>5. ASSUME NEW n \in Nat, n \in P PROVE n + 1 \in P
  <2> SUFFICES ASSUME n + 1 <= Len(q) PROVE Sorted(n + 1)
    OBVIOUS
  <2>1. Sorted(n)
    BY <1>1, <1>5
  <2>2. n + 1 \in 1 .. Len(q) /\ n + 1 \in 0 .. Len(q) /\ n + 1 # 0 /\ (n + 1) - 1 = n
    BY <1>1
  <2>3. g[n + 1] = IF q[n + 1] \in T THEN Append(g[n], q[n + 1]) ELSE g[n]
    BY <1>2, <2>2 DEF Keeps
  <2>4. q[n + 1] \in S
    BY <1>1, <2>2
  <2> DEFINE a == g[n + 1]
             b == g[n]
  <2>5. /\ b \in Seq(S) /\ Len(b) \in Nat
        /\ \A i \in 1 .. Len(b) : \E k \in 1 .. n : b[i] = q[k]
        /\ \A i, j \in 1 .. Len(b) : i < j => <<b[i], b[j]>> \in R
    BY <2>1, LenProperties
  <2>6. CASE q[n + 1] \notin T
    <3>1. a = b
      BY <2>3, <2>6
    <3>2. /\ b \in Seq(S)
          /\ \A i \in 1 .. Len(b) : \E k \in 1 .. n + 1 : b[i] = q[k]
          /\ \A i, j \in 1 .. Len(b) : i < j => <<b[i], b[j]>> \in R
      <4> HIDE DEF b
      <4>1. 1 .. n \subseteq 1 .. n + 1
        OBVIOUS
      <4> QED BY <2>5, <4>1
    <3> QED BY <3>1, <3>2
  <2>7. CASE q[n + 1] \in T
    <3>1. /\ a \in Seq(S)
          /\ Len(a) = Len(b) + 1
          /\ \A i \in 1 .. Len(b) : a[i] = b[i]
          /\ a[Len(b) + 1] = q[n + 1]
      BY <2>3, <2>4, <2>5, <2>7, AppendProperties
    <3> HIDE DEF a, b
    <3>2. \A i \in 1 .. Len(a) : \E k \in 1 .. n + 1 : a[i] = q[k]
      BY <2>5, <3>1
    <3>3. \A i, j \in 1 .. Len(a) : i < j => <<a[i], a[j]>> \in R
      <4> SUFFICES ASSUME NEW i \in 1 .. Len(a), NEW j \in 1 .. Len(a), i < j
                   PROVE  <<a[i], a[j]>> \in R
        OBVIOUS
      <4>1. i \in 1 .. Len(b) /\ a[i] = b[i]
        BY <2>5, <3>1
      <4>2. CASE j \in 1 .. Len(b)
        <5>1. a[j] = b[j]
          BY <3>1, <4>2
        <5> QED BY <2>5, <4>1, <4>2, <5>1
      <4>3. CASE j = Len(b) + 1
        <5>1. PICK k \in 1 .. n : b[i] = q[k]
          BY <2>5, <4>1
        <5>2. k \in 1 .. Len(q) /\ k < n + 1
          BY <1>1, <2>2, <5>1
        <5>3. <<q[k], q[n + 1]>> \in R
          BY <1>1, <2>2, <5>2
        <5> QED BY <3>1, <4>1, <4>3, <5>1, <5>3
      <4>4. j \in 1 .. Len(b) \/ j = Len(b) + 1
        <5>1. Len(a) = Len(b) + 1 /\ Len(b) \in Nat
          BY <2>5, <3>1
        <5> QED BY <5>1
      <4> QED BY <4>2, <4>3, <4>4
    <3>4. /\ a \in Seq(S)
          /\ \A i \in 1 .. Len(a) : \E k \in 1 .. n + 1 : a[i] = q[k]
          /\ \A i, j \in 1 .. Len(a) : i < j => <<a[i], a[j]>> \in R
      BY <3>1, <3>2, <3>3
    <3> QED BY <3>4 DEF a
  <2> QED BY <2>6, <2>7
<1>6. Nat \subseteq P
  <2> HIDE DEF P
  <2> QED BY <1>4, <1>5, Induction
<1>7. Sorted(Len(q))
  <2>1. Len(q) \in P
    BY <1>1, <1>6
  <2>2. Len(q) <= Len(q)
    BY <1>1
  <2> QED BY <2>1, <2>2
<1> QED BY <1>3, <1>7

\* Two lists with the same members, each in the order of the same key, are the
\* same list.
LEMMA SameLine ==
  ASSUME NEW S, NEW key \in [S -> Int], NEW p \in Seq(S), NEW q \in Seq(S),
         \A i, j \in 1 .. Len(p) : i < j => key[p[j]] < key[p[i]],
         \A i, j \in 1 .. Len(q) : i < j => key[q[j]] < key[q[i]],
         \A x : x \in Members(p) <=> x \in Members(q)
  PROVE  p = q
<1>1. /\ Len(p) \in Nat /\ \A i \in 1 .. Len(p) : p[i] \in S
      /\ Len(q) \in Nat /\ \A i \in 1 .. Len(q) : q[i] \in S
  BY LenProperties, ElementOfSeq
<1>2. /\ \A i \in 1 .. Len(p) : \E j \in 1 .. Len(q) : q[j] = p[i]
      /\ \A j \in 1 .. Len(q) : \E i \in 1 .. Len(p) : p[i] = q[j]
  BY MembersPos
<1>3. \A x \in S : key[x] \in Int
  OBVIOUS
<1> DEFINE P == {n \in Nat : \A i \in 1 .. n : i \in 1 .. Len(p) /\ i \in 1 .. Len(q) => p[i] = q[i]}
<1>4. 0 \in P
  OBVIOUS
<1>5. ASSUME NEW n \in Nat, n \in P PROVE n + 1 \in P
  <2> SUFFICES ASSUME n + 1 \in 1 .. Len(p), n + 1 \in 1 .. Len(q)
               PROVE  p[n + 1] = q[n + 1]
    BY <1>5
  <2> DEFINE m == n + 1
  <2>0. m \in 1 .. Len(p) /\ m \in 1 .. Len(q) /\ \A i \in 1 .. m - 1 : p[i] = q[i]
    <3>1. \A i \in 1 .. n : i \in 1 .. Len(p) /\ i \in 1 .. Len(q) => p[i] = q[i]
      BY <1>5
    <3>2. m - 1 = n /\ \A i \in 1 .. n : i \in 1 .. Len(p) /\ i \in 1 .. Len(q)
      BY <1>1
    <3> QED BY <3>1, <3>2
  <2>1. PICK j \in 1 .. Len(q) : q[j] = p[m]
    BY <1>2, <2>0
  <2>2. PICK i \in 1 .. Len(p) : p[i] = q[m]
    BY <1>2, <2>0
  <2> HIDE DEF m
  <2>3. j >= m
    <3> SUFFICES ASSUME j < m PROVE FALSE
      BY <1>1, <2>0
    <3>1. j \in 1 .. m - 1 /\ p[j] = q[j] /\ j \in 1 .. Len(p)
      BY <1>1, <2>0
    <3>2. key[p[m]] < key[p[j]]
      BY <2>0, <3>1
    <3> QED BY <1>1, <1>3, <2>0, <2>1, <3>1, <3>2
  <2>4. i >= m
    <3> SUFFICES ASSUME i < m PROVE FALSE
      BY <1>1, <2>0
    <3>1. i \in 1 .. m - 1 /\ p[i] = q[i] /\ i \in 1 .. Len(q)
      BY <1>1, <2>0
    <3>2. key[q[m]] < key[q[i]]
      BY <2>0, <3>1
    <3> QED BY <1>1, <1>3, <2>0, <2>2, <3>1, <3>2
  <2>5. CASE j = m
    BY <2>1, <2>5 DEF m
  <2>6. CASE i = m
    BY <2>2, <2>6 DEF m
  <2>7. CASE j > m /\ i > m
    <3>1. key[q[j]] < key[q[m]] /\ key[p[i]] < key[p[m]]
      BY <2>0, <2>7, <1>1
    <3>2. key[p[m]] \in Int /\ key[q[m]] \in Int
      BY <1>1, <1>3, <2>0
    <3> QED BY <2>1, <2>2, <3>1, <3>2
  <2> QED BY <1>1, <2>0, <2>3, <2>4, <2>5, <2>6, <2>7
<1>6. Nat \subseteq P
  <2> HIDE DEF P
  <2> QED BY <1>4, <1>5, Induction
<1>7. \A i \in Nat : i \in 1 .. Len(p) /\ i \in 1 .. Len(q) => p[i] = q[i]
  <2> TAKE n \in Nat
  <2>1. n \in P
    BY <1>6
  <2> QED BY <2>1
<1>8. ~(Len(p) < Len(q))
  <2> SUFFICES ASSUME Len(p) < Len(q) PROVE FALSE
    OBVIOUS
  <2> DEFINE m == Len(p) + 1
  <2>1. m \in 1 .. Len(q)
    BY <1>1
  <2>2. PICK i \in 1 .. Len(p) : p[i] = q[m]
    BY <1>2, <2>1
  <2>3. i \in 1 .. Len(q) /\ i < m /\ i \in Nat
    BY <1>1
  <2>4. p[i] = q[i]
    BY <1>7, <2>3
  <2>5. key[q[m]] < key[q[i]]
    BY <2>1, <2>3
  <2>6. key[q[m]] \in Int
    BY <1>1, <1>3, <2>1
  <2> HIDE DEF m
  <2> QED BY <2>2, <2>4, <2>5, <2>6
<1>9. ~(Len(q) < Len(p))
  <2> SUFFICES ASSUME Len(q) < Len(p) PROVE FALSE
    OBVIOUS
  <2> DEFINE m == Len(q) + 1
  <2>1. m \in 1 .. Len(p)
    BY <1>1
  <2>2. PICK i \in 1 .. Len(q) : q[i] = p[m]
    BY <1>2, <2>1
  <2>3. i \in 1 .. Len(p) /\ i < m /\ i \in Nat
    BY <1>1
  <2>4. p[i] = q[i]
    BY <1>7, <2>3
  <2>5. key[p[m]] < key[p[i]]
    BY <2>1, <2>3
  <2>6. key[p[m]] \in Int
    BY <1>1, <1>3, <2>1
  <2> HIDE DEF m
  <2> QED BY <2>2, <2>4, <2>5, <2>6
<1>10. Len(p) = Len(q)
  BY <1>1, <1>8, <1>9
<1>11. \A i \in 1 .. Len(p) : p[i] = q[i]
  BY <1>1, <1>7, <1>10
<1> QED BY <1>10, <1>11, SeqEqual

\* A list that is put together from two has their elements in their places.
LEMMA PutTogether ==
  ASSUME NEW S, NEW s \in Seq(S), NEW front \in Seq(S), NEW rest \in Seq(S)
  PROVE  /\ Len(front) = 1 /\ Len(s) = Len(rest) + 1 /\ front[1] = s[1]
         /\ \A i \in 1 .. Len(rest) : rest[i] = s[i + 1]
         => front \o rest = s
<1>0. /\ front \o rest \in Seq(S) /\ Len(front \o rest) = Len(front) + Len(rest)
      /\ \A i \in 1 .. Len(front) + Len(rest) :
           (front \o rest)[i] = IF i <= Len(front) THEN front[i] ELSE rest[i - Len(front)]
  BY ConcatProperties
<1> SUFFICES ASSUME Len(front) = 1, Len(s) = Len(rest) + 1, front[1] = s[1],
                    \A i \in 1 .. Len(rest) : rest[i] = s[i + 1]
             PROVE  front \o rest = s
  OBVIOUS
<1>1. Len(s) \in Nat /\ Len(rest) \in Nat
  BY LenProperties
<1> DEFINE r == front \o rest
<1>2. r \in Seq(S) /\ Len(r) = Len(s)
      /\ \A i \in 1 .. Len(s) : r[i] = IF i <= 1 THEN front[i] ELSE rest[i - 1]
  <2> HIDE DEF r
  <2>2. Len(front) + Len(rest) = Len(s)
    BY <1>1
  <2> QED BY <1>0, <2>2 DEF r
<1> HIDE DEF r
<1>3. \A i \in 1 .. Len(s) : r[i] = s[i]
  <2> TAKE i \in 1 .. Len(s)
  <2>1. CASE i = 1
    BY <1>2, <2>1
  <2>2. CASE i # 1
    <3>1. i - 1 \in 1 .. Len(rest) /\ (i - 1) + 1 = i /\ ~(i <= 1)
      BY <1>1, <2>2
    <3> QED BY <1>2, <3>1
  <2> QED BY <2>1, <2>2
<1>4. r = s
  BY <1>2, <1>3, SeqEqual
<1> QED BY <1>4 DEF r

\* A list is its head and its tail.
LEMMA HeadFirst ==
  ASSUME NEW S, NEW s \in Seq(S), s # <<>>
  PROVE  <<Head(s)>> \o Tail(s) = s /\ Head(s) = s[1] /\ Head(s) \in S /\ Tail(s) \in Seq(S) /\ Len(s) \in Nat \ {0}
<1>1. Len(s) \in Nat \ {0} /\ s[1] \in S /\ Head(s) = s[1]
  BY LenProperties, ElementOfSeq
<1>2. Tail(s) \in Seq(S) /\ Len(Tail(s)) = Len(s) - 1 /\ \A i \in 1 .. Len(Tail(s)) : Tail(s)[i] = s[i + 1]
  BY HeadTailProperties
<1>3. Len(s) = Len(Tail(s)) + 1
  BY <1>1, <1>2
<1> DEFINE front == <<Head(s)>>
<1>4. front \in Seq(S) /\ Len(front) = 1 /\ front[1] = s[1]
  BY <1>1
<1> HIDE DEF front
<1>5. front \o Tail(s) = s
  BY <1>2, <1>3, <1>4, PutTogether
<1> QED BY <1>1, <1>2, <1>5 DEF front

Associates(a, b, c) == (a \o b) \o c = a \o (b \o c)

LEMMA Associative ==
  ASSUME NEW S, NEW a \in Seq(S), NEW b \in Seq(S), NEW c \in Seq(S)
  PROVE  Associates(a, b, c)
BY ConcatAssociative DEF Associates

\* The head of a list, moved over to the end of the one before it.
LEMMA MoveFront ==
  ASSUME NEW S, NEW p \in Seq(S), NEW d \in Seq(S)
  PROVE  d # <<>> => p \o <<Head(d)>> \o Tail(d) = p \o d
<1>0. ASSUME NEW h \in S, NEW r \in Seq(S)
      PROVE  \A x : <<h>> \o r = x => (p \o <<h>>) \o r = p \o x
  <2> DEFINE front == <<h>>
  <2>1. front \in Seq(S)
    OBVIOUS
  <2> HIDE DEF front
  <2>2. (p \o front) \o r = p \o (front \o r)
    BY <2>1, ConcatAssociative
  <2> QED BY <2>2 DEF front
<1>1. d # <<>> => <<Head(d)>> \o Tail(d) = d /\ Tail(d) \in Seq(S) /\ Head(d) \in S
  BY HeadFirst
<1> DEFINE hd == Head(d)
           tl == Tail(d)
<1>2. d # <<>> => hd \in S /\ tl \in Seq(S)
  BY <1>1
<1>3. d # <<>> => <<hd>> \o tl = d 
  BY <1>1
<1> HIDE DEF hd, tl
<1>4. d # <<>> => \A x : <<hd>> \o tl = x => (p \o <<hd>>) \o tl = p \o x
  BY <1>2, <1>0, Zenon
<1> QED BY <1>3, <1>4 DEF hd, tl

-----------------------------------------------------------------------------
(* Four lists behind each other, as an element moves on from the last to   *)
(* the first.                                                              *)

LEMMA FourLists ==
  ASSUME NEW S, NEW a \in Seq(S), NEW b \in Seq(S), NEW c \in Seq(S), NEW d \in Seq(S)
  PROVE  a \o b \in Seq(S) /\ a \o b \o c \in Seq(S) /\ a \o b \o c \o d \in Seq(S)
BY ConcatProperties

\* It comes to the end of the last.
ArrivesBehind(a, b, c, d, e) == a \o b \o c \o Append(d, e) = Append(a \o b \o c \o d, e)

LEMMA Arrived ==
  ASSUME NEW S, NEW a \in Seq(S), NEW b \in Seq(S), NEW c \in Seq(S), NEW d \in Seq(S), NEW e \in S
  PROVE  ArrivesBehind(a, b, c, d, e)
<1> DEFINE one == <<e>>
<1>0. one \in Seq(S)
  OBVIOUS
<1>2. ASSUME NEW s \in Seq(S) PROVE Append(s, e) = s \o one
  BY AppendIsConcat
<1> HIDE DEF one
<1> DEFINE p == a \o b \o c
           w == p \o d
<1>3. Append(d, e) = d \o one /\ p \in Seq(S) /\ w \in Seq(S)
  BY <1>2, FourLists
<1>4. Append(w, e) = w \o one
  BY <1>2, <1>3
<1> HIDE DEF p
<1>5. w \o one = p \o (d \o one)
  BY <1>0, <1>3, ConcatAssociative
<1> HIDE DEF w
<1>6. Append(w, e) = p \o Append(d, e)
  BY <1>3, <1>4, <1>5
<1> QED BY <1>6 DEF p, w, ArrivesBehind

\* The head of the last becomes the third.
ReadFrom(a, b, d) == d # <<>> => a \o b \o <<Head(d)>> \o Tail(d) = a \o b \o <<>> \o d

LEMMA IsRead ==
  ASSUME NEW S, NEW a \in Seq(S), NEW b \in Seq(S), NEW d \in Seq(S)
  PROVE  ReadFrom(a, b, d)
<1> DEFINE p == a \o b
<1>1. p \in Seq(S)
  BY ConcatProperties
<1> HIDE DEF p
<1>2. d # <<>> => p \o <<Head(d)>> \o Tail(d) = p \o d
  BY <1>1, MoveFront
<1>3. p \o <<>> = p
  BY <1>1, ConcatEmptySeq
<1>4. d # <<>> => p \o <<Head(d)>> \o Tail(d) = p \o <<>> \o d
  BY <1>2, <1>3
<1> QED BY <1>4 DEF p, ReadFrom

\* The third goes to the end of the first, with nothing in between.
HandedOn(a, d, e) == Append(a, e) \o <<>> \o <<>> \o d = a \o <<>> \o <<e>> \o d

LEMMA IsHanded ==
  ASSUME NEW S, NEW a \in Seq(S), NEW d \in Seq(S), NEW e \in S
  PROVE  HandedOn(a, d, e)
<1> DEFINE one == <<e>>
           w == Append(a, e)
<1>1. w = a \o one /\ w \in Seq(S)
  BY AppendIsConcat, AppendProperties
<1>2. a \o <<>> = a
  BY ConcatEmptySeq
<1> HIDE DEF one, w
<1>3. w \o <<>> = w
  BY <1>1, ConcatEmptySeq
<1>4. ((w \o <<>>) \o <<>>) \o d = ((a \o <<>>) \o one) \o d
  BY <1>1, <1>2, <1>3
<1> QED BY <1>4 DEF w, one, HandedOn

\* The third goes to the end of the second.
BufferedBehind(a, b, d, e) == a \o Append(b, e) \o <<>> \o d = a \o b \o <<e>> \o d

LEMMA IsBuffered ==
  ASSUME NEW S, NEW a \in Seq(S), NEW b \in Seq(S), NEW d \in Seq(S), NEW e \in S
  PROVE  BufferedBehind(a, b, d, e)
<1> DEFINE one == <<e>>
           z == Append(b, e)
<1>0. one \in Seq(S)
  OBVIOUS
<1>1. z = b \o one /\ z \in Seq(S)
  BY AppendIsConcat, AppendProperties
<1> HIDE DEF z, one
<1>2. a \o z \in Seq(S)
  BY <1>1, ConcatProperties
<1>3. (a \o z) \o <<>> = a \o z
  BY <1>2, ConcatEmptySeq
<1>4. a \o (b \o one) = (a \o b) \o one
  <2>1. (a \o b) \o one = a \o (b \o one)
    BY <1>0, ConcatAssociative
  <2> QED BY <2>1
<1>5. ((a \o z) \o <<>>) \o d = ((a \o b) \o one) \o d
  BY <1>1, <1>3, <1>4
<1> QED BY <1>5 DEF z, one, BufferedBehind

\* The head of the second goes to the end of the first.
TakenFrom(a, b, c, d) ==
  b # <<>> => Append(a, Head(b)) \o Tail(b) \o c \o d = a \o b \o c \o d

LEMMA IsTaken ==
  ASSUME NEW S, NEW a \in Seq(S), NEW b \in Seq(S), NEW c \in Seq(S), NEW d \in Seq(S)
  PROVE  TakenFrom(a, b, c, d)
<1> DEFINE w == Append(a, Head(b))
           front == <<Head(b)>>
           rest == Tail(b)
<1>1. b # <<>> => Head(b) \in S
  BY HeadFirst
<1>2. b # <<>> => w = a \o front
  BY <1>1, AppendIsConcat
<1>3. b # <<>> => (a \o front) \o rest = a \o b
  BY MoveFront
<1> HIDE DEF w, front, rest
<1>4. b # <<>> => ((w \o rest) \o c) \o d = ((a \o b) \o c) \o d
  BY <1>2, <1>3
<1> QED BY <1>4 DEF w, front, rest, TakenFrom

\* Behind a list of one element comes the rest.
LEMMA HeadOfFirst ==
  ASSUME NEW S, NEW p \in Seq(S), NEW d \in Seq(S), p # <<>>, p = <<Head(p)>>
  PROVE  p \o d # <<>> /\ Head(p \o d) = Head(p) /\ Tail(p \o d) = d /\ p \o d \in Seq(S)
<1> DEFINE w == p \o d
<1>1. Len(p) = 1 /\ Head(p) = p[1]
  BY HeadFirst
<1>2. /\ w \in Seq(S) /\ Len(w) = Len(p) + Len(d)
      /\ \A i \in 1 .. Len(p) + Len(d) : w[i] = IF i <= Len(p) THEN p[i] ELSE d[i - Len(p)]
  BY ConcatProperties
<1> HIDE DEF w
<1>3. Len(d) \in Nat /\ Len(w) = 1 + Len(d) /\ w # <<>>
  BY <1>1, <1>2, LenProperties
<1>4. w[1] = p[1]
  BY <1>1, <1>2, <1>3
<1>5. Head(w) = w[1]
  BY <1>2, <1>3, HeadFirst
<1> DEFINE t == Tail(w)
<1>6. t \in Seq(S) /\ Len(t) = Len(w) - 1 /\ \A i \in 1 .. Len(t) : t[i] = w[i + 1]
  BY <1>2, <1>3, HeadTailProperties
<1> HIDE DEF t
<1>7. Len(t) = Len(d)
  BY <1>3, <1>6
<1>8. \A i \in 1 .. Len(t) : t[i] = d[i]
  <2> TAKE i \in 1 .. Len(t)
  <2>1. i + 1 \in 1 .. Len(p) + Len(d) /\ ~(i + 1 <= Len(p)) /\ i + 1 - Len(p) = i
    BY <1>1, <1>3, <1>7
  <2> QED BY <1>2, <1>6, <2>1
<1>9. t = d
  BY <1>6, <1>7, <1>8, SeqEqual
<1> QED BY <1>1, <1>2, <1>3, <1>4, <1>5, <1>9 DEF w, t

Increasing(line) == \A i, j \in 1 .. Len(line) : i < j => line[i] < line[j]

LEMMA AppendIncreasing ==
  ASSUME NEW s \in Seq(Nat), NEW e \in Nat, Increasing(s), \A x \in Members(s) : x < e
  PROVE  /\ Append(s, e) \in Seq(Nat) /\ Increasing(Append(s, e))
         /\ \A x : x \in Members(Append(s, e)) <=> x \in Members(s) \/ x = e
<1> DEFINE r == Append(s, e)
<1>1. /\ r \in Seq(Nat) /\ Len(r) = Len(s) + 1 /\ Len(s) \in Nat
      /\ \A i \in 1 .. Len(s) : r[i] = s[i] /\ r[i] \in Members(s)
      /\ r[Len(s) + 1] = e
  BY AppendProperties, LenProperties, MembersPos
<1> HIDE DEF r
<1>2. \A i \in 1 .. Len(r) : i \in 1 .. Len(s) \/ i = Len(s) + 1
  BY <1>1
<1>3. Increasing(r)
  <2> SUFFICES ASSUME NEW i \in 1 .. Len(r), NEW j \in 1 .. Len(r), i < j PROVE r[i] < r[j]
    BY DEF Increasing
  <2>1. i \in 1 .. Len(s)
    BY <1>1
  <2>2. CASE j \in 1 .. Len(s)
    BY <1>1, <2>1, <2>2 DEF Increasing
  <2>3. CASE j = Len(s) + 1
    BY <1>1, <2>1, <2>3
  <2> QED BY <1>2, <2>2, <2>3
<1>4. ASSUME NEW x, x \in Members(r) PROVE x \in Members(s) \/ x = e
  <2>1. PICK i \in 1 .. Len(r) : r[i] = x
    BY <1>1, <1>4, MembersPos
  <2> QED BY <1>1, <1>2, <2>1
<1>5. ASSUME NEW x, x \in Members(s) \/ x = e PROVE x \in Members(r)
  <2>1. CASE x \in Members(s)
    <3>1. PICK i \in 1 .. Len(s) : s[i] = x
      BY <2>1, MembersPos
    <3>2. i \in 1 .. Len(r) /\ r[i] = x
      BY <1>1, <3>1
    <3> QED BY <1>1, <3>2, MembersPos
  <2>2. CASE x = e
    <3>1. Len(s) + 1 \in 1 .. Len(r)
      BY <1>1
    <3> QED BY <1>1, <2>2, <3>1, MembersPos
  <2> QED BY <1>5, <2>1, <2>2
<1> QED BY <1>1, <1>3, <1>4, <1>5 DEF r

\* Without one of its elements an increasing list is still one.
LEMMA CutOut ==
  ASSUME NEW p \in Seq(Nat), NEW d \in Seq(Nat), NEW e \in Nat, Increasing(p \o <<e>> \o d)
  PROVE  /\ Increasing(p \o d)
         /\ \A x : x \in Members(p \o d) <=> x \in Members(p \o <<e>> \o d) /\ x # e
<1> DEFINE f == p \o <<e>>
           u == f \o d
           v == p \o d
           k == Len(p)
           n == Len(d)
<1>0. k \in Nat /\ n \in Nat
  BY LenProperties
<1>1. f \in Seq(Nat) /\ Len(f) = k + 1 /\ (\A i \in 1 .. k : f[i] = p[i]) /\ f[k + 1] = e
  BY AppendProperties, AppendIsConcat
<1> HIDE DEF f
<1>2. /\ u \in Seq(Nat) /\ Len(u) = k + 1 + n
      /\ \A i \in 1 .. k + 1 + n : u[i] = IF i <= k + 1 THEN f[i] ELSE d[i - (k + 1)]
  <2>1. /\ u \in Seq(Nat) /\ Len(u) = Len(f) + Len(d)
        /\ \A i \in 1 .. Len(f) + Len(d) : u[i] = IF i <= Len(f) THEN f[i] ELSE d[i - Len(f)]
    BY <1>1, ConcatProperties
  <2> HIDE DEF u, k, n
  <2>2. Len(f) = k + 1 /\ Len(d) = n
    BY <1>1 DEF n
  <2> QED BY <2>1, <2>2
<1>3. /\ v \in Seq(Nat) /\ Len(v) = k + n
      /\ \A i \in 1 .. k + n : v[i] = IF i <= k THEN p[i] ELSE d[i - k]
  BY ConcatProperties
<1>4. Increasing(u)
  BY DEF f
<1> HIDE DEF u, v, k, n
<1>5. /\ \A i \in 1 .. k : u[i] = v[i]
      /\ \A i \in k + 1 .. k + n : u[i + 1] = v[i]
      /\ u[k + 1] = e
  <2>1. ASSUME NEW i \in 1 .. k PROVE u[i] = v[i]
    <3>1. i \in 1 .. k + 1 + n /\ i \in 1 .. k + n /\ i <= k + 1 /\ i <= k
      BY <1>0
    <3>2. u[i] = f[i] /\ v[i] = p[i]
      BY <1>2, <1>3, <3>1
    <3> QED BY <1>1, <3>2
  <2>2. u[k + 1] = e
    BY <1>0, <1>1, <1>2
  <2>3. ASSUME NEW i \in k + 1 .. k + n PROVE u[i + 1] = v[i]
    <3>1. i + 1 \in 1 .. k + 1 + n /\ ~(i + 1 <= k + 1) /\ i + 1 - (k + 1) = i - k /\ i \in 1 .. k + n /\ ~(i <= k)
      BY <1>0
    <3>2. \A x \in 1 .. k + 1 + n : ~(x <= k + 1) => u[x] = d[x - (k + 1)]
      BY <1>2
    <3>3. \A x \in 1 .. k + n : ~(x <= k) => v[x] = d[x - k]
      BY <1>3
    <3>4. u[i + 1] = d[i + 1 - (k + 1)]
      <4>1. \E x \in 1 .. k + 1 + n : x = i + 1 /\ ~(x <= k + 1) /\ x - (k + 1) = i + 1 - (k + 1)
        BY <1>0, <3>1
      <4>2. PICK x \in 1 .. k + 1 + n : x = i + 1 /\ ~(x <= k + 1) /\ x - (k + 1) = i + 1 - (k + 1)
        BY <4>1
      <4>3. u[x] = d[x - (k + 1)]
        BY <4>2, <3>2
      <4> QED BY <4>2, <4>3
    <3>5. v[i] = d[i - k]
      BY <3>1, <3>3
    <3> QED BY <3>1, <3>4, <3>5
  <2> QED BY <2>1, <2>2, <2>3
<1> DEFINE at(i) == IF i <= k THEN i ELSE i + 1
<1>6. \A i \in 1 .. Len(v) : at(i) \in 1 .. Len(u) /\ at(i) # k + 1 /\ u[at(i)] = v[i]
  <2> TAKE i \in 1 .. Len(v)
  <2>1. CASE i <= k
    BY <1>0, <1>2, <1>3, <1>5, <2>1
  <2>2. CASE ~(i <= k)
    <3>1. i \in k + 1 .. k + n
      BY <1>0, <1>3, <2>2
    <3> QED BY <1>0, <1>2, <1>3, <1>5, <2>2, <3>1
  <2> QED BY <2>1, <2>2
<1>7. \A i, j \in 1 .. Len(v) : i < j => at(i) < at(j)
  BY <1>0, <1>3
<1>8. Increasing(v)
  BY <1>4, <1>6, <1>7 DEF Increasing
<1>9. \A i \in 1 .. Len(u) : i # k + 1 => u[i] # e
  <2> SUFFICES ASSUME NEW i \in 1 .. Len(u), i # k + 1 PROVE u[i] # e
    OBVIOUS
  <2>1. k + 1 \in 1 .. Len(u) /\ (i < k + 1 \/ k + 1 < i)
    BY <1>0, <1>2
  <2>2. u[i] \in Nat
    BY <1>2, ElementOfSeq
  <2> QED BY <1>4, <1>5, <2>1, <2>2 DEF Increasing
<1>10. ASSUME NEW x, x \in Members(v) PROVE x \in Members(u) /\ x # e
  <2>1. PICK i \in 1 .. Len(v) : v[i] = x
    BY <1>3, <1>10, MembersPos
  <2>2. at(i) \in 1 .. Len(u) /\ u[at(i)] = x /\ at(i) # k + 1
    BY <1>6, <2>1
  <2> QED BY <1>2, <1>9, <2>2, MembersPos
<1>11. ASSUME NEW x, x \in Members(u), x # e PROVE x \in Members(v)
  <2>1. PICK i \in 1 .. Len(u) : u[i] = x
    BY <1>2, <1>11, MembersPos
  <2>2. i # k + 1
    BY <1>5, <1>11, <2>1
  <2>3. CASE i <= k
    <3>1. i \in 1 .. Len(v) /\ i \in 1 .. k
      BY <1>0, <1>2, <1>3, <2>3
    <3> QED BY <1>3, <1>5, <2>1, <3>1, MembersPos
  <2>4. CASE i > k + 1
    <3>1. i - 1 \in k + 1 .. k + n /\ i - 1 \in 1 .. Len(v) /\ i - 1 + 1 = i
      BY <1>0, <1>2, <1>3, <2>4
    <3>2. v[i - 1] = x
      BY <1>5, <2>1, <3>1
    <3> QED BY <1>3, <3>1, <3>2, MembersPos
  <2> QED BY <1>0, <1>2, <2>2, <2>3, <2>4
<1> QED BY <1>8, <1>10, <1>11 DEF u, v, f
=============================================================================
