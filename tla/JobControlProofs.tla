-------------------------- MODULE JobControlProofs --------------------------
(***************************************************************************)
(* Proofs about JobControl, for every number of trains, every length of    *)
(* the CAN server's queue, every set of batch tokens and every number of   *)
(* frames lost.                                                            *)
(*                                                                         *)
(* A step of the dispatcher is a chain of worlds: a call of the CAN server *)
(* only drops frames, failing their batches, and adds stops (Well), so it  *)
(* disturbs no slot but those it has just made sound; a change of a job    *)
(* must fit what is on its way (Fits); and where the chain ends all slots  *)
(* are sound again (Fine).  Jobs that fail one after the other are         *)
(* followed by induction on the slot, over a set, and the two cancels in   *)
(* the middle of a command by what is known from the look at the batch.    *)
(***************************************************************************)
EXTENDS JobInvariants, ListLemmas, FiniteSetTheorems

\* No control command is queued.
Quiet(w) == \A f \in Members(w.queue) : f.token # 0

\* From w to v frames are dropped and emergency stops added.
OnlyStops(w, v) ==
  /\ v.wire.frame = w.wire.frame /\ v.wire.obeyed = w.wire.obeyed
  /\ v.wire.wanted => w.wire.wanted
  /\ \A f \in Members(v.queue) :
       f \in Members(w.queue) \/ (f.speed = "stop" /\ f.token # 0)

\* Nothing that matters to slot s is different in v.
Undisturbed(w, v, s) ==
  /\ v.job[s] = w.job[s]
  /\ \A b \in Tokens : b = w.job[s].estop /\ ~BatchFailed(v, b) =>
       /\ ~BatchFailed(w, b)
       /\ \A f \in Members(w.queue) : f.token = b => f \in Members(v.queue)
       /\ w.wire.wanted /\ w.wire.frame.token = b => v.wire.wanted

\* A call of the CAN server, or what is made of calls of it: the line stays
\* sound, and so does every slot that is disturbed.
Well(w, v, m) ==
  /\ LineOK(v) /\ OnlyStops(w, v)
  /\ \A s \in Slots : Undisturbed(w, v, s) \/ SlotOK(v, m, s, FALSE)

\* Frames have been dropped, and the batches they belong to have failed.
Dropped(w, v) ==
  /\ v.job = w.job /\ v.got = w.got
  /\ v.queue \in Seq(Frames) /\ InjectiveSeq(v.queue)
  /\ \A f \in Members(v.queue) : f \in Members(w.queue)
  /\ v.wire \in WireType
  /\ v.wire.frame = w.wire.frame /\ v.wire.obeyed = w.wire.obeyed
  /\ v.wire.wanted => w.wire.wanted
  /\ v.batch \in [Tokens -> BatchType]
  /\ \A b \in Tokens :
       v.batch[b] = w.batch[b] \/ (v.batch[b].failed /\ v.batch[b].total = w.batch[b].total)
  /\ \A f \in Members(w.queue) :
       f \notin Members(v.queue) /\ f.token # 0 => v.batch[f.token].failed
  /\ w.wire.wanted /\ ~v.wire.wanted =>
       w.wire.frame.token # 0 /\ v.batch[w.wire.frame.token].failed
  /\ \A f \in Members(v.queue) :
       f.speed = "go" /\ f.token # 0 => v.batch[f.token] = w.batch[f.token]

\* Slots are numbered from 1 to N, and neither a slot nor a token is 0.
LEMMA SlotsAre ==
  /\ N \in Nat \ {0} /\ Slots = 1 .. N /\ IsFiniteSet(Slots) /\ 0 \notin Slots /\ 0 \notin Tokens
<1>1. N \in Nat
  BY JobAssumption, FS_CardinalityType DEF N
<1>2. N # 0
  BY JobAssumption, FS_EmptySet DEF N
<1> QED BY <1>1, <1>2, JobAssumption DEF N

\* What is queued are frames.
LEMMA MembersAreFrames ==
  ASSUME NEW q \in Seq(Frames)
  PROVE  \A f \in Members(q) : f \in Frames
<1>1. \A f : f \in Members(q) <=> \E i \in 1 .. Len(q) : q[i] = f
  BY MembersPos
<1>2. \A i \in 1 .. Len(q) : q[i] \in Frames
  BY ElementOfSeq
<1> QED BY <1>1, <1>2

\* The trains that a frame of batch b is under way to are finitely many.
LEMMA OutIsFinite ==
  ASSUME NEW w, NEW b
  PROVE  Out(w, b) \subseteq Slots /\ IsFiniteSet(Out(w, b)) /\ Cardinality(Out(w, b)) \in Nat
<1>1. Out(w, b) \subseteq Slots
  BY DEF Out
<1> QED BY <1>1, SlotsAre, FS_Subset, FS_CardinalityType

\* When a batch has been confirmed, none of its frames is under way.
LEMMA NoneOut ==
  ASSUME NEW w, LineOK(w), NEW b \in Tokens, ~w.batch[b].failed, w.batch[b].left = 0
  PROVE  \A s \in Slots : ~IsOut(w, b, s)
<1>1. Cardinality(Out(w, b)) <= 0
  BY DEF LineOK, Counted
<1>2. Cardinality(Out(w, b)) = 0
  BY <1>1, OutIsFinite
<1>3. Out(w, b) = {}
  BY <1>2, OutIsFinite, FS_EmptySet
<1> QED BY <1>3 DEF Out

\* A slot whose job and stop are as before stays sound.
LEMMA SlotKept ==
  ASSUME NEW w, NEW v, NEW m, NEW s \in Slots, NEW e \in BOOLEAN,
         LineType(w), OnlyStops(w, v), Undisturbed(w, v, s), SlotOK(w, m, s, e)
  PROVE  SlotOK(v, m, s, e)
<1>1. v.job[s] = w.job[s]
  BY DEF Undisturbed
<1>2. GoQueued(v, s) => GoQueued(w, s)
  BY DEF GoQueued, OnlyStops
<1>3. GoSent(v, s) <=> GoSent(w, s)
  BY DEF GoSent, OnlyStops
<1>4. StillOK(v, m, s, e)
  BY <1>1, <1>2, <1>3 DEF SlotOK, StillOK, Go
<1>5. StopOK(v, m, s)
  <2> SUFFICES ASSUME NEW b, b = v.job[s].estop, b # 0,
                      v.job[s].state = "braking" \/ (v.job[s].state = "failed" /\ v.job[s].retry),
                      ~BatchFailed(v, b)
               PROVE  StopOut(v, m, s, b)
    BY DEF StopOK, StopOut
  <2>1. b \in Tokens
    BY <1>1 DEF LineType, JobType
  <2>2. /\ ~BatchFailed(w, b)
        /\ \A f \in Members(w.queue) : f.token = b => f \in Members(v.queue)
        /\ w.wire.wanted /\ w.wire.frame.token = b => v.wire.wanted
    BY <1>1, <2>1 DEF Undisturbed
  <2>3. StopOut(w, m, s, b)
    BY <1>1 DEF SlotOK, StopOK
  <2> QED BY <1>2, <1>3, <2>2, <2>3 DEF StopOut, OnlyStops
<1>6. GoOK(v, s)
  BY <1>1 DEF SlotOK, GoOK, OnlyStops
<1>7. RemovingOK(v, s)
  BY <1>1 DEF SlotOK, RemovingOK
<1> QED BY <1>4, <1>5, <1>6, <1>7 DEF SlotOK

\* Calls of the CAN server that are well behaved can follow each other.
LEMMA StaysWell ==
  ASSUME NEW w, NEW v, NEW u, NEW m, LineType(v), Well(w, v, m), Well(v, u, m)
  PROVE  Well(w, u, m)
<1>1. OnlyStops(w, u)
  BY DEF Well, OnlyStops
<1>2. ASSUME NEW s \in Slots PROVE Undisturbed(w, u, s) \/ SlotOK(u, m, s, FALSE)
  <2>1. CASE Undisturbed(v, u, s) /\ Undisturbed(w, v, s)
    <3>1. u.job[s] = v.job[s] /\ v.job[s] = w.job[s]
      BY <2>1 DEF Undisturbed
    <3>2. ASSUME NEW b \in Tokens, b = w.job[s].estop, ~BatchFailed(u, b)
          PROVE  /\ ~BatchFailed(w, b)
                 /\ \A f \in Members(w.queue) : f.token = b => f \in Members(u.queue)
                 /\ w.wire.wanted /\ w.wire.frame.token = b => u.wire.wanted
      <4>1. /\ ~BatchFailed(v, b)
            /\ \A f \in Members(v.queue) : f.token = b => f \in Members(u.queue)
            /\ v.wire.wanted /\ v.wire.frame.token = b => u.wire.wanted
        BY <2>1, <3>1, <3>2 DEF Undisturbed
      <4>2. /\ ~BatchFailed(w, b)
            /\ \A f \in Members(w.queue) : f.token = b => f \in Members(v.queue)
            /\ w.wire.wanted /\ w.wire.frame.token = b => v.wire.wanted
        BY <2>1, <3>2, <4>1 DEF Undisturbed
      <4>3. v.wire.frame = w.wire.frame
        BY DEF Well, OnlyStops
      <4> QED BY <4>1, <4>2, <4>3
    <3> QED BY <3>1, <3>2 DEF Undisturbed
  <2>2. CASE Undisturbed(v, u, s) /\ SlotOK(v, m, s, FALSE)
    BY <2>2, SlotKept DEF Well
  <2>3. /\ Undisturbed(w, v, s) \/ SlotOK(v, m, s, FALSE)
        /\ Undisturbed(v, u, s) \/ SlotOK(u, m, s, FALSE)
    BY DEF Well
  <2> QED BY <2>1, <2>2, <2>3
<1> QED BY <1>1, <1>2 DEF Well

\* A world in which the slots are sound is followed by one.
LEMMA WellSlots ==
  ASSUME NEW w, NEW v, NEW m, NEW s \in Slots, NEW e \in BOOLEAN,
         LineType(w), Well(w, v, m), SlotOK(w, m, s, e)
  PROVE  SlotOK(v, m, s, e)
<1>1. CASE Undisturbed(w, v, s)
  BY <1>1, SlotKept DEF Well
<1>2. CASE SlotOK(v, m, s, FALSE)
  BY <1>2 DEF SlotOK, StillOK
<1> QED BY <1>1, <1>2 DEF Well

\* Dropping frames, with the batches they belong to failed, keeps the line
\* sound and disturbs no slot.
LEMMA DroppedLine ==
  ASSUME NEW w, NEW v, LineOK(w), Dropped(w, v)
  PROVE  /\ LineOK(v) /\ OnlyStops(w, v)
         /\ \A s \in Slots : Undisturbed(w, v, s)
<1>1. OnlyStops(w, v)
  BY DEF Dropped, OnlyStops
<1>2. LineType(v)
  BY DEF LineOK, LineType, Dropped
<1>3. OneEach(v)
  BY DEF LineOK, OneEach, Dropped
<1>4. Counted(v)
  <2> SUFFICES ASSUME NEW b \in Tokens, ~v.batch[b].failed
               PROVE  Cardinality(Out(v, b)) <= v.batch[b].left
    BY DEF Counted
  <2>1. v.batch[b] = w.batch[b]
    BY DEF Dropped
  <2>2. Out(v, b) \subseteq Out(w, b)
    BY DEF Out, IsOut, Dropped
  <2>3. Cardinality(Out(v, b)) <= Cardinality(Out(w, b))
    BY <2>2, OutIsFinite, FS_Subset
  <2>4. Cardinality(Out(w, b)) <= w.batch[b].left
    BY <2>1 DEF LineOK, Counted
  <2>5. w.batch[b].left \in Nat
    BY DEF LineOK, LineType, BatchType
  <2> QED BY <2>1, <2>3, <2>4, <2>5, OutIsFinite
<1>5. NoGoFailed(v)
  BY DEF LineOK, NoGoFailed, Dropped
<1>6. ASSUME NEW s \in Slots PROVE Undisturbed(w, v, s)
  <2>1. v.job[s] = w.job[s]
    BY DEF Dropped
  <2> SUFFICES ASSUME NEW b \in Tokens, ~BatchFailed(v, b)
               PROVE  /\ ~BatchFailed(w, b)
                      /\ \A f \in Members(w.queue) : f.token = b => f \in Members(v.queue)
                      /\ w.wire.wanted /\ w.wire.frame.token = b => v.wire.wanted
    BY <2>1 DEF Undisturbed
  <2>2. b # 0
    BY SlotsAre
  <2> QED BY <2>2 DEF BatchFailed, Dropped
<1> QED BY <1>1, <1>2, <1>3, <1>4, <1>5, <1>6 DEF LineOK

-----------------------------------------------------------------------------
(* The calls of the CAN server.                                            *)

WithFailedIs(w, T, v) ==
  /\ v.job = w.job /\ v.queue = w.queue /\ v.wire = w.wire /\ v.got = w.got
  /\ v.batch \in [Tokens -> BatchType]
  /\ \A b \in Tokens :
       IF b \in T /\ w.batch[b].left > 0 /\ ~w.batch[b].failed
       THEN v.batch[b].failed /\ v.batch[b].total = w.batch[b].total
            /\ v.batch[b].left = w.batch[b].left
       ELSE v.batch[b] = w.batch[b]

WorldType(w) ==
  /\ w = [job |-> w.job, queue |-> w.queue, wire |-> w.wire, batch |-> w.batch, got |-> w.got]

\* fail_batch: the batches of T that are pending have failed, nothing else
\* is different.
LEMMA FailedWorld ==
  ASSUME NEW w, WorldType(w), w.batch \in [Tokens -> BatchType], NEW T
  PROVE  WithFailedIs(w, T, WithFailed(w, T)) /\ WorldType(WithFailed(w, T))
<1> DEFINE v == WithFailed(w, T)
<1> DEFINE f == [b \in Tokens |-> IF b \in T /\ Pending(b, w.batch)
                                  THEN [w.batch[b] EXCEPT !.failed = TRUE] ELSE w.batch[b]]
<1>1. v = [w EXCEPT !.batch = f]
  BY DEF WithFailed
<1>2. f \in [Tokens -> BatchType]
  BY DEF BatchType
<1>3. \A b \in Tokens :
        IF b \in T /\ w.batch[b].left > 0 /\ ~w.batch[b].failed
        THEN f[b].failed /\ f[b].total = w.batch[b].total /\ f[b].left = w.batch[b].left
        ELSE f[b] = w.batch[b]
  BY DEF BatchType, Pending
<1> HIDE DEF f, v
<1>4. v = [job |-> w.job, queue |-> w.queue, wire |-> w.wire, batch |-> f, got |-> w.got]
  BY <1>1 DEF WorldType
<1>5. WithFailedIs(w, T, v) /\ WorldType(v)
  BY <1>2, <1>3, <1>4 DEF WithFailedIs, WorldType
<1> QED BY <1>5 DEF v

\* cancel_lower_priority_tx drops frames and fails their batches.
LEMMA WithoutLowerOK ==
  ASSUME NEW w, WorldType(w), LineOK(w), NEW r \in {1, 2}
  PROVE  /\ Dropped(w, WithoutLower(w, r)) /\ WorldType(WithoutLower(w, r))
         /\ \A f \in Members(WithoutLower(w, r).queue) : f.rank >= r
<1> DEFINE low == Low(w.queue, r)
           q == Without(w.queue, low)
           x == [w EXCEPT !.queue = q]
           T == {f.token : f \in low}
           v == WithoutLower(w, r)
<1>1. /\ w.queue \in Seq(Frames) /\ InjectiveSeq(w.queue) /\ w.wire \in WireType
      /\ w.batch \in [Tokens -> BatchType]
  BY DEF LineOK, LineType
<1>2. /\ q \in Seq(Frames) /\ InjectiveSeq(q)
      /\ \A f : f \in Members(q) <=> f \in Members(w.queue) /\ ~(f.rank < r)
  <2>1. \A f \in Members(w.queue) : f \in low <=> f.rank < r
    BY DEF Low
  <2> HIDE DEF low
  <2>2. /\ q \in Seq(Frames) /\ InjectiveSeq(q)
        /\ \A f : f \in Members(q) <=> f \in Members(w.queue) /\ f \notin low
    BY <1>1, WithoutLine
  <2> QED BY <2>1, <2>2
<1>3. v = WithFailed(x, T)
  BY DEF WithoutLower
<1>4. \A f \in Members(w.queue) : f \in Frames /\ FrameOK(f)
  BY <1>1, MembersAreFrames DEF LineOK, LineType
<1>5. \A f \in Members(w.queue) : f.rank < r => f.token \in T
  BY DEF Low
<1>6. \A b \in T : \E f \in Members(w.queue) : f.rank < r /\ f.token = b
  BY DEF Low
<1> HIDE DEF q, T, v, low
<1>7. x = [job |-> w.job, queue |-> q, wire |-> w.wire, batch |-> w.batch, got |-> w.got]
  BY DEF WorldType
<1>8. WorldType(x) /\ x.job = w.job /\ x.queue = q /\ x.wire = w.wire /\ x.batch = w.batch
      /\ x.got = w.got
  BY <1>7 DEF WorldType
<1> HIDE DEF x
<1>9. WithFailedIs(x, T, v) /\ WorldType(v)
  BY <1>1, <1>3, <1>8, FailedWorld
<1>10. ASSUME NEW f \in Members(w.queue), f.rank < r, f.token # 0
       PROVE  v.batch[f.token].failed
  <2>1. f.token \in Tokens /\ f.token \in T /\ f.train \in Slots
    BY <1>4, <1>5, <1>10 DEF Frames
  <2>2. CASE w.batch[f.token].failed
    BY <2>1, <2>2, <1>8, <1>9 DEF WithFailedIs
  <2>3. CASE ~w.batch[f.token].failed
    <3>1. IsOut(w, f.token, f.train)
      BY DEF IsOut
    <3>2. w.batch[f.token].left # 0
      BY <2>1, <2>3, <3>1, NoneOut
    <3>3. w.batch[f.token].left > 0
      BY <3>2, <2>1, <1>1 DEF BatchType
    <3> QED BY <2>1, <2>3, <3>3, <1>8, <1>9 DEF WithFailedIs
  <2> QED BY <2>2, <2>3
<1>11. ASSUME NEW f \in Members(v.queue), f.speed = "go", f.token # 0
       PROVE  v.batch[f.token] = w.batch[f.token]
  <2>1. f.rank = 0 /\ f \in Members(w.queue) /\ ~(f.rank < r)
    BY <1>2, <1>4, <1>8, <1>9, <1>11 DEF FrameOK, WithFailedIs
  <2> QED BY <2>1
<1>12. Dropped(w, v)
  <2>1. \A b \in Tokens :
          v.batch[b] = w.batch[b] \/ (v.batch[b].failed /\ v.batch[b].total = w.batch[b].total)
    BY <1>8, <1>9 DEF WithFailedIs
  <2>2. /\ v.job = w.job /\ v.got = w.got /\ v.queue = q /\ v.wire = w.wire
        /\ v.batch \in [Tokens -> BatchType]
    BY <1>8, <1>9 DEF WithFailedIs
  <2> QED BY <1>1, <1>2, <1>10, <1>11, <2>1, <2>2 DEF Dropped
<1>13. \A f \in Members(v.queue) : f.rank >= r
  <2>1. v.queue = q
    BY <1>8, <1>9 DEF WithFailedIs
  <2>2. ASSUME NEW f \in Members(q) PROVE f.rank >= r
    <3>1. f.rank \in 0 .. 2 /\ ~(f.rank < r)
      BY <1>2, <1>4 DEF Frames
    <3> QED BY <3>1
  <2> QED BY <2>1, <2>2
<1> QED BY <1>9, <1>12, <1>13 DEF v

\* CanCancelBatch drops the frames of b and fails it; no go of it is left.
LEMMA WithCancelledOK ==
  ASSUME NEW w, WorldType(w), LineOK(w), NEW b \in Tokens \cup {0}
  PROVE  /\ Dropped(w, WithCancelled(w, b)) /\ WorldType(WithCancelled(w, b))
         /\ b # 0 => \A f \in Members(WithCancelled(w, b).queue) : f.speed = "go" => f.token # b
<1> DEFINE v == WithCancelled(w, b)
<1>1. /\ w.queue \in Seq(Frames) /\ InjectiveSeq(w.queue) /\ w.wire \in WireType
      /\ w.batch \in [Tokens -> BatchType] /\ \A f \in Members(w.queue) : f \in Frames
  BY MembersAreFrames DEF LineOK, LineType
<1>2. CASE b = 0
  <2>1. v = w
    BY <1>2 DEF WithCancelled
  <2> QED BY <1>1, <1>2, <2>1 DEF Dropped
<1>3. CASE b # 0 /\ ~Pending(b, w.batch)
  <2>1. v = w
    BY <1>3 DEF WithCancelled
  <2>2. ASSUME NEW f \in Members(w.queue), f.speed = "go", f.token = b PROVE FALSE
    <3>1. ~w.batch[b].failed
      BY <1>3, <2>2 DEF LineOK, NoGoFailed
    <3>2. w.batch[b].left = 0
      BY <1>1, <1>3, <3>1 DEF Pending, BatchType
    <3>3. f.train \in Slots /\ IsOut(w, b, f.train)
      BY <1>1, <2>2 DEF IsOut, Frames
    <3> QED BY <1>3, <3>1, <3>2, <3>3, NoneOut
  <2> QED BY <1>1, <2>1, <2>2 DEF Dropped
<1>4. CASE b # 0 /\ Pending(b, w.batch)
  <2> DEFINE D == Of(w.queue, b)
             q == Without(w.queue, D)
             wr == IF w.wire.frame.token = b THEN [w.wire EXCEPT !.wanted = FALSE] ELSE w.wire
             x == [w EXCEPT !.queue = q, !.wire = wr]
  <2>1. /\ q \in Seq(Frames) /\ InjectiveSeq(q)
        /\ \A f : f \in Members(q) <=> f \in Members(w.queue) /\ f.token # b
    <3>1. \A f \in Members(w.queue) : f \in D <=> f.token = b
      BY DEF Of
    <3> HIDE DEF D
    <3>2. /\ q \in Seq(Frames) /\ InjectiveSeq(q)
          /\ \A f : f \in Members(q) <=> f \in Members(w.queue) /\ f \notin D
      BY <1>1, WithoutLine
    <3> QED BY <3>1, <3>2
  <2>2. v = WithFailed(x, {b})
    BY <1>4 DEF WithCancelled
  <2>3. /\ wr \in WireType /\ wr.frame = w.wire.frame /\ wr.obeyed = w.wire.obeyed
        /\ wr.wanted => w.wire.wanted
        /\ w.wire.wanted /\ ~wr.wanted => w.wire.frame.token = b
    BY <1>1 DEF WireType
  <2> HIDE DEF q, wr, D
  <2>4. x = [job |-> w.job, queue |-> q, wire |-> wr, batch |-> w.batch, got |-> w.got]
    <3> DEFINE y == [w EXCEPT !.queue = q]
    <3>1. y = [job |-> w.job, queue |-> q, wire |-> w.wire, batch |-> w.batch, got |-> w.got]
      BY DEF WorldType
    <3>2. x = [y EXCEPT !.wire = wr]
      OBVIOUS
    <3> HIDE DEF y, x
    <3> QED BY <3>1, <3>2
  <2>5. WorldType(x) /\ x.job = w.job /\ x.queue = q /\ x.wire = wr /\ x.batch = w.batch
        /\ x.got = w.got
    BY <2>4 DEF WorldType
  <2> HIDE DEF x, v
  <2>6. WithFailedIs(x, {b}, v) /\ WorldType(v)
    BY <1>1, <2>2, <2>5, FailedWorld
  <2>7. b \in Tokens /\ v.batch[b].failed
    BY <1>4, <2>5, <2>6 DEF WithFailedIs, Pending
  <2>8. /\ v.job = w.job /\ v.got = w.got /\ v.queue = q /\ v.wire = wr
        /\ v.batch \in [Tokens -> BatchType]
        /\ \A c \in Tokens :
             v.batch[c] = w.batch[c] \/ (v.batch[c].failed /\ v.batch[c].total = w.batch[c].total)
        /\ \A c \in Tokens : c # b => v.batch[c] = w.batch[c]
    BY <2>5, <2>6 DEF WithFailedIs
  <2>9. \A f \in Members(v.queue) : f \in Members(w.queue) /\ f.token # b
    BY <2>1, <2>8
  <2>10. \A f \in Members(v.queue) : f.token # b /\ (f.token # 0 => v.batch[f.token] = w.batch[f.token])
    BY <1>1, <2>9, <2>8 DEF Frames
  <2>11. Dropped(w, v)
    BY <1>1, <1>4, <2>1, <2>3, <2>7, <2>8, <2>10 DEF Dropped
  <2> QED BY <2>6, <2>10, <2>11 DEF v
<1> QED BY <1>2, <1>3, <1>4

\* The slots of S in ascending order, each once.
LEMMA InOrderOK ==
  ASSUME NEW S, S \subseteq Slots
  PROVE  /\ InOrder(S) \in Seq(Slots) /\ InjectiveSeq(InOrder(S))
         /\ \A s : s \in Members(InOrder(S)) <=> s \in S
<1> DEFINE q == [i \in Slots |-> i]
<1>1. q \in Seq(Slots) /\ InjectiveSeq(q) /\ \A s : s \in Members(q) <=> s \in Slots
  <2>1. q \in [1 .. N -> Slots] /\ N \in Nat /\ DOMAIN q = Slots
    BY SlotsAre
  <2>2. q \in Seq(Slots)
    BY <2>1
  <2> QED BY <2>1, <2>2 DEF InjectiveSeq, Members
<1> HIDE DEF q
<1>2. /\ Kept(q, S) \in Seq(Slots) /\ InjectiveSeq(Kept(q, S))
      /\ \A x : x \in Members(Kept(q, S)) <=> x \in Members(q) /\ x \in S
  BY <1>1, KeptLine
<1> QED BY <1>1, <1>2 DEF q, InOrder

\* tx_push_priority: the queue has the frames it had, and the new ones.
LEMMA PushedOK ==
  ASSUME NEW q \in Seq(Frames), NEW new \in Seq(Frames), NEW rank \in 0 .. 2,
         InjectiveSeq(q), InjectiveSeq(new), \A f \in Members(q) : f \notin Members(new)
  PROVE  /\ Pushed(q, new, rank) \in Seq(Frames) /\ InjectiveSeq(Pushed(q, new, rank))
         /\ \A f : f \in Members(Pushed(q, new, rank)) <=> f \in Members(q) \/ f \in Members(new)
<1> DEFINE low == Low(q, rank)
           front == Without(q, low)
           back == Kept(q, low)
           half == front \o new
<1>1. \A f : f \in low => f \in Members(q)
  BY DEF Low
<1> HIDE DEF low
<1>2. /\ front \in Seq(Frames) /\ InjectiveSeq(front)
      /\ \A f : f \in Members(front) <=> f \in Members(q) /\ f \notin low
  BY WithoutLine
<1>3. /\ back \in Seq(Frames) /\ InjectiveSeq(back)
      /\ \A f : f \in Members(back) <=> f \in Members(q) /\ f \in low
  BY KeptLine
<1> HIDE DEF front, back
<1>4. \A f \in Members(front) : f \notin Members(new)
  BY <1>2
<1>5. /\ half \in Seq(Frames) /\ InjectiveSeq(half)
      /\ \A f : f \in Members(half) <=> f \in Members(front) \/ f \in Members(new)
  BY <1>2, <1>4, JoinedLine
<1> HIDE DEF half
<1>6. \A f \in Members(half) : f \notin Members(back)
  BY <1>2, <1>3, <1>5
<1>7. /\ half \o back \in Seq(Frames) /\ InjectiveSeq(half \o back)
      /\ \A f : f \in Members(half \o back) <=> f \in Members(half) \/ f \in Members(back)
  BY <1>3, <1>5, <1>6, JoinedLine
<1>8. Pushed(q, new, rank) = half \o back
  BY DEF Pushed, half, front, back, low
<1> QED BY <1>1, <1>2, <1>3, <1>5, <1>7, <1>8

FrameTo(s, speed, b, rank) == [train |-> s, speed |-> speed, token |-> b, rank |-> rank]

FramesTo(S, speed, b, rank) ==
  [i \in DOMAIN InOrder(S) |-> FrameTo(InOrder(S)[i], speed, b, rank)]

AreFramesTo(new, S, speed, b, rank) ==
  \A f : f \in Members(new) <=> \E s \in S : f = FrameTo(s, speed, b, rank)

\* A batch has one frame to each train of S.
LEMMA FramesOK ==
  ASSUME NEW S, S \subseteq Slots, NEW b \in Tokens, NEW speed \in {"go", "stop"},
         NEW rank \in 0 .. 2
  PROVE  LET new == FramesTo(S, speed, b, rank)
         IN  /\ new \in Seq(Frames) /\ InjectiveSeq(new)
             /\ AreFramesTo(new, S, speed, b, rank)
<1> DEFINE o == InOrder(S)
           new == [i \in DOMAIN o |-> FrameTo(o[i], speed, b, rank)]
<1>1. o \in Seq(Slots) /\ InjectiveSeq(o) /\ \A s : s \in Members(o) <=> s \in S
  BY InOrderOK
<1> HIDE DEF o
<1>2. Len(o) \in Nat /\ DOMAIN o = 1 .. Len(o) /\ \A i \in 1 .. Len(o) : o[i] \in Slots
  BY <1>1, LenProperties, ElementOfSeq
<1>3. \A s \in Slots : FrameTo(s, speed, b, rank) \in Frames
  BY DEF Frames, FrameTo
<1>4. new \in [1 .. Len(o) -> Frames]
  BY <1>2, <1>3
<1>5. new \in Seq(Frames)
  BY <1>2, <1>4
<1>6. \A i \in DOMAIN o : new[i] = FrameTo(o[i], speed, b, rank) /\ new[i].train = o[i]
  BY DEF FrameTo
<1>7. DOMAIN new = DOMAIN o
  OBVIOUS
<1> HIDE DEF new
<1>8. InjectiveSeq(new)
  BY <1>1, <1>6, <1>7 DEF InjectiveSeq
<1>9. AreFramesTo(new, S, speed, b, rank)
  <2>1. \A s : s \in S <=> \E i \in DOMAIN o : o[i] = s
    BY <1>1 DEF Members
  <2> QED BY <1>6, <1>7, <2>1 DEF Members, AreFramesTo
<1> QED BY <1>5, <1>8, <1>9 DEF new, o, FramesTo

Batched(w, v, S, speed, rank) ==
  /\ v.job = w.job /\ v.wire = w.wire
  /\ v.got \in Tokens /\ v.got \notin InUse(w)
  /\ v.queue \in Seq(Frames) /\ InjectiveSeq(v.queue)
  /\ \A f : f \in Members(v.queue) <=>
       f \in Members(w.queue) \/ \E s \in S : f = FrameTo(s, speed, v.got, rank)
  /\ v.batch \in [Tokens -> BatchType]
  /\ \A b \in Tokens : b # v.got => v.batch[b] = w.batch[b]
  /\ v.batch[v.got].total = Cardinality(S) /\ v.batch[v.got].left = Cardinality(S)
  /\ ~v.batch[v.got].failed

\* A batch is queued as a whole under a token that nothing uses, or not at
\* all.
LEMMA WithBatchOK ==
  ASSUME NEW w, WorldType(w), LineType(w), NEW S, S \subseteq Slots,
         NEW speed \in {"go", "stop"}, NEW rank \in 0 .. 2
  PROVE  LET v == WithBatch(w, S, speed, rank)
         IN  /\ WorldType(v)
             /\ v = [w EXCEPT !.got = 0] \/ Batched(w, v, S, speed, rank)
<1> DEFINE v == WithBatch(w, S, speed, rank)
           b == Fresh(w)
           size == Cardinality(S)
           new == FramesTo(S, speed, b, rank)
           bs == [w.batch EXCEPT ![b] = [total |-> size, left |-> size, failed |-> FALSE]]
           q == Pushed(w.queue, new, rank)
<1>1. WorldType([w EXCEPT !.got = 0])
  BY DEF WorldType
<1>2. CASE v = [w EXCEPT !.got = 0]
  BY <1>1, <1>2
<1>3. CASE v # [w EXCEPT !.got = 0]
  <2>1. v = [w EXCEPT !.got = b, !.batch[b] = [total |-> size, left |-> size, failed |-> FALSE],
                      !.queue = q]
        /\ ~(Tokens \subseteq InUse(w))
    BY <1>3 DEF WithBatch, FrameTo, FramesTo
  <2>2. b \in Tokens /\ b \notin InUse(w)
    BY <2>1 DEF Fresh
  <2>3. w.queue \in Seq(Frames) /\ InjectiveSeq(w.queue) /\ w.batch \in [Tokens -> BatchType]
        /\ \A f \in Members(w.queue) : f \in Frames
    BY MembersAreFrames DEF LineType
  <2>4. size \in Nat
    BY SlotsAre, FS_Subset, FS_CardinalityType
  <2> HIDE DEF b, size
  <2>5. /\ new \in Seq(Frames) /\ InjectiveSeq(new)
        /\ \A f : f \in Members(new) <=> \E s \in S : f = FrameTo(s, speed, b, rank)
    <3>1. b \in Tokens
      BY <2>2
    <3>2. FramesTo(S, speed, b, rank) \in Seq(Frames)
      BY <3>1, FramesOK
    <3>3. InjectiveSeq(FramesTo(S, speed, b, rank))
      BY <3>1, FramesOK
    <3>4. AreFramesTo(FramesTo(S, speed, b, rank), S, speed, b, rank)
      BY <3>1, FramesOK
    <3> QED BY <3>2, <3>3, <3>4 DEF AreFramesTo
  <2>6. \A f \in Members(new) : f.token = b
    BY <2>5 DEF FrameTo
  <2>7. \A f \in Members(w.queue) : f.token # b
    BY <2>2 DEF InUse
  <2> HIDE DEF new
  <2>8. /\ q \in Seq(Frames) /\ InjectiveSeq(q)
        /\ \A f : f \in Members(q) <=> f \in Members(w.queue) \/ f \in Members(new)
    BY <2>3, <2>5, <2>6, <2>7, PushedOK
  <2>9. /\ bs \in [Tokens -> BatchType]
        /\ \A c \in Tokens : c # b => bs[c] = w.batch[c]
        /\ bs[b] = [total |-> size, left |-> size, failed |-> FALSE]
    BY <2>2, <2>3, <2>4 DEF BatchType
  <2>10. v = [[[w EXCEPT !.got = b] EXCEPT !.batch = bs] EXCEPT !.queue = q]
    <3>1. [w EXCEPT !.got = b].batch = w.batch
      BY DEF WorldType
    <3> QED BY <2>1, <3>1
  <2> HIDE DEF q, bs, v
  <2>11. v = [job |-> w.job, queue |-> q, wire |-> w.wire, batch |-> bs, got |-> b]
    <3> DEFINE x == [w EXCEPT !.got = b]
               y == [x EXCEPT !.batch = bs]
    <3>1. x = [job |-> w.job, queue |-> w.queue, wire |-> w.wire, batch |-> w.batch, got |-> b]
      BY DEF WorldType
    <3> HIDE DEF x
    <3>2. y = [job |-> w.job, queue |-> w.queue, wire |-> w.wire, batch |-> bs, got |-> b]
      BY <3>1
    <3>3. v = [y EXCEPT !.queue = q]
      BY <2>10 DEF x
    <3> HIDE DEF y
    <3> QED BY <3>2, <3>3
  <2>12. v.job = w.job /\ v.queue = q /\ v.wire = w.wire /\ v.batch = bs /\ v.got = b
    BY <2>11
  <2>13. WorldType(v)
    BY <2>11, <2>12 DEF WorldType
  <2>14. Batched(w, v, S, speed, rank)
    BY <2>2, <2>5, <2>8, <2>9, <2>12 DEF Batched, size
  <2> QED BY <2>13, <2>14 DEF v
<1> QED BY <1>2, <1>3

RankOf(speed) == IF speed = "stop" THEN 2 ELSE 0

\* Queueing a batch keeps the line sound and disturbs no slot.
LEMMA BatchedLine ==
  ASSUME NEW w, NEW v, LineOK(w), NEW S, S \subseteq Slots, NEW speed \in {"go", "stop"},
         Batched(w, v, S, speed, RankOf(speed))
  PROVE  /\ LineOK(v)
         /\ speed = "stop" => OnlyStops(w, v)
         /\ \A s \in Slots : Undisturbed(w, v, s)
<1> DEFINE b == v.got
<1>1. /\ b \in Tokens /\ b # 0 /\ b \notin InUse(w)
      /\ v.job = w.job /\ v.wire = w.wire
      /\ \A c \in Tokens : c # b => v.batch[c] = w.batch[c]
  BY SlotsAre DEF Batched
<1>2. /\ \A f \in Members(w.queue) : f.token # b
      /\ w.wire.frame.token # b
      /\ \A s \in Slots : w.job[s].estop # b /\ w.job[s].launch # b
  BY <1>1 DEF InUse
<1>3. \A f \in Members(v.queue) :
        \/ f \in Members(w.queue)
        \/ /\ f \notin Members(w.queue) /\ f.token = b /\ f.speed = speed
           /\ f.rank = RankOf(speed) /\ f.train \in S /\ FrameOK(f)
           /\ f = FrameTo(f.train, speed, b, RankOf(speed))
  <2> SUFFICES ASSUME NEW s \in S
               PROVE  LET f == FrameTo(s, speed, b, RankOf(speed))
                      IN  /\ f \notin Members(w.queue) /\ f.token = b /\ f.speed = speed
                          /\ f.rank = RankOf(speed) /\ f.train \in S /\ FrameOK(f)
                          /\ f = FrameTo(f.train, speed, b, RankOf(speed))
    BY DEF Batched
  <2> QED BY <1>1, <1>2 DEF FrameTo, FrameOK, RankOf
<1>4. LineType(v)
  <2>1. \A f \in Members(v.queue) : FrameOK(f)
    BY <1>3 DEF LineOK, LineType
  <2> QED BY <1>1, <2>1 DEF LineOK, LineType, Batched
<1>5. \A f \in Members(w.queue) : f \in Members(v.queue)
  BY DEF Batched
<1>6. \A f \in Members(v.queue) : f.token # b => f \in Members(w.queue)
  BY <1>3
<1>7. OneEach(v)
  <2>1. ASSUME NEW f \in Members(v.queue), NEW g \in Members(v.queue),
               f.token = g.token, f.train = g.train, f.token # 0
        PROVE  f = g
    <3>1. CASE f.token = b
      BY <3>1, <2>1, <1>2, <1>3
    <3>2. CASE f.token # b
      BY <3>2, <2>1, <1>6 DEF LineOK, OneEach
    <3> QED BY <3>1, <3>2
  <2>2. ASSUME NEW f \in Members(v.queue), v.wire.wanted, f.token # 0,
               v.wire.frame.token = f.token
        PROVE  v.wire.frame.train # f.train
    BY <2>2, <1>1, <1>2, <1>6 DEF LineOK, OneEach
  <2> QED BY <2>1, <2>2 DEF OneEach
<1>8. Counted(v)
  <2> SUFFICES ASSUME NEW c \in Tokens, ~v.batch[c].failed
               PROVE  Cardinality(Out(v, c)) <= v.batch[c].left
    BY DEF Counted
  <2>1. CASE c = b
    <3>1. Out(v, c) \subseteq S
      BY <2>1, <1>1, <1>2, <1>3 DEF Out, IsOut
    <3>2. IsFiniteSet(S) /\ Cardinality(S) \in Nat
      BY SlotsAre, FS_Subset, FS_CardinalityType
    <3>3. Cardinality(Out(v, c)) <= Cardinality(S)
      BY <3>1, <3>2, FS_Subset
    <3> QED BY <2>1, <3>3 DEF Batched
  <2>2. CASE c # b
    <3>1. Out(v, c) = Out(w, c)
      BY <2>2, <1>1, <1>5, <1>6 DEF Out, IsOut
    <3> QED BY <2>2, <3>1, <1>1 DEF LineOK, Counted
  <2> QED BY <2>1, <2>2
<1>9. NoGoFailed(v)
  <2> SUFFICES ASSUME NEW f \in Members(v.queue), f.speed = "go", f.token # 0
               PROVE  ~v.batch[f.token].failed
    BY DEF NoGoFailed
  <2>1. CASE f.token = b
    BY <2>1 DEF Batched
  <2>2. CASE f.token # b
    <3>1. f \in Members(w.queue) /\ f.token \in Tokens
      BY <2>2, <1>6, MembersAreFrames DEF LineOK, LineType, Frames
    <3> QED BY <3>1, <2>2, <1>1 DEF LineOK, NoGoFailed
  <2> QED BY <2>1, <2>2
<1>10. ASSUME speed = "stop" PROVE OnlyStops(w, v)
  BY <1>1, <1>3, <1>10 DEF OnlyStops
<1>11. ASSUME NEW s \in Slots PROVE Undisturbed(w, v, s)
  BY <1>1, <1>2, <1>5 DEF Undisturbed, BatchFailed
<1> QED BY <1>4, <1>7, <1>8, <1>9, <1>10, <1>11 DEF LineOK

\* What is on the line does not depend on the jobs.
LEMMA JobsOnly ==
  ASSUME NEW w, NEW v, LineOK(w), v.queue = w.queue, v.wire = w.wire, v.batch = w.batch,
         v.job \in [Slots -> JobType], v.got \in Tokens \cup {0}
  PROVE  /\ LineOK(v) /\ OnlyStops(w, v)
         /\ \A s \in Slots : v.job[s] = w.job[s] => Undisturbed(w, v, s)
<1>1. LineType(v)
  BY DEF LineOK, LineType
<1>2. \A b : Out(v, b) = Out(w, b)
  BY DEF Out, IsOut
<1>3. OneEach(v) /\ Counted(v) /\ NoGoFailed(v)
  BY <1>2 DEF LineOK, OneEach, Counted, NoGoFailed
<1>4. OnlyStops(w, v)
  BY DEF OnlyStops
<1>5. \A s \in Slots : v.job[s] = w.job[s] => Undisturbed(w, v, s)
  BY DEF Undisturbed, BatchFailed
<1> QED BY <1>1, <1>3, <1>4, <1>5 DEF LineOK

\* With changes one job.
LEMMA WithOK ==
  ASSUME NEW w, WorldType(w), w.job \in [Slots -> JobType], NEW s \in Slots, NEW j \in JobType
  PROVE  LET v == With(w, s, j)
         IN  /\ WorldType(v) /\ v.job \in [Slots -> JobType]
             /\ v.job[s] = j /\ \A t \in Slots : t # s => v.job[t] = w.job[t]
             /\ v.queue = w.queue /\ v.wire = w.wire /\ v.batch = w.batch /\ v.got = w.got
<1> DEFINE v == With(w, s, j)
           f == [w.job EXCEPT ![s] = j]
<1>1. v = [w EXCEPT !.job = f]
  BY DEF With
<1>2. f \in [Slots -> JobType] /\ f[s] = j /\ \A t \in Slots : t # s => f[t] = w.job[t]
  OBVIOUS
<1> HIDE DEF f, v
<1>3. v = [job |-> f, queue |-> w.queue, wire |-> w.wire, batch |-> w.batch, got |-> w.got]
  BY <1>1 DEF WorldType
<1>4. /\ WorldType(v)
      /\ v.job = f /\ v.queue = w.queue /\ v.wire = w.wire /\ v.batch = w.batch /\ v.got = w.got
  BY <1>3 DEF WorldType
<1>5. /\ WorldType(v) /\ v.job \in [Slots -> JobType]
      /\ v.job[s] = j /\ \A t \in Slots : t # s => v.job[t] = w.job[t]
      /\ v.queue = w.queue /\ v.wire = w.wire /\ v.batch = w.batch /\ v.got = w.got
  BY <1>2, <1>4
<1> QED BY <1>5 DEF v

\* Exchanging the jobs leaves the line alone.
LEMMA JobsOK ==
  ASSUME NEW w, WorldType(w), NEW f
  PROVE  LET v == [w EXCEPT !.job = f]
         IN  /\ WorldType(v) /\ v.job = f
             /\ v.queue = w.queue /\ v.wire = w.wire /\ v.batch = w.batch /\ v.got = w.got
<1> DEFINE v == [w EXCEPT !.job = f]
<1>1. v = [job |-> f, queue |-> w.queue, wire |-> w.wire, batch |-> w.batch, got |-> w.got]
  BY DEF WorldType
<1> HIDE DEF v
<1>2. /\ WorldType(v) /\ v.job = f
      /\ v.queue = w.queue /\ v.wire = w.wire /\ v.batch = w.batch /\ v.got = w.got
  BY <1>1 DEF WorldType
<1> QED BY <1>2 DEF v

\* Noting the token leaves the rest alone.
LEMMA GotOK ==
  ASSUME NEW w, WorldType(w), NEW g
  PROVE  LET v == [w EXCEPT !.got = g]
         IN  /\ WorldType(v) /\ v.got = g
             /\ v.queue = w.queue /\ v.wire = w.wire /\ v.batch = w.batch /\ v.job = w.job
<1> DEFINE v == [w EXCEPT !.got = g]
<1>1. v = [job |-> w.job, queue |-> w.queue, wire |-> w.wire, batch |-> w.batch, got |-> g]
  BY DEF WorldType
<1> HIDE DEF v
<1>2. /\ WorldType(v) /\ v.got = g
      /\ v.queue = w.queue /\ v.wire = w.wire /\ v.batch = w.batch /\ v.job = w.job
  BY <1>1 DEF WorldType
<1> QED BY <1>2 DEF v

\* Two calls that only drop frames or add stops make one that does.
LEMMA Chained ==
  ASSUME NEW w, NEW v, NEW u, OnlyStops(w, v), OnlyStops(v, u)
  PROVE  /\ OnlyStops(w, u)
         /\ \A s : Undisturbed(w, v, s) /\ Undisturbed(v, u, s) => Undisturbed(w, u, s)
<1>1. OnlyStops(w, u)
  BY DEF OnlyStops
<1>2. ASSUME NEW s, Undisturbed(w, v, s), Undisturbed(v, u, s)
      PROVE  Undisturbed(w, u, s)
  <2>1. u.job[s] = v.job[s] /\ v.job[s] = w.job[s]
    BY <1>2 DEF Undisturbed
  <2>2. ASSUME NEW b \in Tokens, b = w.job[s].estop, ~BatchFailed(u, b)
        PROVE  /\ ~BatchFailed(w, b)
               /\ \A f \in Members(w.queue) : f.token = b => f \in Members(u.queue)
               /\ w.wire.wanted /\ w.wire.frame.token = b => u.wire.wanted
    <3>1. /\ ~BatchFailed(v, b)
          /\ \A f \in Members(v.queue) : f.token = b => f \in Members(u.queue)
          /\ v.wire.wanted /\ v.wire.frame.token = b => u.wire.wanted
      BY <1>2, <2>1, <2>2 DEF Undisturbed
    <3>2. /\ ~BatchFailed(w, b)
          /\ \A f \in Members(w.queue) : f.token = b => f \in Members(v.queue)
          /\ w.wire.wanted /\ w.wire.frame.token = b => v.wire.wanted
      BY <1>2, <2>2, <3>1 DEF Undisturbed
    <3>3. v.wire.frame = w.wire.frame
      BY DEF OnlyStops
    <3> QED BY <3>1, <3>2, <3>3
  <2> QED BY <2>1, <2>2 DEF Undisturbed
<1> QED BY <1>1, <1>2

\* Emergency stops drop everything else that waits to be sent.
StopsOnly(w) == \A f \in Members(w.queue) : f.speed = "stop" /\ f.token # 0

Stopped(w, S) ==
  \A s \in S : \E f \in Members(w.queue) : f.train = s /\ f.token = w.got /\ f.speed = "stop"

\* CanTrainEmergencyStopBatch leaves only stops in the queue, one to each
\* train of S if it succeeds.
LEMMA WithStopsOK ==
  ASSUME NEW w, WorldType(w), LineOK(w), NEW S, S \subseteq Slots
  PROVE  LET v == WithStops(w, S)
         IN  /\ WorldType(v) /\ LineOK(v) /\ OnlyStops(w, v) /\ v.job = w.job
             /\ \A s \in Slots : Undisturbed(w, v, s)
             /\ StopsOnly(v)
             /\ v.got # 0 => Stopped(v, S)
<1> DEFINE w1 == WithoutLower(w, 2)
           v == WithBatch(w1, S, "stop", 2)
<1>1. /\ Dropped(w, w1) /\ WorldType(w1)
      /\ \A f \in Members(w1.queue) : f.rank >= 2
  BY WithoutLowerOK
<1>2. LineOK(w1) /\ OnlyStops(w, w1) /\ \A s \in Slots : Undisturbed(w, w1, s)
  BY <1>1, DroppedLine
<1>3. w1.job = w.job
  BY <1>1 DEF Dropped
<1> HIDE DEF w1
<1>4. StopsOnly(w1)
  <2>1. \A f \in Members(w1.queue) : f \in Frames /\ FrameOK(f)
    BY <1>2, MembersAreFrames DEF LineOK, LineType
  <2>2. ASSUME NEW f \in Members(w1.queue) PROVE f.speed = "stop" /\ f.token # 0
    <3>1. f.rank \in 0 .. 2 /\ f.rank >= 2 /\ f.speed \in {"go", "stop", "turn"}
      BY <1>1, <2>1 DEF Frames
    <3>2. f.rank = 2
      BY <3>1
    <3>3. f.rank # 0 /\ f.rank # 1
      BY <3>2
    <3> QED BY <2>1, <3>1, <3>3 DEF FrameOK
  <2> QED BY <2>2 DEF StopsOnly
<1>5. WorldType(v) /\ (v = [w1 EXCEPT !.got = 0] \/ Batched(w1, v, S, "stop", 2))
  BY <1>1, <1>2, WithBatchOK DEF LineOK
<1> HIDE DEF v
<1>6. CASE v = [w1 EXCEPT !.got = 0]
  <2>1. /\ v.got = 0 /\ v.queue = w1.queue /\ v.wire = w1.wire /\ v.batch = w1.batch
        /\ v.job = w1.job
    BY <1>1, <1>6, GotOK
  <2>2. v.job \in [Slots -> JobType]
    BY <1>2, <2>1 DEF LineOK, LineType
  <2>3. LineOK(v) /\ OnlyStops(w1, v) /\ \A s \in Slots : Undisturbed(w1, v, s)
    BY <1>2, <2>1, <2>2, JobsOnly
  <2>4. OnlyStops(w, v) /\ \A s \in Slots : Undisturbed(w, v, s)
    BY <1>2, <2>3, Chained
  <2>5. StopsOnly(v)
    BY <1>4, <2>1 DEF StopsOnly
  <2> QED BY <1>3, <1>5, <2>1, <2>3, <2>4, <2>5 DEF WithStops, v, w1
<1>7. CASE Batched(w1, v, S, "stop", 2)
  <2>1. LineOK(v) /\ OnlyStops(w1, v) /\ \A s \in Slots : Undisturbed(w1, v, s)
    BY <1>2, <1>7, BatchedLine DEF RankOf
  <2>2. OnlyStops(w, v) /\ \A s \in Slots : Undisturbed(w, v, s)
    BY <1>2, <2>1, Chained
  <2>3. v.job = w.job
    BY <1>3, <1>7 DEF Batched
  <2>4. v.got # 0
    BY <1>7, SlotsAre DEF Batched
  <2>5. StopsOnly(v) /\ Stopped(v, S)
    <3>1. \A f \in Members(v.queue) :
            f \in Members(w1.queue) \/ \E s \in S : f = FrameTo(s, "stop", v.got, 2)
      BY <1>7 DEF Batched
    <3>2. \A s \in S : FrameTo(s, "stop", v.got, 2) \in Members(v.queue)
      BY <1>7 DEF Batched
    <3>3. \A s : LET f == FrameTo(s, "stop", v.got, 2)
                 IN  f.speed = "stop" /\ f.token = v.got /\ f.train = s
      BY DEF FrameTo
    <3>4. StopsOnly(v)
      BY <1>4, <2>4, <3>1, <3>3 DEF StopsOnly
    <3>5. Stopped(v, S)
      BY <3>2, <3>3 DEF Stopped
    <3> QED BY <3>4, <3>5
  <2> QED BY <1>5, <2>1, <2>2, <2>3, <2>5 DEF WithStops, v, w1
<1> QED BY <1>5, <1>6, <1>7

\* A job that fails: a stop for its train is queued, or remembered.
LEMMA WithFailedJobOK ==
  ASSUME NEW w, WorldType(w), LineOK(w), NEW s \in Slots, NEW m
  PROVE  LET v == WithFailedJob(w, s)
         IN  /\ WorldType(v) /\ Well(w, v, m) /\ SlotOK(v, m, s, FALSE)
<1> DEFINE w1 == IF w.job[s].state = "launching" THEN WithCancelled(w, w.job[s].launch) ELSE w
           j1 == [w1.job[s] EXCEPT !.state = "failed", !.launch = 0,
                                   !.removing = FALSE, !.rewound = FALSE]
           w2 == With(w1, s, j1)
           w3 == WithStops(w2, {s})
           j3 == [w3.job[s] EXCEPT !.estop = w3.got, !.retry = TRUE]
           v == With(w3, s, j3)
<1>1. /\ WorldType(w1) /\ LineOK(w1) /\ OnlyStops(w, w1) /\ w1.job = w.job
      /\ \A t \in Slots : Undisturbed(w, w1, t)
  <2>1. CASE w.job[s].state = "launching"
    <3>1. w.job[s].launch \in Tokens \cup {0}
      BY DEF LineOK, LineType, JobType
    <3>2. Dropped(w, w1) /\ WorldType(w1)
      BY <2>1, <3>1, WithCancelledOK
    <3> HIDE DEF w1
    <3> QED BY <3>2, DroppedLine DEF Dropped
  <2>2. CASE w.job[s].state # "launching"
    <3>1. w1 = w
      BY <2>2
    <3> HIDE DEF w1
    <3>2. /\ w.job \in [Slots -> JobType] /\ w.got \in Tokens \cup {0}
      BY DEF LineOK, LineType
    <3> QED BY <3>1, <3>2, JobsOnly
  <2> QED BY <2>1, <2>2
<1> HIDE DEF w1
<1>2. /\ w1.job \in [Slots -> JobType] /\ w1.job[s] \in JobType /\ w1.got \in Tokens \cup {0}
  BY <1>1 DEF LineOK, LineType
<1>3. j1 \in JobType /\ j1.state = "failed" /\ ~j1.removing
  BY <1>2 DEF JobType, StateNames
<1> HIDE DEF j1
<1>4. /\ WorldType(w2) /\ w2.job \in [Slots -> JobType]
      /\ w2.job[s] = j1 /\ \A t \in Slots : t # s => w2.job[t] = w1.job[t]
      /\ w2.queue = w1.queue /\ w2.wire = w1.wire /\ w2.batch = w1.batch /\ w2.got = w1.got
  BY <1>1, <1>2, <1>3, WithOK
<1> HIDE DEF w2
<1>5. /\ LineOK(w2) /\ OnlyStops(w1, w2)
      /\ \A t \in Slots : t # s => Undisturbed(w1, w2, t)
  BY <1>1, <1>2, <1>4, JobsOnly
<1>6. /\ WorldType(w3) /\ LineOK(w3) /\ OnlyStops(w2, w3) /\ w3.job = w2.job
      /\ \A t \in Slots : Undisturbed(w2, w3, t)
      /\ StopsOnly(w3)
      /\ w3.got # 0 => Stopped(w3, {s})
  BY <1>4, <1>5, WithStopsOK
<1> HIDE DEF w3
<1>7. /\ w3.job \in [Slots -> JobType] /\ w3.job[s] = j1 /\ w3.got \in Tokens \cup {0}
  BY <1>4, <1>6 DEF LineOK, LineType
<1>8. /\ j3 \in JobType /\ j3.state = "failed" /\ ~j3.removing /\ j3.estop = w3.got /\ j3.retry
  BY <1>3, <1>7 DEF JobType, StateNames
<1> HIDE DEF j3
<1>9. /\ WorldType(v) /\ v.job \in [Slots -> JobType]
      /\ v.job[s] = j3 /\ \A t \in Slots : t # s => v.job[t] = w3.job[t]
      /\ v.queue = w3.queue /\ v.wire = w3.wire /\ v.batch = w3.batch /\ v.got = w3.got
  BY <1>6, <1>7, <1>8, WithOK
<1>10. v = WithFailedJob(w, s)
  BY DEF WithFailedJob, v, w3, w2, w1, j1, j3
<1> HIDE DEF v
<1>11. /\ LineOK(v) /\ OnlyStops(w3, v)
       /\ \A t \in Slots : t # s => Undisturbed(w3, v, t)
  BY <1>6, <1>7, <1>9, JobsOnly
<1>12. OnlyStops(w, w2) /\ \A t \in Slots : t # s => Undisturbed(w, w2, t)
  BY <1>1, <1>5, Chained
<1>13. OnlyStops(w, w3) /\ \A t \in Slots : t # s => Undisturbed(w, w3, t)
  BY <1>6, <1>12, Chained
<1>14. OnlyStops(w, v) /\ \A t \in Slots : t # s => Undisturbed(w, v, t)
  BY <1>11, <1>13, Chained
<1>15. SlotOK(v, m, s, FALSE)
  <2>1. StopsOnly(v) /\ (v.got # 0 => Stopped(v, {s}))
    BY <1>6, <1>9 DEF StopsOnly, Stopped
  <2>2. v.job[s].state = "failed" /\ ~v.job[s].removing /\ v.job[s].estop = v.got
        /\ v.job[s].retry
    BY <1>8, <1>9
  <2>3. ~GoQueued(v, s)
    BY <2>1 DEF StopsOnly, GoQueued
  <2>4. StillOK(v, m, s, FALSE)
    BY <2>2 DEF StillOK, Still
  <2>5. StopOK(v, m, s)
    BY <2>1, <2>2, <2>3 DEF StopOK, StopOut, Stopped
  <2>6. GoOK(v, s)
    BY <2>1 DEF GoOK, StopsOnly
  <2>7. RemovingOK(v, s)
    BY <2>2 DEF RemovingOK
  <2> QED BY <2>4, <2>5, <2>6, <2>7 DEF SlotOK
<1>16. Well(w, v, m)
  BY <1>11, <1>14, <1>15 DEF Well
<1> QED BY <1>9, <1>10, <1>15, <1>16

-----------------------------------------------------------------------------
(* Jobs and waves that fail.                                               *)

FailsInTurn(g, w, S, n) ==
  g = [s \in 0 .. n |-> IF s = 0 THEN w
                        ELSE IF s \in S THEN WithFailedJob(g[s - 1], s) ELSE g[s - 1]]

\* Jobs can be failed one after the other, as far as slot n.
LEMMA FailsInTurnExists ==
  ASSUME NEW w, NEW S
  PROVE  \A n \in Nat : \E g : FailsInTurn(g, w, S, n)
<1> DEFINE P == {n \in Nat : \E g : FailsInTurn(g, w, S, n)}
<1>1. 0 \in P
  <2> DEFINE g == [s \in 0 .. 0 |-> w]
  <2>1. FailsInTurn(g, w, S, 0)
    BY DEF FailsInTurn
  <2> QED BY <2>1
<1>2. ASSUME NEW n \in Nat, n \in P PROVE n + 1 \in P
  <2>1. PICK g : FailsInTurn(g, w, S, n)
    BY <1>2
  <2> DEFINE h == [s \in 0 .. n + 1 |->
                     IF s <= n THEN g[s]
                     ELSE IF s \in S THEN WithFailedJob(g[n], s) ELSE g[n]]
  <2>2. ASSUME NEW s \in 0 .. n + 1
        PROVE  h[s] = IF s = 0 THEN w
                      ELSE IF s \in S THEN WithFailedJob(h[s - 1], s) ELSE h[s - 1]
    <3>1. CASE s = 0
      BY <3>1, <2>1 DEF FailsInTurn
    <3>2. CASE s # 0 /\ s <= n
      <4>1. s \in 0 .. n /\ s - 1 \in 0 .. n /\ s - 1 \in 0 .. n + 1 /\ s - 1 <= n
        BY <3>2
      <4>2. h[s] = g[s] /\ h[s - 1] = g[s - 1]
        BY <3>2, <4>1
      <4>3. g[s] = IF s \in S THEN WithFailedJob(g[s - 1], s) ELSE g[s - 1]
        BY <3>2, <4>1, <2>1 DEF FailsInTurn
      <4> QED BY <3>2, <4>2, <4>3
    <3>3. CASE s = n + 1
      <4>1. h[s - 1] = g[n] /\ s # 0
        BY <3>3
      <4> QED BY <3>3, <4>1
    <3> QED BY <3>1, <3>2, <3>3
  <2>3. FailsInTurn(h, w, S, n + 1)
    <3>1. h = [s \in 0 .. n + 1 |-> h[s]]
      OBVIOUS
    <3> HIDE DEF h
    <3> QED BY <3>1, <2>2 DEF FailsInTurn
  <2> QED BY <2>3
<1>3. Nat \subseteq P
  <2> HIDE DEF P
  <2> QED BY <1>1, <1>2, Induction
<1> QED BY <1>3

\* Doing nothing is well behaved.
LEMMA UnchangedIsWell ==
  ASSUME NEW w, NEW m, LineOK(w)
  PROVE  Well(w, w, m)
BY DEF Well, OnlyStops, Undisturbed

FailedUpTo(v, w, S, m, n) ==
  /\ WorldType(v) /\ Well(w, v, m)
  /\ \A s \in S : s <= n => SlotOK(v, m, s, FALSE)

\* Jobs that have failed one after the other are sound, and the others are
\* not disturbed.
LEMMA WithFailedJobsOK ==
  ASSUME NEW w, WorldType(w), LineOK(w), NEW S, S \subseteq Slots, NEW m
  PROVE  LET v == WithFailedJobs(w, S)
         IN  /\ WorldType(v) /\ Well(w, v, m)
             /\ \A s \in S : SlotOK(v, m, s, FALSE)
<1> DEFINE g == CHOOSE h : FailsInTurn(h, w, S, N)
<1>1. FailsInTurn(g, w, S, N)
  BY SlotsAre, FailsInTurnExists
<1>2. WithFailedJobs(w, S) = g[N]
  BY DEF WithFailedJobs, FailsInTurn
<1> HIDE DEF g
<1> DEFINE P == {n \in Nat : n <= N => FailedUpTo(g[n], w, S, m, n)}
<1>3. 0 \in P
  <2>1. g[0] = w
    BY <1>1, SlotsAre DEF FailsInTurn
  <2>2. \A s \in S : ~(s <= 0)
    BY SlotsAre
  <2>3. Well(w, g[0], m)
    BY <2>1, UnchangedIsWell
  <2> QED BY <2>1, <2>2, <2>3 DEF FailedUpTo
<1>4. ASSUME NEW n \in Nat, n \in P PROVE n + 1 \in P
  <2> SUFFICES ASSUME n + 1 <= N PROVE FailedUpTo(g[n + 1], w, S, m, n + 1)
    OBVIOUS
  <2>1. FailedUpTo(g[n], w, S, m, n)
    BY <1>4, SlotsAre
  <2>2. n + 1 \in Slots /\ n + 1 \in 0 .. N /\ n + 1 # 0 /\ (n + 1) - 1 = n
    BY SlotsAre
  <2>3. g[n + 1] = IF n + 1 \in S THEN WithFailedJob(g[n], n + 1) ELSE g[n]
    BY <1>1, <2>2 DEF FailsInTurn
  <2>4. \A s \in S : s <= n + 1 => s <= n \/ s = n + 1
    BY SlotsAre
  <2>5. CASE n + 1 \notin S
    BY <2>1, <2>3, <2>4, <2>5 DEF FailedUpTo
  <2>6. CASE n + 1 \in S
    <3> DEFINE x == g[n]
               y == g[n + 1]
               i == n + 1
    <3>1. y = WithFailedJob(x, i) /\ i \in Slots
      BY <2>2, <2>3, <2>6
    <3>2. WorldType(x) /\ Well(w, x, m) /\ \A s \in S : s <= n => SlotOK(x, m, s, FALSE)
      BY <2>1 DEF FailedUpTo
    <3> HIDE DEF x, y, i
    <3>3. LineOK(x) /\ LineType(x)
      BY <3>2 DEF Well, LineOK
    <3>4. WorldType(y) /\ Well(x, y, m) /\ SlotOK(y, m, i, FALSE)
      BY <3>1, <3>2, <3>3, WithFailedJobOK
    <3>5. Well(w, y, m)
      BY <3>2, <3>3, <3>4, StaysWell
    <3>6. ASSUME NEW s \in S, s <= n PROVE SlotOK(y, m, s, FALSE)
      <4>1. s \in Slots /\ SlotOK(x, m, s, FALSE)
        BY <3>2, <3>6
      <4> QED BY <3>3, <3>4, <4>1, WellSlots
    <3>7. \A s \in S : s <= n + 1 => SlotOK(y, m, s, FALSE)
      BY <2>4, <3>4, <3>6 DEF i
    <3> QED BY <3>4, <3>5, <3>7 DEF y, FailedUpTo
  <2> QED BY <2>5, <2>6
<1>5. Nat \subseteq P
  <2> HIDE DEF P
  <2> QED BY <1>3, <1>4, Induction
<1>6. FailedUpTo(g[N], w, S, m, N)
  <2>1. N \in P /\ N <= N
    BY <1>5, SlotsAre
  <2> QED BY <2>1
<1>7. \A s \in S : s <= N
  BY SlotsAre
<1> QED BY <1>2, <1>6, <1>7 DEF FailedUpTo

\* What follows a change of the jobs of S may start from the jobs before it,
\* if those of S end sound.
LEMMA ChangedJobs ==
  ASSUME NEW w, NEW v, NEW u, NEW S, NEW m, LineOK(w),
         v.queue = w.queue, v.wire = w.wire, v.batch = w.batch,
         v.job \in [Slots -> JobType], v.got \in Tokens \cup {0},
         \A s \in Slots \ S : v.job[s] = w.job[s],
         Well(v, u, m), \A s \in S : SlotOK(u, m, s, FALSE)
  PROVE  Well(w, u, m)
<1>1. OnlyStops(w, v) /\ \A s \in Slots \ S : Undisturbed(w, v, s)
  BY JobsOnly
<1>2. OnlyStops(v, u) /\ LineOK(u) /\ \A s \in Slots : Undisturbed(v, u, s) \/ SlotOK(u, m, s, FALSE)
  BY DEF Well
<1>3. OnlyStops(w, u) /\ \A s : Undisturbed(w, v, s) /\ Undisturbed(v, u, s) => Undisturbed(w, u, s)
  BY <1>1, <1>2, Chained
<1>4. \A s \in Slots : Undisturbed(w, u, s) \/ SlotOK(u, m, s, FALSE)
  BY <1>1, <1>2, <1>3
<1> QED BY <1>2, <1>3, <1>4 DEF Well

NoGoOf(w, b) == \A f \in Members(w.queue) : f.speed = "go" => f.token # b

\* fail_launch_wave is well behaved and leaves no go of its batch.
LEMMA WithFailedWaveOK ==
  ASSUME NEW w, WorldType(w), LineOK(w), NEW b \in Tokens \cup {0}, NEW m
  PROVE  LET v == WithFailedWave(w, b)
         IN  /\ WorldType(v) /\ Well(w, v, m)
             /\ b # 0 => NoGoOf(v, b)
<1>1. CASE b = 0
  <2>1. WithFailedWave(w, b) = w
    BY <1>1 DEF WithFailedWave
  <2> QED BY <1>1, <2>1, UnchangedIsWell
<1>2. CASE b # 0
  <2> DEFINE w1 == WithCancelled(w, b)
             S == WaveOf(w1, b)
             f == [s \in Slots |-> IF s \in S THEN [w1.job[s] EXCEPT !.launch = 0] ELSE w1.job[s]]
             w2 == [w1 EXCEPT !.job = f]
             v == WithFailedJobs(w2, S)
  <2>1. Dropped(w, w1) /\ WorldType(w1) /\ NoGoOf(w1, b)
    BY <1>2, WithCancelledOK DEF NoGoOf
  <2>2. LineOK(w1) /\ OnlyStops(w, w1) /\ \A s \in Slots : Undisturbed(w, w1, s)
    BY <2>1, DroppedLine
  <2>3. Well(w, w1, m)
    BY <2>2 DEF Well
  <2>4. S \subseteq Slots
    BY DEF WaveOf
  <2> HIDE DEF w1, S
  <2>5. w1.job \in [Slots -> JobType] /\ w1.got \in Tokens \cup {0}
    BY <2>2 DEF LineOK, LineType
  <2>6. f \in [Slots -> JobType] /\ \A s \in Slots \ S : f[s] = w1.job[s]
    <3>1. \A s \in Slots : [w1.job[s] EXCEPT !.launch = 0] \in JobType
      BY <2>5 DEF JobType
    <3> QED BY <2>5, <3>1
  <2>7. v = WithFailedWave(w, b)
    BY <1>2 DEF WithFailedWave, OffWave, w1, S
  <2> HIDE DEF f
  <2>8. /\ WorldType(w2) /\ w2.job = f
        /\ w2.queue = w1.queue /\ w2.wire = w1.wire /\ w2.batch = w1.batch /\ w2.got = w1.got
    BY <2>1, JobsOK
  <2> HIDE DEF w2
  <2>9. LineOK(w2)
    BY <2>2, <2>5, <2>6, <2>8, JobsOnly
  <2>10. WorldType(v) /\ Well(w2, v, m) /\ \A s \in S : SlotOK(v, m, s, FALSE)
    BY <2>4, <2>8, <2>9, WithFailedJobsOK
  <2> HIDE DEF v
  <2>11. Well(w1, v, m)
    BY <2>2, <2>5, <2>6, <2>8, <2>10, ChangedJobs
  <2>12. Well(w, v, m)
    BY <2>2, <2>3, <2>11, StaysWell DEF LineOK
  <2>13. NoGoOf(v, b)
    BY <2>1, <2>11 DEF Well, OnlyStops, NoGoOf
  <2> QED BY <2>7, <2>10, <2>12, <2>13
<1> QED BY <1>1, <1>2

\* Trains whose stop has just been queued begin to brake.
LEMMA BrakedOK ==
  ASSUME NEW w, NEW v, NEW S, NEW m, LineOK(w), StopsOnly(w), Stopped(w, S), w.got # 0,
         v.queue = w.queue, v.wire = w.wire, v.batch = w.batch, v.got = w.got,
         v.job \in [Slots -> JobType],
         \A s \in Slots \ S : v.job[s] = w.job[s],
         \A s \in S : v.job[s].state = "braking" /\ v.job[s].estop = w.got /\ ~v.job[s].removing
  PROVE  Well(w, v, m)
<1>1. w.got \in Tokens \cup {0}
  BY DEF LineOK, LineType
<1>2. LineOK(v) /\ OnlyStops(w, v) /\ \A s \in Slots \ S : Undisturbed(w, v, s)
  BY <1>1, JobsOnly
<1>3. ASSUME NEW s \in S PROVE SlotOK(v, m, s, FALSE)
  <2>1. ~GoQueued(v, s)
    BY DEF StopsOnly, GoQueued
  <2>2. StillOK(v, m, s, FALSE)
    BY DEF StillOK, Still
  <2>3. StopOK(v, m, s)
    BY <2>1 DEF StopOK, StopOut, Stopped
  <2>4. GoOK(v, s)
    BY DEF GoOK, StopsOnly
  <2>5. RemovingOK(v, s)
    BY DEF RemovingOK
  <2> QED BY <2>2, <2>3, <2>4, <2>5 DEF SlotOK
<1> QED BY <1>2, <1>3 DEF Well

-----------------------------------------------------------------------------
(* Trains that brake, and control commands.                                *)

\* The jobs of S brake for the stop b, and that is all that is different in v.
Brake(w, v, S, b) ==
  /\ v.job \in [Slots -> JobType]
  /\ v.queue = w.queue /\ v.wire = w.wire /\ v.batch = w.batch /\ v.got = w.got
  /\ \A s \in Slots \ S : v.job[s] = w.job[s]
  /\ \A s \in S : /\ v.job[s].state = "braking" /\ v.job[s].estop = b
                  /\ v.job[s].removing = w.job[s].removing

Purposes == {"destination", "reversal", "traffic"}

\* begin_stop_with_queued_zero sets the jobs of S to braking and leaves the
\* line alone.
LEMMA BrakingOK ==
  ASSUME NEW w, WorldType(w), LineOK(w), NEW S, S \subseteq Slots,
         NEW purpose \in Purposes, NEW b \in Tokens \cup {0}
  PROVE  /\ WorldType(Braking(w, S, purpose, b))
         /\ Brake(w, Braking(w, S, purpose, b), S, b)
<1> DEFINE f == [s \in Slots |->
                   IF s \in S THEN [w.job[s] EXCEPT !.state = "braking", !.purpose = purpose,
                                                    !.estop = b]
                   ELSE w.job[s]]
           v == [w EXCEPT !.job = f]
<1>1. w.job \in [Slots -> JobType]
  BY DEF LineOK, LineType
<1>2. ASSUME NEW s \in S
      PROVE  /\ f[s] \in JobType /\ f[s].state = "braking" /\ f[s].estop = b
             /\ f[s].removing = w.job[s].removing
  <2>1. f[s] = [w.job[s] EXCEPT !.state = "braking", !.purpose = purpose, !.estop = b]
    OBVIOUS
  <2>2. w.job[s] \in JobType
    BY <1>1
  <2> HIDE DEF f
  <2> QED BY <2>1, <2>2 DEF JobType, StateNames, Purposes
<1>3. f \in [Slots -> JobType] /\ \A s \in Slots \ S : f[s] = w.job[s]
  <2>1. \A s \in Slots \ S : f[s] = w.job[s] /\ f[s] \in JobType
    BY <1>1
  <2>2. \A s \in Slots : f[s] \in JobType
    BY <1>2, <2>1
  <2> QED BY <2>1, <2>2
<1>4. v = Braking(w, S, purpose, b)
  BY DEF Braking
<1> HIDE DEF f
<1>5. /\ WorldType(v) /\ v.job = f
      /\ v.queue = w.queue /\ v.wire = w.wire /\ v.batch = w.batch /\ v.got = w.got
  BY JobsOK
<1> HIDE DEF v
<1>6. Brake(w, v, S, b)
  BY <1>2, <1>3, <1>5 DEF Brake
<1> QED BY <1>4, <1>5, <1>6

\* queue_atomic_traffic_stop and what follows it are well behaved.
LEMMA WithTrafficStopOK ==
  ASSUME NEW w, WorldType(w), LineOK(w), NEW S, S \subseteq Slots,
         \A s \in S : ~w.job[s].removing, NEW m
  PROVE  WorldType(WithTrafficStop(w, S)) /\ Well(w, WithTrafficStop(w, S), m)
<1> DEFINE w1 == WithStops(w, S)
           v == WithTrafficStop(w, S)
<1>1. /\ WorldType(w1) /\ LineOK(w1) /\ OnlyStops(w, w1) /\ w1.job = w.job
      /\ \A s \in Slots : Undisturbed(w, w1, s)
      /\ StopsOnly(w1)
      /\ w1.got # 0 => Stopped(w1, S)
  BY WithStopsOK
<1>2. v = IF w1.got = 0 THEN WithFailedJobs(w1, S) ELSE Braking(w1, S, "traffic", w1.got)
  BY DEF WithTrafficStop
<1> HIDE DEF w1, v
<1>3. Well(w, w1, m)
  BY <1>1 DEF Well
<1>4. WorldType(v) /\ Well(w1, v, m)
  <2>1. CASE w1.got = 0
    <3>1. v = WithFailedJobs(w1, S)
      BY <1>2, <2>1
    <3> QED BY <1>1, <3>1, WithFailedJobsOK
  <2>2. CASE w1.got # 0
    <3>1. v = Braking(w1, S, "traffic", w1.got)
      BY <1>2, <2>2
    <3>2. w1.got \in Tokens \cup {0}
      BY <1>1 DEF LineOK, LineType
    <3>3. "traffic" \in Purposes
      BY DEF Purposes
    <3>4. WorldType(v) /\ Brake(w1, v, S, w1.got)
      BY <1>1, <3>1, <3>2, <3>3, BrakingOK
    <3>5. \A s \in S : ~v.job[s].removing
      BY <1>1, <3>4 DEF Brake
    <3> QED BY <1>1, <2>2, <3>4, <3>5, BrakedOK DEF Brake
  <2> QED BY <2>1, <2>2
<1>5. Well(w, v, m)
  BY <1>1, <1>3, <1>4, StaysWell DEF LineOK
<1> QED BY <1>4, <1>5 DEF v

\* stop_partially_confirmed_launch_wave is well behaved.
LEMMA WithWaveStoppedOK ==
  ASSUME NEW w, WorldType(w), LineOK(w), NEW b \in Tokens \cup {0},
         \A s \in Slots : RemovingOK(w, s), NEW m
  PROVE  WorldType(WithWaveStopped(w, b)) /\ Well(w, WithWaveStopped(w, b), m)
<1> DEFINE S == WaveOf(w, b)
           w1 == WithStops(w, S)
           v == WithWaveStopped(w, b)
<1>1. S \subseteq Slots /\ \A s \in S : ~w.job[s].removing
  BY DEF WaveOf, RemovingOK
<1>2. /\ WorldType(w1) /\ LineOK(w1) /\ OnlyStops(w, w1) /\ w1.job = w.job
      /\ \A s \in Slots : Undisturbed(w, w1, s)
      /\ StopsOnly(w1)
      /\ w1.got # 0 => Stopped(w1, S)
  BY <1>1, WithStopsOK
<1>3. v = IF w1.got = 0 THEN [WithFailedWave(w1, b) EXCEPT !.got = 0]
          ELSE OffWave(Braking(w1, S, "traffic", w1.got), S)
  BY DEF WithWaveStopped
<1> HIDE DEF w1, v, S
<1>4. Well(w, w1, m)
  BY <1>2 DEF Well
<1>5. WorldType(v) /\ Well(w1, v, m)
  <2>1. CASE w1.got = 0
    <3> DEFINE x == WithFailedWave(w1, b)
    <3>1. v = [x EXCEPT !.got = 0]
      BY <1>3, <2>1
    <3>2. WorldType(x) /\ Well(w1, x, m)
      BY <1>2, WithFailedWaveOK
    <3> HIDE DEF x
    <3>3. /\ WorldType(v) /\ v.got = 0
          /\ v.queue = x.queue /\ v.wire = x.wire /\ v.batch = x.batch /\ v.job = x.job
      BY <3>1, <3>2, GotOK
    <3>4. LineOK(x) /\ x.job \in [Slots -> JobType]
      BY <3>2 DEF Well, LineOK, LineType
    <3>5. LineOK(v) /\ OnlyStops(x, v) /\ \A s \in Slots : Undisturbed(x, v, s)
      BY <3>3, <3>4, JobsOnly
    <3>6. Well(x, v, m)
      BY <3>5 DEF Well
    <3> QED BY <3>2, <3>3, <3>4, <3>6, StaysWell DEF LineOK
  <2>2. CASE w1.got # 0
    <3> DEFINE x == Braking(w1, S, "traffic", w1.got)
               f == [s \in Slots |-> IF s \in S THEN [x.job[s] EXCEPT !.launch = 0] ELSE x.job[s]]
    <3>1. w1.got \in Tokens \cup {0}
      BY <1>2 DEF LineOK, LineType
    <3>2. "traffic" \in Purposes
      BY DEF Purposes
    <3>3. /\ WorldType(x) /\ x.job \in [Slots -> JobType]
          /\ x.queue = w1.queue /\ x.wire = w1.wire /\ x.batch = w1.batch /\ x.got = w1.got
          /\ \A s \in Slots \ S : x.job[s] = w1.job[s]
          /\ \A s \in S : /\ x.job[s].state = "braking" /\ x.job[s].estop = w1.got
                          /\ x.job[s].removing = w1.job[s].removing
      <4>1. WorldType(x) /\ Brake(w1, x, S, w1.got)
        BY <1>1, <1>2, <3>2, <3>1, BrakingOK
      <4> QED BY <4>1 DEF Brake
    <3>4. v = [x EXCEPT !.job = f]
      BY <1>3, <2>2 DEF OffWave
    <3> HIDE DEF x
    <3>5. \A s \in Slots \ S : f[s] = x.job[s]
      OBVIOUS
    <3>6. ASSUME NEW s \in S
          PROVE  /\ f[s] \in JobType /\ f[s].state = x.job[s].state /\ f[s].estop = x.job[s].estop
                 /\ f[s].removing = x.job[s].removing
      <4>1. f[s] = [x.job[s] EXCEPT !.launch = 0] /\ x.job[s] \in JobType
        BY <1>1, <3>3
      <4> HIDE DEF f
      <4> QED BY <4>1 DEF JobType
    <3>7. f \in [Slots -> JobType]
      <4>1. \A s \in Slots : f[s] \in JobType
        BY <3>3, <3>5, <3>6
      <4> QED BY <4>1
    <3> HIDE DEF f
    <3>8. /\ WorldType(v) /\ v.job = f
          /\ v.queue = x.queue /\ v.wire = x.wire /\ v.batch = x.batch /\ v.got = x.got
      BY <3>3, <3>4, JobsOK
    <3>9. /\ v.queue = w1.queue /\ v.wire = w1.wire /\ v.batch = w1.batch /\ v.got = w1.got
          /\ v.job \in [Slots -> JobType]
      BY <3>3, <3>7, <3>8
    <3>10. /\ \A s \in Slots \ S : v.job[s] = w1.job[s]
          /\ \A s \in S : v.job[s].state = "braking" /\ v.job[s].estop = w1.got
                            /\ ~v.job[s].removing
      BY <1>1, <1>2, <3>3, <3>5, <3>6, <3>8
    <3> QED BY <1>2, <2>2, <3>8, <3>9, <3>10, BrakedOK
  <2> QED BY <2>1, <2>2
<1>6. Well(w, v, m)
  BY <1>2, <1>4, <1>5, StaysWell DEF LineOK
<1> QED BY <1>5, <1>6 DEF v

\* A control command: lower ranks make room for it.
LEMMA WithCommandOK ==
  ASSUME NEW w, WorldType(w), LineOK(w), Quiet(w), NEW c, c.train \in Slots,
         c.speed \in {"go", "stop", "turn"}
  PROVE  LET v == WithCommand(w, c)
         IN  /\ WorldType(v) /\ LineOK(v) /\ v.job = w.job /\ v.wire = w.wire
             /\ \A s \in Slots : Undisturbed(w, v, s)
             /\ \A f \in Members(v.queue) :
                  \/ f \in Members(w.queue) /\ f.token # 0
                  \/ f = FrameTo(c.train, c.speed, 0, 1) /\ Taken(WithRoom(w)) < Room
<1> DEFINE w1 == WithRoom(w)
           new == FrameTo(c.train, c.speed, 0, 1)
           q == Pushed(w1.queue, <<new>>, 1)
           v == WithCommand(w, c)
<1>1. Dropped(w, w1) /\ WorldType(w1) /\ w1.wire = w.wire
  <2>1. CASE w1 = w
    <3>1. w.queue \in Seq(Frames) /\ InjectiveSeq(w.queue) /\ w.wire \in WireType
          /\ w.batch \in [Tokens -> BatchType]
      BY DEF LineOK, LineType
    <3> QED BY <2>1, <3>1 DEF Dropped
  <2>2. CASE w1 = WithoutLower(w, 1)
    <3>1. Dropped(w, w1) /\ WorldType(w1)
      BY <2>2, WithoutLowerOK
    <3> DEFINE x == [w EXCEPT !.queue = Without(w.queue, Low(w.queue, 1))]
               T == {f.token : f \in Low(w.queue, 1)}
    <3>2. w1 = WithFailed(x, T)
      BY <2>2 DEF WithoutLower
    <3>3. x = [job |-> w.job, queue |-> Without(w.queue, Low(w.queue, 1)), wire |-> w.wire,
               batch |-> w.batch, got |-> w.got]
      BY DEF WorldType
    <3> HIDE DEF x, T, w1
    <3>4. WorldType(x) /\ x.wire = w.wire /\ x.batch = w.batch
      BY <3>3 DEF WorldType
    <3>5. WithFailedIs(x, T, w1)
      BY <3>2, <3>4, FailedWorld DEF LineOK, LineType
    <3> QED BY <3>1, <3>4, <3>5 DEF WithFailedIs
  <2> QED BY <2>1, <2>2 DEF WithRoom
<1>2. LineOK(w1) /\ OnlyStops(w, w1) /\ \A s \in Slots : Undisturbed(w, w1, s)
  BY <1>1, DroppedLine
<1>3. w1.job = w.job /\ \A f \in Members(w1.queue) : f \in Members(w.queue) /\ f.token # 0
  BY <1>1 DEF Dropped, Quiet
<1>4. v = IF Taken(w1) < Room THEN [w1 EXCEPT !.queue = q] ELSE w1
  BY DEF WithCommand, FrameTo
<1>5. /\ new \in Frames /\ FrameOK(new) /\ new.token = 0
      /\ <<new>> \in Seq(Frames) /\ InjectiveSeq(<<new>>)
      /\ \A f : f \in Members(<<new>>) <=> f = new
  <2>1. new \in Frames /\ FrameOK(new) /\ new.token = 0
    BY DEF Frames, FrameTo, FrameOK
  <2> HIDE DEF new
  <2>2. InjectiveSeq(<<new>>) /\ \A f : f \in Members(<<new>>) <=> f = new
    BY DEF InjectiveSeq, Members
  <2> QED BY <2>1, <2>2
<1> HIDE DEF w1, v, new
<1>6. CASE ~(Taken(w1) < Room)
  <2>1. v = w1
    BY <1>4, <1>6
  <2> QED BY <1>1, <1>2, <1>3, <2>1 DEF v
<1>7. CASE Taken(w1) < Room
  <2>1. w1.queue \in Seq(Frames) /\ InjectiveSeq(w1.queue)
    BY <1>2 DEF LineOK, LineType
  <2>2. \A f \in Members(w1.queue) : f \notin Members(<<new>>)
    BY <1>3, <1>5
  <2>3. /\ q \in Seq(Frames) /\ InjectiveSeq(q)
        /\ \A f : f \in Members(q) <=> f \in Members(w1.queue) \/ f \in Members(<<new>>)
    <3> DEFINE one == <<new>>
               old == w1.queue
    <3>1. /\ one \in Seq(Frames) /\ InjectiveSeq(one) /\ old \in Seq(Frames) /\ InjectiveSeq(old)
          /\ \A f \in Members(old) : f \notin Members(one)
      BY <1>5, <2>1, <2>2
    <3>2. 1 \in 0 .. 2
      OBVIOUS
    <3>3. q = Pushed(old, one, 1)
      OBVIOUS
    <3> HIDE DEF one, old, q
    <3>4. /\ q \in Seq(Frames) /\ InjectiveSeq(q)
          /\ \A f : f \in Members(q) <=> f \in Members(old) \/ f \in Members(one)
      BY <3>1, <3>2, <3>3, PushedOK
    <3> QED BY <3>4 DEF one, old
  <2> HIDE DEF q
  <2>4. v = [job |-> w1.job, queue |-> q, wire |-> w1.wire, batch |-> w1.batch, got |-> w1.got]
    BY <1>1, <1>4, <1>7 DEF WorldType
  <2>5. /\ WorldType(v) /\ v.job = w1.job /\ v.queue = q /\ v.wire = w1.wire
        /\ v.batch = w1.batch /\ v.got = w1.got
    BY <2>4 DEF WorldType
  <2>6. \A f : f \in Members(v.queue) <=> f \in Members(w1.queue) \/ f = new
    BY <1>5, <2>3, <2>5
  <2>7. LineType(v)
    <3>1. \A f \in Members(v.queue) : FrameOK(f)
      BY <1>2, <1>5, <2>6 DEF LineOK, LineType
    <3> QED BY <1>2, <2>3, <2>5, <3>1 DEF LineOK, LineType
  <2>8. OneEach(v)
    BY <1>2, <1>5, <2>5, <2>6 DEF LineOK, OneEach
  <2>9. Counted(v)
    <3>1. \A b \in Tokens : Out(v, b) = Out(w1, b)
      BY <1>5, <2>5, <2>6, SlotsAre DEF Out, IsOut
    <3> QED BY <1>2, <2>5, <3>1 DEF LineOK, Counted
  <2>10. NoGoFailed(v)
    BY <1>2, <1>5, <2>5, <2>6 DEF LineOK, NoGoFailed
  <2>11. ASSUME NEW s \in Slots PROVE Undisturbed(w, v, s)
    <3>1. Undisturbed(w, w1, s)
      BY <1>2
    <3> QED BY <2>5, <2>6, <3>1 DEF Undisturbed, BatchFailed
  <2>12. LineOK(v)
    BY <2>7, <2>8, <2>9, <2>10 DEF LineOK
  <2> QED BY <1>1, <1>3, <1>7, <2>5, <2>6, <2>11, <2>12 DEF v, w1, new
<1> QED BY <1>6, <1>7

\* What it means for the slots.
LEMMA CommandSlots ==
  ASSUME NEW w, WorldType(w), LineOK(w), Quiet(w), NEW c, c.train \in Slots,
         c.speed \in {"go", "stop", "turn"}, NEW m, NEW s \in Slots,
         NEW e \in BOOLEAN, SlotOK(w, m, s, e),
         c.speed = "go" /\ c.train = s => e /\ Plain(w.job[s])
  PROVE  SlotOK(WithCommand(w, c), m, s, e)
<1> DEFINE v == WithCommand(w, c)
<1>1. /\ v.job = w.job /\ v.wire = w.wire
      /\ Undisturbed(w, v, s)
      /\ \A f \in Members(v.queue) :
           f \in Members(w.queue) \/ f = FrameTo(c.train, c.speed, 0, 1)
  BY WithCommandOK
<1> HIDE DEF v
<1>2. CASE c.speed = "go" /\ c.train = s
  <2>1. StillOK(v, m, s, e)
    BY <1>2 DEF StillOK
  <2>2. StopOK(v, m, s)
    BY <1>1, <1>2 DEF StopOK, Plain
  <2>3. GoOK(v, s)
    BY <1>1 DEF SlotOK, GoOK, FrameTo
  <2>4. RemovingOK(v, s)
    BY <1>1 DEF SlotOK, RemovingOK
  <2> QED BY <2>1, <2>2, <2>3, <2>4 DEF SlotOK, v
<1>3. CASE ~(c.speed = "go" /\ c.train = s)
  <2>1. GoQueued(v, s) => GoQueued(w, s)
    BY <1>1, <1>3 DEF GoQueued, FrameTo
  <2>2. StillOK(v, m, s, e)
    BY <1>1, <2>1 DEF SlotOK, StillOK, Go, GoSent
  <2>3. StopOK(v, m, s)
    <3> SUFFICES ASSUME NEW b, b = v.job[s].estop, b # 0,
                        v.job[s].state = "braking" \/ (v.job[s].state = "failed" /\ v.job[s].retry),
                        ~BatchFailed(v, b)
                 PROVE  StopOut(v, m, s, b)
      BY DEF StopOK, StopOut
    <3>1. b \in Tokens
      BY <1>1 DEF LineOK, LineType, JobType
    <3>2. /\ ~BatchFailed(w, b)
          /\ \A f \in Members(w.queue) : f.token = b => f \in Members(v.queue)
      BY <1>1, <3>1 DEF Undisturbed
    <3>3. StopOut(w, m, s, b)
      BY <1>1 DEF SlotOK, StopOK
    <3> QED BY <1>1, <2>1, <3>2, <3>3 DEF StopOut, GoSent
  <2>4. GoOK(v, s)
    BY <1>1 DEF SlotOK, GoOK, FrameTo
  <2>5. RemovingOK(v, s)
    BY <1>1 DEF SlotOK, RemovingOK
  <2> QED BY <2>2, <2>3, <2>4, <2>5 DEF SlotOK, v
<1> QED BY <1>2, <1>3

-----------------------------------------------------------------------------
(* The end of a step of the dispatcher.                                    *)

\* The state of the line and the jobs once the dispatcher is done with w.
After(w) ==
  [job |-> [s \in Slots |-> Tidy(w.job[s])], queue |-> w.queue, wire |-> w.wire,
   batch |-> [b \in Tokens |->
     IF b \in InUse([w EXCEPT !.job = [s \in Slots |-> Tidy(w.job[s])]]) THEN w.batch[b]
     ELSE NoBatch],
   got |-> 0]

Tidied(j, t) ==
  /\ t \in JobType
  /\ t.state = j.state /\ t.launch = j.launch
  /\ (t.retry <=> j.retry) /\ (t.removing <=> j.removing) /\ (t.rewound <=> j.rewound)
  /\ j.state \in {"braking", "failed"} => t.estop = j.estop

\* Clearing fields that mean nothing keeps what the invariant looks at.
LEMMA TidyOK ==
  ASSUME NEW j \in JobType
  PROVE  Tidied(j, Tidy(j))
<1> DEFINE p == IF j.state = "braking" THEN j.purpose ELSE "none"
           u == j.turned /\ j.state = "reversing"
           e == IF j.state \in {"braking", "failed"} THEN j.estop ELSE 0
<1>1. p \in {"none", "destination", "reversal", "traffic"} /\ e \in Tokens \cup {0}
      /\ (j.state \in {"braking", "failed"} => e = j.estop)
  BY DEF JobType
<1>2. u \in BOOLEAN
  OBVIOUS
<1>3. Tidy(j) = [j EXCEPT !.purpose = p, !.turned = u, !.estop = e]
  BY DEF Tidy
<1> HIDE DEF p, u, e
<1> QED BY <1>1, <1>2, <1>3 DEF Tidied, JobType

Cleared(w, v) ==
  /\ WorldType(v)
  /\ v.queue = w.queue /\ v.wire = w.wire /\ v.got = 0
  /\ v.job \in [Slots -> JobType]
  /\ \A s \in Slots : v.job[s] = Tidy(w.job[s])
  /\ v.batch \in [Tokens -> BatchType]
  /\ \A b \in Tokens : IF b \in InUse(v) THEN v.batch[b] = w.batch[b]
                       ELSE v.batch[b] = NoBatch

\* Becomes leads to the jobs of w tidied, with batches that are out of use
\* forgotten.
LEMMA AfterIsCleared ==
  ASSUME NEW w, WorldType(w), LineOK(w)
  PROVE  Cleared(w, After(w))
<1> DEFINE f == [s \in Slots |-> Tidy(w.job[s])]
           x == [w EXCEPT !.job = f]
           bs == [b \in Tokens |-> IF b \in InUse(x) THEN w.batch[b] ELSE NoBatch]
           v == [job |-> f, queue |-> w.queue, wire |-> w.wire, batch |-> bs, got |-> 0]
<1>1. w.job \in [Slots -> JobType] /\ w.batch \in [Tokens -> BatchType]
  BY DEF LineOK, LineType
<1>2. f \in [Slots -> JobType] /\ \A s \in Slots : f[s] = Tidy(w.job[s])
  <2>1. \A s \in Slots : Tidy(w.job[s]) \in JobType
    BY <1>1, TidyOK DEF Tidied
  <2> QED BY <2>1
<1>3. NoBatch \in BatchType
  BY DEF NoBatch, BatchType
<1>4. bs \in [Tokens -> BatchType]
      /\ \A b \in Tokens : IF b \in InUse(x) THEN bs[b] = w.batch[b] ELSE bs[b] = NoBatch
  BY <1>1, <1>3
<1> HIDE DEF f
<1>5. x.job = f /\ x.queue = w.queue /\ x.wire = w.wire
  BY JobsOK
<1> HIDE DEF x, bs
<1>6. v.job = f /\ v.queue = w.queue /\ v.wire = w.wire /\ v.batch = bs /\ v.got = 0
      /\ WorldType(v)
  BY DEF WorldType
<1>7. After(w) = v
  BY DEF After, v, bs, x, f
<1> HIDE DEF v
<1>8. InUse(v) = InUse(x)
  BY <1>5, <1>6 DEF InUse
<1> QED BY <1>2, <1>4, <1>6, <1>7, <1>8 DEF Cleared

\* Forgetting them keeps the line and the slots sound.
LEMMA ClearedOK ==
  ASSUME NEW w, NEW v, LineOK(w), Cleared(w, v)
  PROVE  /\ LineOK(v)
         /\ \A m : \A s \in Slots, e \in BOOLEAN : SlotOK(w, m, s, e) => SlotOK(v, m, s, e)
<1>1. /\ v.queue = w.queue /\ v.wire = w.wire
      /\ \A b \in Tokens : b \in InUse(v) => v.batch[b] = w.batch[b]
      /\ \A b \in Tokens : b \notin InUse(v) => v.batch[b] = NoBatch
      /\ w.job \in [Slots -> JobType]
  BY DEF Cleared, LineOK, LineType
<1>2. \A f \in Members(w.queue) : f.token \in InUse(v)
  BY <1>1 DEF InUse
<1>3. w.wire.frame.token \in InUse(v)
  BY <1>1 DEF InUse
<1>4. \A s \in Slots : v.job[s].estop \in InUse(v)
  BY DEF InUse
<1>5. LineType(v)
  BY <1>1 DEF Cleared, LineOK, LineType
<1>6. OneEach(v)
  BY <1>1 DEF LineOK, OneEach
<1>7. Counted(v)
  <2> SUFFICES ASSUME NEW b \in Tokens, ~v.batch[b].failed
               PROVE  Cardinality(Out(v, b)) <= v.batch[b].left
    BY DEF Counted
  <2>1. Out(v, b) = Out(w, b)
    BY <1>1 DEF Out, IsOut
  <2>2. CASE b \in InUse(v)
    BY <1>1, <2>1, <2>2 DEF LineOK, Counted
  <2>3. CASE b \notin InUse(v)
    <3>1. Out(w, b) = {}
      BY <1>2, <1>3, <2>3 DEF Out, IsOut
    <3>2. v.batch[b].left = 0
      BY <1>1, <2>3 DEF NoBatch
    <3> QED BY <2>1, <3>1, <3>2, FS_EmptySet
  <2> QED BY <2>2, <2>3
<1>8. NoGoFailed(v)
  <2>1. \A f \in Members(w.queue) : f \in Frames
    BY MembersAreFrames DEF LineOK, LineType
  <2>2. \A f \in Members(w.queue) : f.token # 0 => f.token \in Tokens
    BY <2>1 DEF Frames
  <2> QED BY <1>1, <1>2, <2>2 DEF LineOK, NoGoFailed
<1>9. ASSUME NEW s \in Slots, NEW m, NEW e \in BOOLEAN, SlotOK(w, m, s, e)
      PROVE  SlotOK(v, m, s, e)
  <2> DEFINE j == w.job[s]
             t == v.job[s]
  <2>1. j \in JobType /\ Tidied(j, t)
    BY <1>1, TidyOK DEF Cleared
  <2>2. StillOK(w, m, s, e) /\ StopOK(w, m, s) /\ GoOK(w, s) /\ RemovingOK(w, s)
    BY <1>9 DEF SlotOK
  <2>3. StillOK(v, m, s, e)
    <3>1. Still(t) => Still(j)
      BY <2>1 DEF Tidied, Still
    <3>2. Excused(j) => Excused(t)
      BY <2>1 DEF Tidied, Excused
    <3>3. Go(v, m, s) => Go(w, m, s)
      BY <1>1 DEF Go, GoSent, GoQueued
    <3> QED BY <2>2, <3>1, <3>2, <3>3 DEF StillOK
  <2>4. StopOK(v, m, s)
    <3> SUFFICES ASSUME t.estop # 0, t.state = "braking" \/ (t.state = "failed" /\ t.retry)
                 PROVE  StopOut(v, m, s, t.estop)
      BY DEF StopOK
    <3>1. t.estop = j.estop /\ (j.state = "braking" \/ (j.state = "failed" /\ j.retry))
      BY <2>1 DEF Tidied
    <3>2. StopOut(w, m, s, t.estop)
      BY <2>2, <3>1 DEF StopOK
    <3>3. t.estop \in Tokens
      BY <2>1 DEF Tidied, JobType
    <3>4. v.batch[t.estop] = w.batch[t.estop]
      BY <1>1, <1>4, <3>3
    <3> QED BY <1>1, <3>2, <3>4 DEF StopOut, BatchFailed, GoQueued, GoSent
  <2>5. GoOK(v, s)
    BY <1>1, <2>2, <2>1 DEF GoOK, Tidied
  <2>6. RemovingOK(v, s)
    BY <2>2, <2>1 DEF RemovingOK, Tidied
  <2> QED BY <2>3, <2>4, <2>5, <2>6 DEF SlotOK
<1> QED BY <1>5, <1>6, <1>7, <1>8, <1>9 DEF LineOK

\* A slot that is sound is so with a call under way, too.
LEMMA Weaker ==
  ASSUME NEW w, NEW m, NEW s, NEW e, SlotOK(w, m, s, FALSE)
  PROVE  SlotOK(w, m, s, e)
BY DEF SlotOK, StillOK

\* The launch of batch b is taken back: its trains prepare anew.
Fine(w, v, m) ==
  /\ WorldType(v) /\ LineOK(v) /\ OnlyStops(w, v)
  /\ \A s \in Slots : SlotOK(v, m, s, FALSE)

\* After a well-behaved call all slots are sound, if those it disturbed are.
LEMMA WellIsFine ==
  ASSUME NEW w, NEW v, NEW m, NEW T, LineOK(w), WorldType(v), Well(w, v, m),
         \A s \in Slots \ T : SlotOK(w, m, s, FALSE),
         \A s \in Slots \cap T : SlotOK(v, m, s, FALSE)
  PROVE  Fine(w, v, m)
<1>1. \A s \in Slots \ T : SlotOK(v, m, s, FALSE)
  BY WellSlots DEF LineOK
<1> QED BY <1>1 DEF Fine, Well

-----------------------------------------------------------------------------
(* A launch taken back.                                                    *)

\* What taking back the launch b makes of a job.
RewoundJob(j, b, s, except) ==
  IF j.launch # b THEN j
  ELSE [j EXCEPT !.launch = 0,
          !.state = IF s # except /\ j.state = "launching" THEN "preparing" ELSE j.state,
          !.rewound = s # except /\ MayMove(s)]

IsRewound(j, r, s, except) ==
  /\ r \in JobType
  /\ r.estop = j.estop /\ (r.retry <=> j.retry) /\ (r.removing <=> j.removing)
  /\ r.state = IF s # except /\ j.state = "launching" THEN "preparing" ELSE j.state
  /\ r.rewound <=> s # except /\ MayMove(s)

\* A job that is taken back prepares anew, and is marked if its motor may
\* have been told.
LEMMA RewoundJobOK ==
  ASSUME NEW j \in JobType, NEW b, NEW s, NEW except, j.launch = b,
         moving[s] \in BOOLEAN
  PROVE  IsRewound(j, RewoundJob(j, b, s, except), s, except)
<1> DEFINE x == IF s # except /\ j.state = "launching" THEN "preparing" ELSE j.state
           y == s # except /\ MayMove(s)
           r == [j EXCEPT !.launch = 0, !.state = x, !.rewound = y]
<1>1. x \in StateNames
  BY DEF JobType, StateNames
<1>2. y \in BOOLEAN
  BY DEF MayMove
<1>3. RewoundJob(j, b, s, except) = r
  BY DEF RewoundJob
<1> HIDE DEF x, y
<1>4. /\ r \in JobType
      /\ r.estop = j.estop /\ (r.retry <=> j.retry) /\ (r.removing <=> j.removing)
      /\ r.state = x /\ (r.rewound <=> y)
  BY <1>1, <1>2 DEF JobType
<1> HIDE DEF r
<1> QED BY <1>3, <1>4 DEF x, y, IsRewound

\* rewind_unconfirmed_launch_wave_for_remove, once no go of the batch is
\* left, keeps all slots sound.
LEMMA RewoundOK ==
  ASSUME NEW w, WorldType(w), LineOK(w), NEW b \in Tokens, NoGoOf(w, b), Quiet(w),
         moving \in [Slots -> BOOLEAN], w.wire.frame = wire.frame,
         \A s \in Slots : SlotOK(w, moving, s, FALSE),
         NEW except, except \in Slots => w.job[except].state \in {"launching", "running"}
  PROVE  Fine(w, Rewound(w, b, except), moving)
<1> DEFINE f == [s \in Slots |-> IF w.job[s].launch # b THEN w.job[s]
                   ELSE [w.job[s] EXCEPT !.launch = 0,
                           !.state = IF s # except /\ @ = "launching" THEN "preparing" ELSE @,
                           !.rewound = s # except /\ MayMove(s)]]
           v == Rewound(w, b, except)
<1>1. v = [w EXCEPT !.job = f]
  BY DEF Rewound
<1>2. \A s \in Slots : f[s] = RewoundJob(w.job[s], b, s, except)
  BY DEF RewoundJob
<1>3. w.job \in [Slots -> JobType]
  BY DEF LineOK, LineType
<1>4. \A s \in Slots : w.job[s].launch # b => f[s] = w.job[s]
  OBVIOUS
<1>5. DOMAIN f = Slots /\ f = [s \in Slots |-> f[s]]
  OBVIOUS
<1> HIDE DEF f, v
<1>6. ASSUME NEW s \in Slots, w.job[s].launch = b
      PROVE  /\ f[s] \in JobType
             /\ f[s].estop = w.job[s].estop
             /\ (f[s].retry <=> w.job[s].retry) /\ (f[s].removing <=> w.job[s].removing)
             /\ f[s].state = IF s # except /\ w.job[s].state = "launching" THEN "preparing"
                             ELSE w.job[s].state
             /\ f[s].rewound <=> s # except /\ MayMove(s)
  <2>1. w.job[s] \in JobType /\ moving[s] \in BOOLEAN
    BY <1>3
  <2>2. IsRewound(w.job[s], RewoundJob(w.job[s], b, s, except), s, except)
    BY <1>6, <2>1, RewoundJobOK
  <2> QED BY <1>2, <2>2 DEF IsRewound
<1>7. f \in [Slots -> JobType]
  <2>1. \A s \in Slots : f[s] \in JobType
    BY <1>3, <1>4, <1>6
  <2> QED BY <1>5, <2>1
<1>8. /\ WorldType(v) /\ v.job = f
      /\ v.queue = w.queue /\ v.wire = w.wire /\ v.batch = w.batch /\ v.got = w.got
  BY <1>1, JobsOK
<1>9. LineOK(v) /\ OnlyStops(w, v) /\ \A s \in Slots : v.job[s] = w.job[s] => Undisturbed(w, v, s)
  <2>1. v.got \in Tokens \cup {0}
    BY <1>8 DEF LineOK, LineType
  <2> QED BY <1>7, <1>8, <2>1, JobsOnly
<1>10. ASSUME NEW s \in Slots
      PROVE  SlotOK(v, moving, s, FALSE)
  <2>1. CASE w.job[s].launch # b
    <3>1. Undisturbed(w, v, s)
      BY <1>4, <1>8, <1>9, <2>1
    <3> QED BY <1>9, <3>1, SlotKept DEF LineOK
  <2>2. CASE w.job[s].launch = b
    <3>1. StillOK(w, moving, s, FALSE) /\ StopOK(w, moving, s) /\ GoOK(w, s) /\ RemovingOK(w, s)
      BY DEF SlotOK
    <3>2. ~GoQueued(w, s)
      BY <2>2, <3>1 DEF GoOK, GoQueued, NoGoOf, Quiet
    <3>3. /\ v.job[s].estop = w.job[s].estop
          /\ (v.job[s].retry <=> w.job[s].retry) /\ (v.job[s].removing <=> w.job[s].removing)
          /\ v.job[s].state = IF s # except /\ w.job[s].state = "launching" THEN "preparing"
                              ELSE w.job[s].state
          /\ v.job[s].rewound <=> s # except /\ MayMove(s)
      BY <1>6, <1>8, <2>2
    <3>4. ~GoQueued(v, s) /\ (GoSent(v, s) <=> GoSent(w, s))
      BY <1>8, <3>2 DEF GoQueued, GoSent
    <3>5. Go(w, moving, s) => MayMove(s)
      BY <3>2 DEF Go, GoSent, MayMove
    <3>6. Go(v, moving, s) => Go(w, moving, s)
      BY <3>4 DEF Go
    <3>7. StillOK(v, moving, s, FALSE)
      <4> SUFFICES ASSUME Still(v.job[s]), Go(v, moving, s), ~Excused(v.job[s])
                   PROVE  FALSE
        BY DEF StillOK
      <4>1. CASE s = except
        <5>1. v.job[s].state \in {"launching", "running"}
          BY <3>3, <4>1
        <5> QED BY <5>1 DEF Still
      <4>2. CASE s # except
        <5>1. v.job[s].state \notin {"preparing", "ready"}
          BY <3>3, <3>5, <3>6, <4>2 DEF Excused
        <5>2. w.job[s].state # "launching" /\ v.job[s].state = w.job[s].state
          BY <3>3, <4>2, <5>1
        <5>3. Still(w.job[s])
          BY <3>3, <5>2 DEF Still
        <5> QED BY <3>1, <3>6, <5>1, <5>2, <5>3 DEF StillOK, Excused
      <4> QED BY <4>1, <4>2
    <3>8. StopOK(v, moving, s)
      <4> SUFFICES ASSUME v.job[s].estop # 0,
                          v.job[s].state = "braking" \/ (v.job[s].state = "failed" /\ v.job[s].retry)
                   PROVE  StopOut(v, moving, s, v.job[s].estop)
        BY DEF StopOK
      <4>1. w.job[s].state = "braking" \/ (w.job[s].state = "failed" /\ w.job[s].retry)
        BY <3>3
      <4>2. StopOut(w, moving, s, w.job[s].estop)
        BY <3>1, <3>3, <4>1 DEF StopOK
      <4> QED BY <1>8, <3>3, <4>2 DEF StopOut, BatchFailed, GoQueued, GoSent
    <3>9. GoOK(v, s)
      BY <1>8, <3>2 DEF GoOK, GoQueued
    <3>10. RemovingOK(v, s)
      BY <3>1, <3>3 DEF RemovingOK
    <3> QED BY <3>7, <3>8, <3>9, <3>10 DEF SlotOK
  <2> QED BY <2>1, <2>2
<1> QED BY <1>8, <1>9, <1>10 DEF Fine, v

-----------------------------------------------------------------------------
(* The steps of the dispatcher.                                            *)

\* The fields of World.
LEMMA WorldIs ==
  /\ World.job = job /\ World.queue = queue /\ World.wire = wire /\ World.batch = batch
  /\ World.got = 0 /\ WorldType(World)
BY DEF World, WorldType

\* The state that Becomes leads to.
LEMMA BecomesAfter ==
  ASSUME NEW w, WorldType(w), Becomes(w)
  PROVE  World' = After(w)
<1> DEFINE f == [s \in Slots |-> Tidy(w.job[s])]
           x == [w EXCEPT !.job = f]
<1>1. x.job = f /\ x.queue = w.queue /\ x.wire = w.wire /\ x.batch = w.batch
  <2> HIDE DEF f
  <2> QED BY JobsOK
<1>2. /\ job' = x.job /\ queue' = x.queue /\ wire' = x.wire
      /\ batch' = [b \in Tokens |-> IF b \in InUse(x) THEN x.batch[b] ELSE NoBatch]
  BY DEF Becomes
<1>3. After(w) = [job |-> f, queue |-> w.queue, wire |-> w.wire,
                  batch |-> [b \in Tokens |-> IF b \in InUse(x) THEN w.batch[b] ELSE NoBatch],
                  got |-> 0]
  BY DEF After
<1> HIDE DEF x, f
<1> QED BY <1>1, <1>2, <1>3 DEF World

\* What is known of the state a call of the CAN server leads to.
LEMMA NewWorld ==
  ASSUME NEW w, WorldType(w), LineOK(w), Becomes(w), moving' = moving
  PROVE  /\ LineOK(World')
         /\ World'.queue = w.queue /\ World'.wire = w.wire
         /\ queue' = w.queue /\ wire' = w.wire
         /\ \A s \in Slots : job'[s] = Tidy(w.job[s])
         /\ \A s \in Slots, e \in BOOLEAN :
              SlotOK(w, moving, s, e) => SlotOK(World', moving', s, e)
<1>1. World' = After(w)
  BY BecomesAfter
<1>2. Cleared(w, World')
  BY <1>1, AfterIsCleared
<1>3. World'.job = job' /\ World'.queue = queue' /\ World'.wire = wire'
  BY DEF World
<1>4. /\ LineOK(World')
      /\ \A m : \A s \in Slots, e \in BOOLEAN : SlotOK(w, m, s, e) => SlotOK(World', m, s, e)
  BY <1>2, ClearedOK
<1> QED BY <1>2, <1>3, <1>4 DEF Cleared

\* Unless a control command is out, none is queued or on the line.
LEMMA QuietNow ==
  ASSUME IInv, call.is # "sent"
  PROVE  Quiet(World) /\ ~(wire.wanted /\ wire.frame.token = 0)
BY WorldIs DEF IInv, CommandOK, Quiet

\* The frame on the line is the same, wanted or not any more.
SameFrame(w, v) ==
  /\ v.wire.frame = w.wire.frame /\ v.wire.obeyed = w.wire.obeyed
  /\ v.wire.wanted => w.wire.wanted

\* The motors agree with the frame on the line as long as the frame stays.
LEMMA WireStays ==
  ASSUME IInv, NEW w, SameFrame(World, w), wire' = w.wire, moving' = moving,
         wire' \in WireType
  PROVE  WireOK'
<1>1. wire'.frame = wire.frame /\ wire'.obeyed = wire.obeyed /\ (wire'.wanted => wire.wanted)
  BY WorldIs DEF SameFrame
<1>2. wire \in WireType /\ WireOK
  BY WorldIs DEF IInv, LineOK, LineType
<1>3. wire'.frame = NoFrame => wire' = NoWire
  <2> SUFFICES ASSUME wire'.frame = NoFrame PROVE wire' = NoWire
    OBVIOUS
  <2>1. wire = NoWire
    BY <1>1, <1>2 DEF WireOK
  <2>2. wire'.obeyed = FALSE /\ wire'.wanted = FALSE
    BY <1>1, <2>1 DEF NoWire, WireType
  <2> QED BY <1>1, <2>2 DEF NoWire, WireType
<1> QED BY <1>1, <1>2, <1>3 DEF WireOK

\* The dispatcher has done what there was to do, and waits for nothing.
LEMMA SettlesOn ==
  ASSUME IInv, NEW w, WorldType(w), LineOK(w), SameFrame(World, w), Quiet(w),
         \A s \in Slots : SlotOK(w, moving, s, FALSE),
         Becomes(w), call.is # "sent", call' = NoCall,
         lost' = lost, moving' = moving, pc' \in PcType, pc'.seen = "none",
         pc'.at \in {"cancel", "remove"} => pc'.pos \in Slots
  PROVE  IInv'
<1>1. /\ LineOK(World') /\ queue' = w.queue /\ wire' = w.wire
      /\ \A s \in Slots, e \in BOOLEAN :
              SlotOK(w, moving, s, e) => SlotOK(World', moving', s, e)
  BY NewWorld
<1>2. \A s \in Slots : SlotOK(World', moving', s, FALSE)
  BY <1>1
<1>3. \A s \in Slots : SlotOK(World', moving', s, GoCall(call', s))
  BY <1>2, Weaker
<1>4. ~(wire.wanted /\ wire.frame.token = 0)
  BY QuietNow
<1>5. CommandOK'
  <2>1. \A f \in Members(queue') : f.token # 0
    BY <1>1 DEF Quiet
  <2>2. ~(wire'.wanted /\ wire'.frame.token = 0)
    BY <1>1, <1>4, WorldIs DEF SameFrame
  <2> QED BY <2>1, <2>2 DEF CommandOK
<1>6. CallOK'
  BY DEF CallOK, CallType, NoCall, Told, TakingBack
<1>7. wire' \in WireType
  BY <1>1 DEF LineOK, LineType, World
<1>8. WireOK'
  BY <1>1, <1>7, WireStays
<1>9. PcOK'
  BY DEF PcOK
<1> QED BY <1>1, <1>3, <1>5, <1>6, <1>8, <1>9 DEF IInv

\* The same for what keeps all slots sound.
LEMMA Settles ==
  ASSUME IInv, NEW w, Fine(World, w, moving), Becomes(w), call.is # "sent", call' = NoCall,
         lost' = lost, moving' = moving, pc' \in PcType, pc'.seen = "none",
         pc'.at \in {"cancel", "remove"} => pc'.pos \in Slots
  PROVE  IInv'
<1>1. Quiet(World)
  BY QuietNow
<1>2. SameFrame(World, w) /\ Quiet(w)
  BY <1>1 DEF Fine, OnlyStops, Quiet, SameFrame
<1> QED BY <1>2, SettlesOn DEF Fine

Reasons == {"destination", "reversal", "resume", "correct", "relaunch", "turn", "turn first",
            "retarget", "cancel", "remove", "after wave"}

\* Every reason to call has one of the three commands.
LEMMA ToldOne ==
  ASSUME NEW why
  PROVE  Told(why) \in {"go", "stop", "turn"}
BY DEF Told

\* A call is sent, has to be tried again, or has failed.
LEMMA AfterCommandOK ==
  ASSUME NEW w, NEW s \in Slots, NEW why \in Reasons, NEW tries \in Nat \ {0}
  PROVE  LET c == [train |-> s, speed |-> Told(why), tries |-> tries, why |-> why, is |-> "again"]
             d == AfterCommand(w, c)
         IN  /\ d \in CallType /\ d # NoCall
             /\ d.train = s /\ d.speed = Told(why) /\ d.why = why /\ d.is \in {"sent", "again", "failed"}
             /\ Taken(WithRoom(w)) < Room => d.is = "sent"
<1> DEFINE c == [train |-> s, speed |-> Told(why), tries |-> tries, why |-> why, is |-> "again"]
           d == AfterCommand(w, c)
<1>1. Told(why) \in {"go", "stop", "turn"}
  BY ToldOne
<1> DEFINE told == Told(why)
<1> HIDE DEF told
<1>2. d = IF Taken(WithRoom(w)) < Room THEN [c EXCEPT !.is = "sent"]
          ELSE IF tries = 1 THEN [c EXCEPT !.is = "failed"]
          ELSE [c EXCEPT !.tries = tries - 1, !.is = "again"]
  BY DEF AfterCommand, CallMissed
<1>3. \E t \in Nat \ {0}, is \in {"sent", "again", "failed"} :
        /\ d = [train |-> s, speed |-> Told(why), tries |-> t, why |-> why, is |-> is]
        /\ Taken(WithRoom(w)) < Room => is = "sent"
  <2>1. CASE Taken(WithRoom(w)) < Room
    <3>1. d = [train |-> s, speed |-> Told(why), tries |-> tries, why |-> why, is |-> "sent"]
      BY <1>2, <2>1
    <3> QED BY <3>1
  <2>2. CASE ~(Taken(WithRoom(w)) < Room) /\ tries = 1
    <3>1. d = [train |-> s, speed |-> Told(why), tries |-> tries, why |-> why, is |-> "failed"]
      BY <1>2, <2>2
    <3> QED BY <2>2, <3>1
  <2>3. CASE ~(Taken(WithRoom(w)) < Room) /\ tries # 1
    <3>1. d = [train |-> s, speed |-> Told(why), tries |-> tries - 1, why |-> why, is |-> "again"]
      BY <1>2, <2>3
    <3>2. tries - 1 \in Nat \ {0}
      BY <2>3
    <3> QED BY <2>3, <3>1, <3>2
  <2> QED BY <2>1, <2>2, <2>3
<1> HIDE DEF d
<1>4. /\ d \in CallType /\ d # NoCall
      /\ d.train = s /\ d.speed = Told(why) /\ d.why = why /\ d.is \in {"sent", "again", "failed"}
      /\ Taken(WithRoom(w)) < Room => d.is = "sent"
  <2> PICK t \in Nat \ {0}, is \in {"sent", "again", "failed"} :
        /\ d = [train |-> s, speed |-> Told(why), tries |-> t, why |-> why, is |-> is]
        /\ Taken(WithRoom(w)) < Room => is = "sent"
    BY <1>3
  <2>1. d.train = s /\ d.speed = Told(why) /\ d.why = why /\ d.is = is
    OBVIOUS
  <2>2. d # NoCall
    BY <2>1 DEF NoCall
  <2>3. d \in CallType
    BY <1>1 DEF CallType, Reasons
  <2> QED BY <2>1, <2>2, <2>3
<1> QED BY <1>4 DEF d

ItsCall(s, tries, why) ==
  [train |-> s, speed |-> Told(why), tries |-> tries, why |-> why, is |-> "again"]

\* The call that the dispatcher now waits in.
Calls(d, w, s, why) ==
  /\ d \in CallType /\ d # NoCall
  /\ d.train = s /\ d.speed = Told(why) /\ d.why = why /\ d.is \in {"sent", "again", "failed"}
  /\ Taken(WithRoom(w)) < Room => d.is = "sent"

\* The same, of the call named by its reason.
LEMMA ItCalls ==
  ASSUME NEW w, NEW s \in Slots, NEW why \in Reasons, NEW tries \in Nat \ {0}
  PROVE  Calls(AfterCommand(w, ItsCall(s, tries, why)), w, s, why)
BY AfterCommandOK DEF Calls, ItsCall

\* One frame to s has joined the queue, if there was room.
Joined(w, v, s, speed) ==
  /\ WorldType(v) /\ LineOK(v) /\ v.job = w.job /\ v.wire = w.wire
  /\ \A f \in Members(v.queue) :
       \/ f \in Members(w.queue) /\ f.token # 0
       \/ f = FrameTo(s, speed, 0, 1) /\ Taken(WithRoom(w)) < Room

\* CanTrainSetSpeedPriority puts one frame in the queue, or none.
LEMMA CommandJoins ==
  ASSUME NEW w, WorldType(w), LineOK(w), Quiet(w), NEW c, c.train \in Slots,
         c.speed \in {"go", "stop", "turn"}
  PROVE  Joined(w, WithCommand(w, c), c.train, c.speed)
BY WithCommandOK DEF Joined

\* The dispatcher asks for a control command.
LEMMA Asks ==
  ASSUME IInv, call = NoCall, pc.at # "receive", NEW w, Fine(World, w, moving),
         NEW n \in Nat, NEW s \in Slots, NEW tries \in Nat \ {0}, NEW why \in Reasons,
         Ask(n, w, s, Told(why), tries, why),
         pc.at \in {"cancel", "remove"} => n \in Slots,
         why \in TakingBack => pc.at \in {"cancel", "remove"} /\ n = s,
         why \notin TakingBack => Plain(w.job[s]),
         Told(why) = "stop" => ~GoQueued(w, s)
  PROVE  IInv'
<1> DEFINE c == ItsCall(s, tries, why)
           v == WithCommand(w, c)
           d == AfterCommand(w, c)
<1>1. Becomes(v) /\ call' = d /\ pc' = [pc EXCEPT !.pos = n, !.seen = "none"]
      /\ lost' = lost /\ moving' = moving
  BY DEF Ask, ItsCall
<1>2. c.train = s /\ c.speed = Told(why) /\ c.speed \in {"go", "stop", "turn"}
  BY ToldOne DEF ItsCall
<1>3. WorldType(w) /\ LineOK(w) /\ OnlyStops(World, w) /\ \A x \in Slots : SlotOK(w, moving, x, FALSE)
  BY DEF Fine
<1>4. call.is # "sent" /\ Quiet(World) /\ ~(wire.wanted /\ wire.frame.token = 0)
  BY QuietNow DEF NoCall
<1>5. Quiet(w)
  BY <1>3, <1>4 DEF OnlyStops, Quiet
<1>6. Calls(d, w, s, why)
  BY ItCalls
<1> HIDE DEF c, d
<1>7. Joined(w, v, s, Told(why))
  BY <1>2, <1>3, <1>5, CommandJoins
<1>8. ASSUME NEW x \in Slots
      PROVE  SlotOK(v, moving, x, GoCall(d, x))
  <2>1. GoCall(d, x) <=> c.speed = "go" /\ c.train = x
    BY <1>2, <1>6 DEF GoCall, Calls
  <2>2. CASE GoCall(d, x)
    <3>1. x = s /\ c.speed = "go" /\ why \notin TakingBack
      BY <1>2, <2>1, <2>2 DEF TakingBack, Told
    <3>2. SlotOK(w, moving, x, TRUE) /\ Plain(w.job[x])
      BY <1>3, <3>1, Weaker
    <3>3. SlotOK(v, moving, x, TRUE)
      BY <1>2, <1>3, <1>5, <3>2, CommandSlots
    <3> QED BY <2>2, <3>3
  <2>3. CASE ~GoCall(d, x)
    <3>1. SlotOK(v, moving, x, FALSE)
      BY <1>2, <1>3, <1>5, <2>1, <2>3, CommandSlots
    <3> QED BY <3>1, Weaker
  <2> QED BY <2>2, <2>3
<1> HIDE DEF v
<1>9. WorldType(v) /\ LineOK(v) /\ v.job = w.job /\ v.wire = w.wire
  BY <1>7 DEF Joined
<1>10. /\ LineOK(World') /\ queue' = v.queue /\ wire' = v.wire
       /\ World'.queue = v.queue
       /\ \A x \in Slots : job'[x] = Tidy(v.job[x])
       /\ \A x \in Slots, e \in BOOLEAN :
              SlotOK(v, moving, x, e) => SlotOK(World', moving', x, e)
  BY <1>1, <1>9, NewWorld
<1>11. \A x \in Slots : SlotOK(World', moving', x, GoCall(call', x))
  BY <1>1, <1>8, <1>10 DEF GoCall
<1>12. wire' \in WireType
  BY <1>10 DEF LineOK, LineType, World
<1>13. WireOK'
  <2>1. SameFrame(World, v)
    BY <1>3, <1>9 DEF OnlyStops, SameFrame
  <2> QED BY <1>1, <1>10, <1>12, <2>1, WireStays
<1>14. pc' \in PcType /\ pc'.at = pc.at /\ pc'.pos = n /\ pc'.seen = "none"
  BY <1>1 DEF IInv, PcOK, PcType
<1>15. PcOK'
  BY <1>14 DEF PcOK
<1>16. ~(wire'.wanted /\ wire'.frame.token = 0)
  BY <1>3, <1>4, <1>9, <1>10, WorldIs DEF OnlyStops
<1>17. CommandOK'
  <2>1. \A f \in Members(queue') : f.token = 0 =>
          f = FrameTo(s, Told(why), 0, 1) /\ Taken(WithRoom(w)) < Room
    BY <1>7, <1>10 DEF Joined
  <2>2. \A f \in Members(queue') : f.token = 0 =>
          call'.is = "sent" /\ f.train = call'.train /\ f.speed = call'.speed
    BY <1>1, <1>6, <2>1 DEF Calls, FrameTo
  <2> QED BY <1>16, <2>2 DEF CommandOK
<1>18. CallOK'
  <2>1. call' \in CallType /\ call'.speed = Told(call'.why)
    BY <1>1, <1>6 DEF Calls
  <2>2. call'.why \in TakingBack => pc'.at \in {"cancel", "remove"} /\ pc'.pos = call'.train
    BY <1>1, <1>6, <1>14 DEF Calls
  <2>3. call'.why \notin TakingBack => Plain(job'[call'.train])
    <3> SUFFICES ASSUME why \notin TakingBack PROVE Plain(job'[s])
      BY <1>1, <1>6 DEF Calls
    <3>1. job'[s] = Tidy(w.job[s]) /\ w.job[s] \in JobType /\ Plain(w.job[s])
      BY <1>3, <1>9, <1>10 DEF LineOK, LineType
    <3>2. Tidied(w.job[s], job'[s])
      BY <3>1, TidyOK
    <3> QED BY <3>1, <3>2 DEF Plain, Tidied
  <2>4. call'.speed = "stop" => ~GoQueued(World', call'.train)
    <3> SUFFICES ASSUME Told(why) = "stop" PROVE ~GoQueued(World', s)
      BY <1>1, <1>6 DEF Calls
    <3> QED BY <1>7, <1>10 DEF Joined, GoQueued, FrameTo
  <2>5. call'.is # "done"
    BY <1>1, <1>6 DEF Calls
  <2> QED BY <1>14, <2>1, <2>2, <2>3, <2>4, <2>5 DEF CallOK
<1> QED BY <1>1, <1>10, <1>11, <1>13, <1>15, <1>17, <1>18 DEF IInv

-----------------------------------------------------------------------------
(* The steps of the line.                                                  *)

\* The line has gone on, and nothing it may still do is new.
LineGoesOn ==
  /\ LineOK(World') /\ moving' \in [Slots -> BOOLEAN] /\ lost' \in Nat
  /\ job' = job /\ pc' = pc
  /\ \A f \in Members(queue') : f \in Members(queue)
  /\ \A s \in Slots : Go(World', moving', s) => Go(World, moving, s)
  /\ \A s \in Slots, b \in Tokens :
       StopOut(World, moving, s, b) => StopOut(World', moving', s, b)

CallGoesOn ==
  /\ call' \in CallType
  /\ call'.train = call.train /\ call'.speed = call.speed /\ call'.why = call.why
  /\ \/ call' = call
     \/ /\ call.is = "sent" /\ call' # NoCall
        /\ call'.speed = "stop" /\ call'.is = "done" => ~Go(World', moving', call'.train)

\* A step of the line that adds no command keeps the invariant.
LEMMA LineKeepsInv ==
  ASSUME IInv, LineGoesOn, CallGoesOn, CommandOK', WireOK'
  PROVE  IInv'
<1>1. World'.job = job /\ World'.queue = queue' /\ World.job = job /\ World.queue = queue
  BY WorldIs DEF LineGoesOn, World
<1>2. \A s \in Slots : GoQueued(World', s) => GoQueued(World, s)
  BY <1>1 DEF LineGoesOn, GoQueued
<1>3. ASSUME NEW s \in Slots
      PROVE  SlotOK(World', moving', s, GoCall(call', s))
  <2>1. /\ StillOK(World, moving, s, GoCall(call, s)) /\ StopOK(World, moving, s)
        /\ GoOK(World, s) /\ RemovingOK(World, s)
    BY DEF IInv, SlotOK
  <2>2. GoCall(call', s) <=> GoCall(call, s)
    BY DEF CallGoesOn, GoCall
  <2>3. StillOK(World', moving', s, GoCall(call', s))
    BY <1>1, <2>1, <2>2 DEF LineGoesOn, StillOK
  <2>4. StopOK(World', moving', s)
    <3> SUFFICES ASSUME job[s].estop # 0,
                        job[s].state = "braking" \/ (job[s].state = "failed" /\ job[s].retry)
                 PROVE  StopOut(World', moving', s, job[s].estop)
      BY <1>1 DEF StopOK
    <3>1. StopOut(World, moving, s, job[s].estop)
      BY <1>1, <2>1 DEF StopOK
    <3>2. job[s].estop \in Tokens
      BY WorldIs DEF IInv, LineOK, LineType, JobType
    <3> QED BY <3>1, <3>2 DEF LineGoesOn
  <2>5. GoOK(World', s)
    BY <1>1, <2>1 DEF LineGoesOn, GoOK
  <2>6. RemovingOK(World', s)
    BY <1>1, <2>1 DEF RemovingOK
  <2> QED BY <2>3, <2>4, <2>5, <2>6 DEF SlotOK
<1>4. CallOK'
  <2>1. call' \in CallType /\ call'.speed = Told(call'.why)
    BY DEF IInv, CallOK, CallGoesOn
  <2>2. call' # NoCall => call # NoCall
    BY DEF CallGoesOn, NoCall
  <2>3. call' # NoCall => pc'.at # "receive"
    BY <2>2 DEF IInv, CallOK, LineGoesOn
  <2>4. call'.why \in TakingBack => pc'.at \in {"cancel", "remove"} /\ pc'.pos = call'.train
    BY DEF IInv, CallOK, LineGoesOn, CallGoesOn
  <2>5. call' # NoCall /\ call'.why \notin TakingBack => Plain(job'[call'.train])
    BY <2>2 DEF IInv, CallOK, LineGoesOn, CallGoesOn
  <2>6. ASSUME call' # NoCall, call'.speed = "stop"
        PROVE  /\ ~GoQueued(World', call'.train)
               /\ call'.is = "done" => ~Go(World', moving', call'.train)
    <3>1. call # NoCall /\ call.train \in Slots /\ call.speed = "stop"
      BY <2>2, <2>6 DEF IInv, CallOK, CallType, CallGoesOn
    <3>2. ~GoQueued(World, call.train) /\ (call.is = "done" => ~Go(World, moving, call.train))
      BY <3>1 DEF IInv, CallOK
    <3> QED BY <1>2, <2>6, <3>1, <3>2 DEF LineGoesOn, CallGoesOn
  <2> QED BY <2>1, <2>3, <2>4, <2>5, <2>6 DEF CallOK
<1>5. PcOK'
  <2>1. pc.seen # "none" => call' = NoCall
    BY DEF IInv, PcOK, CallGoesOn, NoCall
  <2>2. pc.at \in {"cancel", "remove"} => pc.pos \in Slots
    BY DEF IInv, PcOK
  <2>3. pc' = pc /\ job' = job
    BY DEF LineGoesOn
  <2>4. Target' = Target
    BY <2>3 DEF Target, Here
  <2>5. pc'.seen # "none" => job'[Target'].launch # 0
    BY <2>3, <2>4 DEF IInv, PcOK
  <2> QED BY <1>2, <2>1, <2>2, <2>5 DEF IInv, PcOK, LineGoesOn, Is
<1> QED BY <1>3, <1>4, <1>5 DEF IInv, LineGoesOn

\* A frame is sent.
LEMMA SendOK ==
  ASSUME IInv, Send
  PROVE  IInv'
<1> DEFINE f == Head(queue)
<1>1. /\ wire = NoWire /\ queue # <<>> /\ queue' = Tail(queue)
      /\ job' = job /\ pc' = pc /\ call' = call /\ batch' = batch
      /\ wire'.frame = f /\ wire'.wanted /\ wire'.obeyed \in BOOLEAN
      /\ wire' = [frame |-> f, obeyed |-> wire'.obeyed, wanted |-> TRUE]
      /\ IF wire'.obeyed
         THEN moving' = IF f.speed = "turn" THEN moving
                        ELSE [moving EXCEPT ![f.train] = f.speed = "go"]
         ELSE moving' = moving
  <2>1. /\ wire = NoWire /\ queue # <<>> /\ queue' = Tail(queue)
        /\ job' = job /\ pc' = pc /\ call' = call /\ batch' = batch
    BY DEF Send, CanOnly
  <2>2. CASE /\ wire' = [frame |-> f, obeyed |-> TRUE, wanted |-> TRUE]
             /\ moving' = IF f.speed = "turn" THEN moving
                          ELSE [moving EXCEPT ![f.train] = f.speed = "go"]
    <3>1. wire'.frame = f /\ wire'.wanted = TRUE /\ wire'.obeyed = TRUE
      BY <2>2
    <3> HIDE DEF f
    <3> QED BY <2>1, <2>2, <3>1
  <2>3. CASE /\ wire' = [frame |-> f, obeyed |-> FALSE, wanted |-> TRUE]
             /\ moving' = moving
    <3>1. wire'.frame = f /\ wire'.wanted = TRUE /\ wire'.obeyed = FALSE
      BY <2>3
    <3> HIDE DEF f
    <3> QED BY <2>1, <2>3, <3>1
  <2> QED BY <2>2, <2>3 DEF Send
<1>2. lost' \in Nat
  <2>1. lost' = lost \/ lost' = lost + 1
    BY DEF Send
  <2> QED BY <2>1 DEF IInv
<1>3. queue \in Seq(Frames) /\ InjectiveSeq(queue)
  BY WorldIs DEF IInv, LineOK, LineType
<1>4. /\ queue' \in Seq(Frames) /\ f \in Frames /\ f \in Members(queue) /\ InjectiveSeq(queue')
      /\ \A x : x \in Members(queue') <=> x \in Members(queue) /\ x # f
  BY <1>1, <1>3, TailLine
<1> HIDE DEF f
<1>5. /\ World'.job = job /\ World'.queue = queue' /\ World'.wire = wire' /\ World'.batch = batch
      /\ World'.got = 0
  BY <1>1 DEF World
<1>6. f.train \in Slots /\ f.speed \in {"go", "stop", "turn"} /\ moving \in [Slots -> BOOLEAN]
  BY <1>4 DEF Frames, IInv
<1>7. moving' \in [Slots -> BOOLEAN]
  BY <1>1, <1>6
<1>8. \A s \in Slots : IF s = f.train /\ wire'.obeyed /\ f.speed # "turn"
                       THEN moving'[s] = (f.speed = "go") ELSE moving'[s] = moving[s]
  BY <1>1, <1>6
<1>9. LineOK(World')
  <2>1. LineType(World')
    BY <1>1, <1>4, <1>5, WorldIs DEF IInv, LineOK, LineType, WireType
  <2>2. OneEach(World')
    BY <1>1, <1>4, <1>5, WorldIs DEF IInv, LineOK, OneEach
  <2>3. Counted(World')
    <3> SUFFICES ASSUME NEW b \in Tokens, ~batch[b].failed
                 PROVE  Cardinality(Out(World', b)) <= batch[b].left
      BY <1>5 DEF Counted
    <3>1. Out(World', b) \subseteq Out(World, b)
      BY <1>1, <1>4, <1>5, WorldIs DEF Out, IsOut
    <3>2. Cardinality(Out(World', b)) <= Cardinality(Out(World, b))
      BY <3>1, OutIsFinite, FS_Subset
    <3>3. Cardinality(Out(World, b)) <= batch[b].left
      BY WorldIs DEF IInv, LineOK, Counted
    <3>4. Cardinality(Out(World', b)) \in Nat /\ Cardinality(Out(World, b)) \in Nat
      BY OutIsFinite
    <3>5. batch[b].left \in Nat
      BY WorldIs DEF IInv, LineOK, LineType, BatchType
    <3> QED BY <3>2, <3>3, <3>4, <3>5
  <2>4. NoGoFailed(World')
    BY <1>4, <1>5, WorldIs DEF IInv, LineOK, NoGoFailed
  <2> QED BY <2>1, <2>2, <2>3, <2>4 DEF LineOK
<1>10. \A s \in Slots : GoQueued(World', s) => GoQueued(World, s)
  BY <1>4, <1>5, WorldIs DEF GoQueued
<1>11. ASSUME NEW s \in Slots, Go(World', moving', s) PROVE Go(World, moving, s)
  <2>1. f.train = s /\ f.speed = "go" => GoQueued(World, s)
    BY <1>4, WorldIs DEF GoQueued
  <2>2. GoSent(World', s) => GoQueued(World, s)
    BY <1>1, <1>5, <2>1 DEF GoSent
  <2>3. moving'[s] => moving[s] \/ GoQueued(World, s)
    BY <1>8, <2>1
  <2> QED BY <1>10, <1>11, <2>2, <2>3 DEF Go
<1>12. ASSUME NEW s \in Slots, NEW b \in Tokens, StopOut(World, moving, s, b)
       PROVE  StopOut(World', moving', s, b)
  <2>1. CASE BatchFailed(World, b)
    BY <1>5, <2>1, WorldIs DEF StopOut, BatchFailed
  <2>2. CASE ~BatchFailed(World, b)
    <3>1. ~GoQueued(World, s)
      BY <1>12, <2>2 DEF StopOut
    <3>2. ~GoQueued(World', s) /\ ~(f.train = s /\ f.speed = "go")
      BY <1>4, <1>10, <3>1, WorldIs DEF GoQueued
    <3>3. ~GoSent(World', s)
      BY <1>1, <1>5, <3>2 DEF GoSent
    <3>4. CASE \E g \in Members(queue) : g.train = s /\ g.token = b /\ g.speed = "stop"
      <4> PICK g \in Members(queue) : g.train = s /\ g.token = b /\ g.speed = "stop"
        BY <3>4
      <4>1. CASE g # f
        BY <1>4, <1>5, <3>2, <4>1 DEF StopOut
      <4>2. CASE g = f /\ ~wire'.obeyed
        BY <1>1, <1>5, <3>2, <4>2 DEF StopOut
      <4>3. CASE g = f /\ wire'.obeyed
        <5>1. ~moving'[s]
          BY <1>8, <4>3
        <5> QED BY <3>2, <3>3, <5>1 DEF StopOut
      <4> QED BY <4>1, <4>2, <4>3
    <3>5. CASE ~\E g \in Members(queue) : g.train = s /\ g.token = b /\ g.speed = "stop"
      <4>1. ~moving[s]
        BY <1>1, <1>12, <2>2, <3>5, WorldIs DEF StopOut, NoWire
      <4>2. ~moving'[s]
        BY <1>8, <3>2, <4>1
      <4> QED BY <3>2, <3>3, <4>2 DEF StopOut
    <3> QED BY <3>4, <3>5
  <2> QED BY <2>1, <2>2
<1>13. LineGoesOn
  BY <1>1, <1>2, <1>4, <1>7, <1>9, <1>11, <1>12 DEF LineGoesOn
<1>14. CallGoesOn
  BY <1>1 DEF CallGoesOn, IInv, CallOK
<1>15. CommandOK'
  <2>1. f.token = 0 => call.is = "sent" /\ f.train = call.train /\ f.speed = call.speed
    BY <1>4 DEF IInv, CommandOK
  <2>2. ASSUME NEW g \in Members(queue'), g.token = 0
        PROVE  /\ call.is = "sent" /\ g.train = call.train /\ g.speed = call.speed
               /\ f.token # 0
    <3>1. g \in Members(queue) /\ g # f
      BY <1>4
    <3>2. call.is = "sent" /\ g.train = call.train /\ g.speed = call.speed
      BY <2>2, <3>1 DEF IInv, CommandOK
    <3>3. FrameOK(f) /\ FrameOK(g) /\ f \in Frames /\ g \in Frames
      BY <1>3, <1>4, <3>1, MembersAreFrames, WorldIs DEF IInv, LineOK, LineType
    <3>4. f.token = 0 => f = g
      BY <2>1, <2>2, <3>2, <3>3 DEF FrameOK, Frames
    <3> QED BY <3>1, <3>2, <3>4
  <2> QED BY <1>1, <2>1, <2>2 DEF CommandOK
<1>16. WireOK'
  <2>1. f # NoFrame
    BY <1>6, SlotsAre DEF NoFrame
  <2> QED BY <1>1, <1>6, <1>8, <2>1 DEF WireOK
<1> QED BY <1>13, <1>14, <1>15, <1>16, LineKeepsInv

\* The line is free again.
Freed ==
  /\ wire' = NoWire /\ job' = job /\ pc' = pc /\ moving' = moving /\ lost' \in Nat
  /\ queue' \in Seq(Frames) /\ InjectiveSeq(queue')
  /\ \A f \in Members(queue') : f \in Members(queue)
  /\ batch' \in [Tokens -> BatchType]
  /\ \A b \in Tokens :
       /\ batch'[b].total = batch[b].total
       /\ batch[b].failed => batch'[b].failed
       /\ ~batch'[b].failed =>
            /\ \A f \in Members(queue) : f.token = b => f \in Members(queue')
            /\ wire.wanted /\ wire.frame.token = b => wire.obeyed
            /\ Cardinality(Out(World', b)) <= batch'[b].left
  /\ \A f \in Members(queue') : f.speed = "go" /\ f.token # 0 => ~batch'[f.token].failed

\* A line that is free again does nothing new.
LEMMA FreedOK ==
  ASSUME IInv, Freed
  PROVE  LineGoesOn
<1>1. /\ World'.job = job /\ World'.queue = queue' /\ World'.wire = NoWire /\ World'.batch = batch'
      /\ World'.got = 0
  BY DEF World, Freed
<1>2. LineOK(World')
  <2>1. LineType(World')
    <3>1. NoWire \in WireType /\ ~NoWire.wanted
      BY DEF NoWire, WireType
    <3>2. \A f \in Members(queue') : FrameOK(f)
      BY WorldIs DEF Freed, IInv, LineOK, LineType
    <3> QED BY <1>1, <3>1, <3>2, WorldIs DEF Freed, IInv, LineOK, LineType
  <2>2. OneEach(World')
    <3>1. ~NoWire.wanted
      BY DEF NoWire
    <3> QED BY <1>1, <3>1, WorldIs DEF Freed, IInv, LineOK, OneEach
  <2>3. Counted(World')
    BY <1>1 DEF Freed, Counted
  <2>4. NoGoFailed(World')
    BY <1>1 DEF Freed, NoGoFailed
  <2> QED BY <2>1, <2>2, <2>3, <2>4 DEF LineOK
<1>3. \A s \in Slots : GoQueued(World', s) => GoQueued(World, s)
  BY <1>1, WorldIs DEF Freed, GoQueued
<1>4. \A s \in Slots : ~GoSent(World', s)
  BY <1>1 DEF GoSent, NoWire, NoFrame
<1>5. \A s \in Slots : Go(World', moving', s) => Go(World, moving, s)
  BY <1>3, <1>4 DEF Go, Freed
<1>6. ASSUME NEW s \in Slots, NEW b \in Tokens, StopOut(World, moving, s, b)
      PROVE  StopOut(World', moving', s, b)
  <2> SUFFICES ASSUME ~BatchFailed(World', b) PROVE StopOut(World', moving', s, b)
    BY DEF StopOut
  <2>1. ~batch'[b].failed /\ ~BatchFailed(World, b)
    BY <1>1, WorldIs DEF Freed, BatchFailed
  <2>2. ~GoQueued(World', s)
    BY <1>3, <1>6, <2>1 DEF StopOut
  <2>3. CASE \E f \in Members(queue) : f.train = s /\ f.token = b /\ f.speed = "stop"
    BY <1>1, <2>1, <2>2, <2>3 DEF Freed, StopOut
  <2>4. CASE ~\E f \in Members(queue) : f.train = s /\ f.token = b /\ f.speed = "stop"
    <3>1. ~moving[s]
      BY <1>6, <2>1, <2>4, WorldIs DEF Freed, StopOut
    <3> QED BY <1>4, <2>2, <3>1 DEF Freed, StopOut
  <2> QED BY <2>3, <2>4
<1> QED BY <1>2, <1>5, <1>6 DEF LineGoesOn, Freed, IInv

\* The box's answer keeps the invariant.
LEMMA AnswerOK ==
  ASSUME IInv, Answer
  PROVE  IInv'
<1> DEFINE b == wire.frame.token
           counts == wire.wanted /\ b # 0 /\ Pending(b, batch)
           asked == wire.wanted /\ b = 0
<1>1. /\ wire.obeyed /\ wire' = NoWire /\ job' = job /\ pc' = pc /\ queue' = queue
      /\ lost' = lost /\ moving' = moving
      /\ batch' = IF counts THEN [batch EXCEPT ![b].left = @ - 1] ELSE batch
      /\ call' = IF asked THEN CallIs("done") ELSE call
  BY DEF Answer, CanOnly
<1>2. /\ queue \in Seq(Frames) /\ InjectiveSeq(queue) /\ wire \in WireType
      /\ batch \in [Tokens -> BatchType] /\ (wire.wanted => wire.frame \in Frames)
      /\ OneEach(World) /\ Counted(World) /\ NoGoFailed(World)
  BY WorldIs DEF IInv, LineOK, LineType
<1>3. wire.wanted /\ b # 0 => b \in Tokens /\ wire.frame.train \in Slots
  BY <1>2 DEF Frames
<1>4. /\ batch' \in [Tokens -> BatchType]
      /\ \A c \in Tokens : /\ batch'[c].total = batch[c].total
                           /\ (batch'[c].failed <=> batch[c].failed)
                           /\ batch'[c].left = IF counts /\ c = b THEN batch[c].left - 1
                                               ELSE batch[c].left
  <2>1. CASE ~counts
    BY <1>1, <1>2, <2>1
  <2>2. CASE counts
    <3>1. b \in Tokens /\ batch[b] \in BatchType /\ batch[b].left > 0
      BY <1>2, <1>3, <2>2 DEF Pending
    <3> DEFINE n == [batch[b] EXCEPT !.left = batch[b].left - 1]
    <3>2. n \in BatchType /\ n.total = batch[b].total /\ (n.failed <=> batch[b].failed)
          /\ n.left = batch[b].left - 1
      BY <3>1 DEF BatchType
    <3>3. batch' = [batch EXCEPT ![b] = n]
      BY <1>1, <2>2
    <3> HIDE DEF n, b
    <3>4. batch' \in [Tokens -> BatchType] /\ batch'[b] = n
          /\ \A c \in Tokens : c # b => batch'[c] = batch[c]
      BY <1>2, <3>1, <3>2, <3>3
    <3> QED BY <2>2, <3>2, <3>4
  <2> QED BY <2>1, <2>2
<1>5. /\ World'.queue = queue /\ World'.wire = NoWire /\ World'.job = job
  BY <1>1 DEF World
<1>6. ASSUME NEW c \in Tokens, ~batch'[c].failed
      PROVE  Cardinality(Out(World', c)) <= batch'[c].left
  <2>1. Out(World', c) \subseteq Out(World, c)
    BY <1>5, WorldIs DEF Out, IsOut, NoWire
  <2>2. Cardinality(Out(World, c)) <= batch[c].left
    BY <1>2, <1>4, <1>6, WorldIs DEF Counted
  <2>3. /\ IsFiniteSet(Out(World, c)) /\ Cardinality(Out(World, c)) \in Nat
        /\ IsFiniteSet(Out(World', c)) /\ Cardinality(Out(World', c)) \in Nat
        /\ Cardinality(Out(World', c)) <= Cardinality(Out(World, c))
    BY <2>1, OutIsFinite, FS_Subset
  <2>4. batch[c].left \in Nat
    BY <1>2 DEF BatchType
  <2>5. CASE ~(counts /\ c = b)
    BY <1>4, <2>2, <2>3, <2>4, <2>5
  <2>6. CASE counts /\ c = b
    <3>1. wire.frame.train \in Out(World, c)
      BY <1>3, <2>6, WorldIs DEF Out, IsOut
    <3>2. wire.frame.train \notin Out(World', c)
      <4>1. \A f \in Members(queue) : f.token = c => f.train # wire.frame.train
        BY <1>2, <2>6, WorldIs DEF OneEach
      <4> QED BY <1>5, <4>1 DEF Out, IsOut, NoWire
    <3>3. Out(World', c) \subseteq Out(World, c) \ {wire.frame.train}
      BY <2>1, <3>2
    <3>4. /\ Cardinality(Out(World, c) \ {wire.frame.train}) = Cardinality(Out(World, c)) - 1
          /\ IsFiniteSet(Out(World, c) \ {wire.frame.train})
      BY <2>3, <3>1, FS_RemoveElement
    <3>5. Cardinality(Out(World', c)) <= Cardinality(Out(World, c)) - 1
      BY <3>3, <3>4, FS_Subset
    <3> QED BY <1>4, <2>2, <2>3, <2>4, <2>6, <3>5
  <2> QED BY <2>5, <2>6
<1>7. \A f \in Members(queue) : f.speed = "go" /\ f.token # 0 => ~batch'[f.token].failed
  <2>1. \A f \in Members(queue) : f.token # 0 => f.token \in Tokens
    BY <1>2, MembersAreFrames DEF Frames
  <2> QED BY <1>2, <1>4, <2>1, WorldIs DEF NoGoFailed
<1>8. Freed
  BY <1>1, <1>2, <1>4, <1>6, <1>7 DEF Freed, IInv
<1>9. LineGoesOn
  BY <1>8, FreedOK
<1>10. asked => /\ call.is = "sent" /\ wire.frame.train = call.train
                /\ wire.frame.speed = call.speed /\ call # NoCall
                /\ \A f \in Members(queue) : f.token # 0
  BY DEF IInv, CommandOK, NoCall
<1>11. CallGoesOn
  <2>1. CASE ~asked
    BY <1>1, <2>1 DEF CallGoesOn, IInv, CallOK
  <2>2. CASE asked
    <3>1. call \in CallType /\ call # NoCall
      BY <1>10, <2>2 DEF IInv, CallOK
    <3>2. call' = [call EXCEPT !.is = "done"]
      BY <1>1, <2>2 DEF CallIs
    <3>3. call' \in CallType /\ call'.train = call.train /\ call'.speed = call.speed
          /\ call'.why = call.why /\ call'.is = "done"
      BY <3>1, <3>2 DEF CallType
    <3>4. ASSUME call.speed = "stop" PROVE ~Go(World', moving', call.train)
      <4>1. call.train \in Slots
        BY <3>1 DEF CallType
      <4>2. ~GoQueued(World, call.train)
        BY <3>1, <3>4 DEF IInv, CallOK
      <4>3. ~moving[call.train]
        BY <1>1, <1>10, <2>2, <3>4 DEF IInv, WireOK
      <4> QED BY <1>1, <1>5, <4>2, <4>3, WorldIs DEF Go, GoQueued, GoSent, NoWire, NoFrame
    <3>5. call' # NoCall
      BY <3>3 DEF NoCall
    <3> QED BY <1>10, <2>2, <3>3, <3>4, <3>5 DEF CallGoesOn
  <2> QED BY <2>1, <2>2
<1>12. CommandOK'
  <2>1. ~wire'.wanted
    BY <1>1 DEF NoWire
  <2>2. CASE ~asked
    BY <1>1, <2>1, <2>2 DEF IInv, CommandOK
  <2>3. CASE asked
    BY <1>1, <1>10, <2>1, <2>3 DEF CommandOK
  <2> QED BY <2>2, <2>3
<1>13. WireOK'
  BY <1>1 DEF WireOK, NoWire, NoFrame
<1> QED BY <1>9, <1>11, <1>12, <1>13, LineKeepsInv

\* A lost frame or answer keeps the invariant.
LEMMA TimeoutOK ==
  ASSUME IInv, Timeout
  PROVE  IInv'
<1> DEFINE b == wire.frame.token
           asked == wire.wanted /\ b = 0
           v == WithFailed(World, {b})
<1>1. /\ wire # NoWire /\ wire' = NoWire /\ job' = job /\ pc' = pc /\ moving' = moving
      /\ batch' = v.batch
      /\ queue' = IF b = 0 THEN queue ELSE Without(queue, Of(queue, b))
      /\ call' = IF asked THEN CallMissed(call) ELSE call
  BY DEF Timeout, CanOnly
<1>2. lost' \in Nat
  <2>1. lost' = lost \/ lost' = lost + 1
    BY DEF Timeout
  <2> QED BY <2>1 DEF IInv
<1>3. /\ queue \in Seq(Frames) /\ InjectiveSeq(queue) /\ wire \in WireType
      /\ batch \in [Tokens -> BatchType] /\ (wire.wanted => wire.frame \in Frames)
      /\ LineOK(World) /\ Counted(World) /\ NoGoFailed(World)
      /\ \A f \in Members(queue) : f \in Frames
  BY WorldIs, MembersAreFrames DEF IInv, LineOK, LineType
<1>4. /\ batch' \in [Tokens -> BatchType]
      /\ \A c \in Tokens : IF c = b /\ batch[c].left > 0 /\ ~batch[c].failed
                           THEN batch'[c].failed /\ batch'[c].total = batch[c].total
                           ELSE batch'[c] = batch[c]
  <2>1. WithFailedIs(World, {b}, v)
    BY <1>3, FailedWorld, WorldIs
  <2> HIDE DEF v, b
  <2> QED BY <1>1, <2>1, WorldIs DEF WithFailedIs
<1> HIDE DEF v
<1>5. /\ queue' \in Seq(Frames) /\ InjectiveSeq(queue')
      /\ \A f : f \in Members(queue') <=> f \in Members(queue) /\ (b = 0 \/ f.token # b)
  <2>1. CASE b = 0
    BY <1>1, <1>3, <2>1
  <2>2. CASE b # 0
    <3>1. /\ Without(queue, Of(queue, b)) \in Seq(Frames)
          /\ InjectiveSeq(Without(queue, Of(queue, b)))
          /\ \A f : f \in Members(Without(queue, Of(queue, b)))
               <=> f \in Members(queue) /\ f \notin Of(queue, b)
      BY <1>3, WithoutLine
    <3>2. \A f \in Members(queue) : f \in Of(queue, b) <=> f.token = b
      BY DEF Of
    <3> QED BY <1>1, <2>2, <3>1, <3>2
  <2> QED BY <2>1, <2>2
<1>6. \* Nothing of a batch that is not failed is dropped.
      ASSUME NEW c \in Tokens, ~batch'[c].failed, c = b
      PROVE  \A s \in Slots : ~IsOut(World, c, s)
  <2>1. ~batch[c].failed /\ ~(batch[c].left > 0)
    BY <1>4, <1>6
  <2>2. batch[c].left \in Nat
    BY <1>3 DEF BatchType
  <2> QED BY <1>3, <2>1, <2>2, NoneOut, WorldIs
<1>7. /\ World'.queue = queue' /\ World'.wire = NoWire /\ World'.job = job
  BY <1>1 DEF World
<1>8. ASSUME NEW c \in Tokens, ~batch'[c].failed
      PROVE  /\ \A f \in Members(queue) : f.token = c => f \in Members(queue')
             /\ wire.wanted /\ wire.frame.token = c => wire.obeyed
             /\ Cardinality(Out(World', c)) <= batch'[c].left
  <2>1. ASSUME NEW f \in Members(queue), f.token = c PROVE f \in Members(queue')
    <3>1. f.train \in Slots
      BY <1>3 DEF Frames
    <3>2. c # b
      BY <1>6, <1>8, <2>1, <3>1, WorldIs DEF IsOut
    <3> QED BY <1>5, <2>1, <3>2
  <2>2. ~(wire.wanted /\ wire.frame.token = c)
    <3> SUFFICES ASSUME wire.wanted, b = c PROVE FALSE
      OBVIOUS
    <3>1. wire.frame.train \in Slots
      BY <1>3 DEF Frames
    <3> QED BY <1>6, <1>8, <3>1, WorldIs DEF IsOut
  <2>3. batch'[c] = batch[c] /\ ~batch[c].failed
    BY <1>4, <1>8
  <2>4. Out(World', c) \subseteq Out(World, c)
    BY <1>5, <1>7, WorldIs DEF Out, IsOut, NoWire
  <2>5. Cardinality(Out(World, c)) <= batch[c].left
    BY <1>3, <2>3, WorldIs DEF Counted
  <2>6. /\ Cardinality(Out(World, c)) \in Nat /\ Cardinality(Out(World', c)) \in Nat
        /\ Cardinality(Out(World', c)) <= Cardinality(Out(World, c))
    BY <2>4, OutIsFinite, FS_Subset
  <2>7. batch[c].left \in Nat
    BY <1>3 DEF BatchType
  <2>8. Cardinality(Out(World', c)) <= batch'[c].left
    BY <2>3, <2>5, <2>6, <2>7
  <2> QED BY <2>1, <2>2, <2>8
<1>9. \A f \in Members(queue') : f.speed = "go" /\ f.token # 0 => ~batch'[f.token].failed
  <2>1. \A f \in Members(queue') : f.token # 0 => f.token \in Tokens /\ f.token # b
    BY <1>3, <1>5 DEF Frames
  <2>2. \A f \in Members(queue') : f.speed = "go" /\ f.token # 0 => ~batch[f.token].failed
    BY <1>3, <1>5, WorldIs DEF NoGoFailed
  <2> QED BY <1>4, <2>1, <2>2
<1>10. \A c \in Tokens : batch'[c].total = batch[c].total /\ (batch[c].failed => batch'[c].failed)
  BY <1>4
<1>11. Freed
  BY <1>1, <1>2, <1>4, <1>5, <1>8, <1>9, <1>10 DEF Freed
<1>12. LineGoesOn
  BY <1>11, FreedOK
<1>13. asked => /\ call.is = "sent" /\ \A f \in Members(queue) : f.token # 0
  BY DEF IInv, CommandOK
<1>14. CallGoesOn
  <2>1. CASE ~asked
    BY <1>1, <2>1 DEF CallGoesOn, IInv, CallOK
  <2>2. CASE asked
    <3>1. call \in CallType /\ call # NoCall
      BY <1>13, <2>2 DEF IInv, CallOK, NoCall
    <3>2. call' = IF call.tries = 1 THEN [call EXCEPT !.is = "failed"]
                  ELSE [call EXCEPT !.tries = call.tries - 1, !.is = "again"]
      BY <1>1, <2>2 DEF CallMissed
    <3>3. call' \in CallType /\ call'.train = call.train /\ call'.speed = call.speed
          /\ call'.why = call.why /\ call'.is \in {"failed", "again"}
      <4>1. CASE call.tries = 1
        BY <3>1, <3>2, <4>1 DEF CallType
      <4>2. CASE call.tries # 1
        <5>1. call.tries \in Nat \ {0}
          BY <3>1 DEF CallType
        <5>2. call.tries - 1 \in Nat \ {0}
          BY <4>2, <5>1
        <5>3. call' = [call EXCEPT !.tries = call.tries - 1, !.is = "again"]
          BY <3>2, <4>2
        <5> QED BY <3>1, <5>2, <5>3 DEF CallType
      <4> QED BY <4>1, <4>2
    <3>4. call' # NoCall
      BY <3>3 DEF NoCall
    <3> QED BY <1>13, <2>2, <3>3, <3>4 DEF CallGoesOn
  <2> QED BY <2>1, <2>2
<1>15. CommandOK'
  <2>1. ~wire'.wanted
    BY <1>1 DEF NoWire
  <2>2. CASE ~asked
    BY <1>1, <1>5, <2>1, <2>2 DEF IInv, CommandOK
  <2>3. CASE asked
    BY <1>5, <1>13, <2>1, <2>3 DEF CommandOK
  <2> QED BY <2>2, <2>3
<1>16. WireOK'
  BY <1>1 DEF WireOK, NoWire, NoFrame
<1> QED BY <1>12, <1>14, <1>15, <1>16, LineKeepsInv

\* Trying a control command again keeps the invariant.
LEMMA SendAgainOK ==
  ASSUME IInv, SendAgain
  PROVE  IInv'
<1> DEFINE s == call.train
           why == call.why
           w == World
           v == WithCommand(World, call)
           d == AfterCommand(World, call)
<1>1. /\ call.is = "again" /\ batch' = v.batch /\ queue' = v.queue /\ call' = d
      /\ job' = job /\ pc' = pc /\ wire' = wire /\ lost' = lost /\ moving' = moving
  BY DEF SendAgain, CanOnly
<1>2. /\ call \in CallType /\ call # NoCall /\ s \in Slots /\ why \in Reasons
      /\ call.tries \in Nat \ {0} /\ call.speed = Told(why)
      /\ call = ItsCall(s, call.tries, why)
  <2>1. call \in CallType /\ call # NoCall /\ call.speed = Told(why)
    BY <1>1 DEF IInv, CallOK, NoCall
  <2> QED BY <1>1, <2>1 DEF CallType, Reasons, ItsCall
<1>3. Told(why) \in {"go", "stop", "turn"}
  BY ToldOne
<1>4. Calls(d, w, s, why)
  BY <1>2, ItCalls
<1>5. Quiet(World) /\ ~(wire.wanted /\ wire.frame.token = 0)
  BY <1>1, QuietNow
<1>6. WorldType(World) /\ LineOK(World)
  BY WorldIs DEF IInv
<1>7. Joined(w, v, s, Told(why))
  <2>1. call.train \in Slots /\ call.speed \in {"go", "stop", "turn"}
    BY <1>2, <1>3
  <2>2. Joined(World, WithCommand(World, call), call.train, call.speed)
    BY <1>5, <1>6, <2>1, CommandJoins
  <2> QED BY <1>2, <2>2
<1>8. GoCall(call, s) => Plain(job[s])
  BY <1>2 DEF IInv, CallOK, GoCall, TakingBack, Told
<1>9. \A x \in Slots : SlotOK(v, moving, x, GoCall(call, x))
  <2> SUFFICES ASSUME NEW x \in Slots PROVE SlotOK(v, moving, x, GoCall(call, x))
    OBVIOUS
  <2>1. GoCall(call, x) \in BOOLEAN
    BY DEF GoCall
  <2>2. SlotOK(World, moving, x, GoCall(call, x))
    BY DEF IInv
  <2>3. call.speed = "go" /\ call.train = x => GoCall(call, x) /\ Plain(World.job[x])
    BY <1>8, WorldIs DEF GoCall
  <2>4. call.train \in Slots /\ call.speed \in {"go", "stop", "turn"}
    BY <1>2, <1>3
  <2> HIDE DEF v
  <2>5. SlotOK(WithCommand(World, call), moving, x, GoCall(call, x))
    BY <1>5, <1>6, <2>1, <2>2, <2>3, <2>4, CommandSlots
  <2> QED BY <2>5 DEF v
<1> HIDE DEF v, d
<1>10. WorldType(v) /\ LineOK(v) /\ v.job = job /\ v.wire = wire
  BY <1>7, WorldIs DEF Joined
<1>11. /\ World'.job = v.job /\ World'.queue = v.queue /\ World'.wire = v.wire
       /\ World'.batch = v.batch /\ World'.got = 0
  BY <1>1, <1>10 DEF World
<1>12. LineOK(World') /\ OnlyStops(v, World') /\ \A x \in Slots : Undisturbed(v, World', x)
  <2>1. World'.job \in [Slots -> JobType] /\ World'.got \in Tokens \cup {0}
    BY <1>10, <1>11 DEF LineOK, LineType
  <2> QED BY <1>10, <1>11, <2>1, JobsOnly
<1>13. \A x \in Slots : SlotOK(World', moving', x, GoCall(call', x))
  <2> SUFFICES ASSUME NEW x \in Slots PROVE SlotOK(World', moving', x, GoCall(call', x))
    OBVIOUS
  <2>1. GoCall(call', x) <=> GoCall(call, x)
    BY <1>1, <1>2, <1>4 DEF GoCall, Calls
  <2>2. GoCall(call, x) \in BOOLEAN /\ GoCall(call', x) \in BOOLEAN
    BY DEF GoCall
  <2>3. SlotOK(World', moving, x, GoCall(call, x))
    BY <1>9, <1>10, <1>12, <2>2, SlotKept DEF LineOK
  <2> QED BY <1>1, <2>1, <2>2, <2>3
<1>14. WireOK'
  BY <1>1 DEF IInv, WireOK
<1>15. CommandOK'
  <2>1. \A f \in Members(queue') : f.token = 0 =>
          f = FrameTo(s, Told(why), 0, 1) /\ Taken(WithRoom(w)) < Room
    BY <1>1, <1>7 DEF Joined
  <2>2. \A f \in Members(queue') : f.token = 0 =>
          call'.is = "sent" /\ f.train = call'.train /\ f.speed = call'.speed
    BY <1>1, <1>4, <2>1 DEF Calls, FrameTo
  <2> QED BY <1>1, <1>5, <2>2 DEF CommandOK
<1>16. CallOK'
  <2>1. call' \in CallType /\ call'.speed = Told(call'.why)
    BY <1>1, <1>4 DEF Calls
  <2>2. call'.train = call.train /\ call'.why = call.why /\ call'.is # "done"
        /\ call'.speed = call.speed
    BY <1>1, <1>2, <1>4 DEF Calls
  <2>3. call.speed = "stop" => ~GoQueued(World', s)
    <3> SUFFICES ASSUME call.speed = "stop" PROVE ~GoQueued(World', s)
      OBVIOUS
    <3>1. ~GoQueued(World, s)
      BY <1>2 DEF IInv, CallOK
    <3> QED BY <1>2, <1>7, <1>11, <3>1 DEF Joined, GoQueued, FrameTo
  <2>4. pc'.at # "receive"
    BY <1>1, <1>2 DEF IInv, CallOK
  <2>5. call'.why \in TakingBack => pc'.at \in {"cancel", "remove"} /\ pc'.pos = call'.train
    BY <1>1, <2>2 DEF IInv, CallOK
  <2>6. call'.why \notin TakingBack => Plain(job'[call'.train])
    BY <1>1, <1>2, <2>2 DEF IInv, CallOK
  <2> QED BY <2>1, <2>2, <2>3, <2>4, <2>5, <2>6 DEF CallOK
<1>17. PcOK'
  <2>1. pc.seen = "none"
    BY <1>2 DEF IInv, PcOK
  <2> QED BY <1>1, <2>1 DEF IInv, PcOK
<1> QED BY <1>1, <1>12, <1>13, <1>14, <1>15, <1>16, <1>17 DEF IInv

-----------------------------------------------------------------------------
(* Jobs that fit the line.                                                 *)

\* A job that slot s may have while the line is as it is in w.
Fits(w, m, s, j) ==
  /\ Still(j) => ~Go(w, m, s) \/ Excused(j)
  /\ j.estop # 0 /\ (j.state = "braking" \/ (j.state = "failed" /\ j.retry))
       => StopOut(w, m, s, j.estop)
  /\ \A f \in Members(w.queue) :
       f.train = s /\ f.speed = "go" /\ f.token # 0 => j.state = "launching" /\ j.launch = f.token
  /\ j.removing => j.state = "stop unconfirmed"

KeepsJob(w, m, s, f) == f[s] = w.job[s] /\ SlotOK(w, m, s, FALSE)

FitsOrKeeps(w, m, f) == \A s \in Slots : KeepsJob(w, m, s, f) \/ Fits(w, m, s, f[s])

\* Jobs that fit the line, or are as they were, keep all slots sound.
LEMMA FittingJobs ==
  ASSUME NEW w, WorldType(w), LineOK(w), NEW f \in [Slots -> JobType], NEW m,
         FitsOrKeeps(w, m, f)
  PROVE  Fine(w, [w EXCEPT !.job = f], m)
<1> DEFINE v == [w EXCEPT !.job = f]
<1>1. /\ WorldType(v) /\ v.job = f
      /\ v.queue = w.queue /\ v.wire = w.wire /\ v.batch = w.batch /\ v.got = w.got
  BY JobsOK
<1> HIDE DEF v
<1>2. v.got \in Tokens \cup {0} /\ v.job \in [Slots -> JobType]
  BY <1>1 DEF LineOK, LineType
<1>3. LineOK(v) /\ OnlyStops(w, v)
  BY <1>1, <1>2, JobsOnly
<1>4. ASSUME NEW s \in Slots PROVE SlotOK(v, m, s, FALSE)
  <2>1. /\ Go(v, m, s) <=> Go(w, m, s)
        /\ \A b : StopOut(w, m, s, b) => StopOut(v, m, s, b)
    BY <1>1 DEF Go, GoSent, GoQueued, StopOut, BatchFailed
  <2>2. CASE f[s] = w.job[s] /\ SlotOK(w, m, s, FALSE)
    BY <1>1, <2>1, <2>2 DEF SlotOK, StillOK, StopOK, GoOK, RemovingOK
  <2>3. CASE Fits(w, m, s, f[s])
    BY <1>1, <2>1, <2>3 DEF Fits, SlotOK, StillOK, StopOK, GoOK, RemovingOK
  <2> QED BY <2>2, <2>3 DEF FitsOrKeeps, KeepsJob
<1> QED BY <1>1, <1>3, <1>4 DEF Fine, v

\* The same for one job.
LEMMA FittingJob ==
  ASSUME NEW w, WorldType(w), LineOK(w), NEW s \in Slots, NEW j \in JobType, NEW m,
         \A t \in Slots \ {s} : SlotOK(w, m, t, FALSE), Fits(w, m, s, j)
  PROVE  Fine(w, With(w, s, j), m)
<1> DEFINE f == [w.job EXCEPT ![s] = j]
<1>1. w.job \in [Slots -> JobType]
  BY DEF LineOK, LineType
<1>2. f \in [Slots -> JobType] /\ f[s] = j /\ \A t \in Slots : t # s => f[t] = w.job[t]
  BY <1>1
<1>3. With(w, s, j) = [w EXCEPT !.job = f]
  BY DEF With
<1> HIDE DEF f
<1>4. FitsOrKeeps(w, m, f)
  <2>1. \A t \in Slots \ {s} : KeepsJob(w, m, t, f)
    BY <1>2 DEF KeepsJob
  <2>2. Fits(w, m, s, f[s])
    BY <1>2
  <2> QED BY <2>1, <2>2 DEF FitsOrKeeps
<1> QED BY <1>2, <1>3, <1>4, FittingJobs

\* Two kinds of dispatcher state: no call is out, or one has come back.
LEMMA AtWork ==
  ASSUME IInv
  PROVE  /\ WorldType(World) /\ LineOK(World)
         /\ job \in [Slots -> JobType] /\ moving \in [Slots -> BOOLEAN]
         /\ call = NoCall => \A s \in Slots : SlotOK(World, moving, s, FALSE)
         /\ \A s \in Slots : call.train # s => SlotOK(World, moving, s, FALSE)
         /\ call = NoCall => Quiet(World)
<1>1. WorldType(World) /\ LineOK(World) /\ job \in [Slots -> JobType]
      /\ moving \in [Slots -> BOOLEAN]
  BY WorldIs DEF IInv, LineOK, LineType
<1>2. call = NoCall => call.train \notin Slots /\ call.is # "sent"
  BY SlotsAre DEF NoCall
<1>3. \A s \in Slots : call.train # s => ~GoCall(call, s)
  BY DEF GoCall
<1>4. \A s \in Slots : SlotOK(World, moving, s, GoCall(call, s))
  BY DEF IInv
<1>5. \A s \in Slots : call.train # s => SlotOK(World, moving, s, FALSE)
  BY <1>3, <1>4 DEF SlotOK, StillOK
<1>6. call = NoCall => Quiet(World)
  BY <1>2, QuietNow
<1> QED BY <1>1, <1>2, <1>5, <1>6

\* No go waits for a train unless it is being launched.
LEMMA NoGoWaits ==
  ASSUME NEW w, NEW m, NEW e, NEW s \in Slots, SlotOK(w, m, s, e), Quiet(w),
         w.job[s].state # "launching"
  PROVE  ~GoQueued(w, s)
BY DEF SlotOK, GoOK, GoQueued, Quiet

\* A train that stands.
LEMMA Stands ==
  ASSUME NEW w, NEW m, NEW s \in Slots, SlotOK(w, m, s, FALSE), Still(w.job[s]),
         ~Excused(w.job[s])
  PROVE  ~Go(w, m, s)
BY DEF SlotOK, StillOK

\* A train that stands may have any job that waits for no stop.
LEMMA FitsStanding ==
  ASSUME NEW w, NEW m, NEW s, NEW j, ~Go(w, m, s), ~j.removing,
         j.estop = 0 \/ j.state \notin {"braking", "failed"}
  PROVE  Fits(w, m, s, j)
BY DEF Fits, Go, GoQueued

\* While no call is out, all slots are sound.
LEMMA UnchangedIsFine ==
  ASSUME IInv, call = NoCall
  PROVE  Fine(World, World, moving)
BY AtWork, UnchangedIsWell DEF Fine, Well

-----------------------------------------------------------------------------
(* A pass.                                                                 *)

PassNames == {"tick", "tripped", "cancelled", "removed"}

\* The position a pass deals with has a slot, and its job is of the pass's
\* concern.
LEMMA InAPass ==
  ASSUME IInv, InPass, NEW n \in Ahead
  PROVE  /\ n \in Nat /\ Here(n) \in Slots /\ Due(World, pc.at, n)
         /\ pc.at \in PassNames /\ call = NoCall /\ pc.seen = "none"
         /\ \A pass : On(pass, n) /\ pass \notin AtOnce => Concerns(pass, job[Here(n)])
<1>1. pc.at \in PassNames /\ call = NoCall /\ pc.seen = "none"
  BY DEF InPass, PassNames
<1>2. n \in Positions(pc.at) /\ Due(World, pc.at, n)
  BY DEF Ahead
<1>3. Len(PassesOf(pc.at)) \in Nat
  <2>1. CASE pc.at = "tick"
    <3>1. PassesOf(pc.at) = TickPasses
      BY <2>1 DEF PassesOf
    <3>2. Len(TickPasses) = 12
      BY DEF TickPasses
    <3> QED BY <3>1, <3>2
  <2>2. CASE pc.at = "tripped"
    <3>1. PassesOf(pc.at) = <<"retries">>
      BY <2>2 DEF PassesOf
    <3>2. Len(<<"retries">>) = 1
      OBVIOUS
    <3> QED BY <3>1, <3>2
  <2>3. CASE pc.at = "cancelled"
    <3>1. PassesOf(pc.at) = <<"traffic", "survivors", "holds">>
      BY <2>3 DEF PassesOf
    <3>2. Len(<<"traffic", "survivors", "holds">>) = 3
      OBVIOUS
    <3> QED BY <3>1, <3>2
  <2>4. CASE pc.at = "removed"
    <3>1. PassesOf(pc.at) = <<"traffic", "survivors", "braking", "holds", "traffic">>
      BY <2>4 DEF PassesOf
    <3>2. Len(<<"traffic", "survivors", "braking", "holds", "traffic">>) = 5
      OBVIOUS
    <3> QED BY <3>1, <3>2
  <2> QED BY <1>1, <2>1, <2>2, <2>3, <2>4 DEF PassNames
<1>4. N \in Nat \ {0} /\ Slots = 1 .. N
  BY SlotsAre
<1>5. Len(PassesOf(pc.at)) * N \in Nat
  BY <1>3, <1>4
<1>6. n \in Nat \ {0}
  BY <1>2, <1>5 DEF Positions
<1>7. Here(n) \in Slots
  <2>1. (n - 1) % N \in 0 .. N - 1
    BY <1>4, <1>6, SMT
  <2> DEFINE r == (n - 1) % N
  <2>2. Here(n) = r + 1
    BY DEF Here
  <2> HIDE DEF r
  <2> QED BY <1>4, <2>1, <2>2 DEF r
<1>8. \A pass : On(pass, n) /\ pass \notin AtOnce => Concerns(pass, job[Here(n)])
  BY <1>2, WorldIs DEF Due, On
<1> QED BY <1>1, <1>2, <1>6, <1>7, <1>8

\* A step of a pass to a state with all slots sound keeps the invariant.
LEMMA StepOK ==
  ASSUME IInv, InPass, NEW n \in Ahead, NEW w, Fine(World, w, moving), Step(n, w)
  PROVE  IInv'
<1>1. n \in Nat /\ pc.at \in PassNames /\ call = NoCall /\ pc.seen = "none" /\ pc \in PcType
  BY InAPass DEF IInv, PcOK
<1>2. pc' = [pc EXCEPT !.pos = n, !.seen = "none"]
      /\ Becomes(w) /\ call' = call /\ lost' = lost /\ moving' = moving
  BY DEF Step
<1>3. pc' \in PcType /\ pc'.seen = "none" /\ pc'.at \notin {"cancel", "remove"}
  BY <1>1, <1>2 DEF PcType, PassNames
<1>4. call.is # "sent"
  BY <1>1 DEF NoCall
<1> QED BY <1>1, <1>2, <1>3, <1>4, Settles

\* So does a control command that a pass asks for.
LEMMA AskOK ==
  ASSUME IInv, InPass, NEW n \in Ahead, NEW s \in Slots,
         NEW tries \in Nat \ {0}, NEW why \in Reasons \ TakingBack,
         Ask(n, World, s, Told(why), tries, why), Plain(job[s]),
         Told(why) = "stop" => job[s].state # "launching"
  PROVE  IInv'
<1>1. n \in Nat /\ pc.at \in PassNames /\ call = NoCall
  BY InAPass
<1>2. Fine(World, World, moving)
  BY <1>1, UnchangedIsFine
<1>3. Quiet(World) /\ \A t \in Slots : SlotOK(World, moving, t, FALSE)
  BY <1>1, AtWork
<1>4. Told(why) = "stop" => ~GoQueued(World, s)
  BY <1>3, NoGoWaits, WorldIs
<1>5. Plain(World.job[s]) /\ pc.at # "receive" /\ pc.at \notin {"cancel", "remove"}
  BY <1>1, WorldIs DEF PassNames
<1> QED BY <1>1, <1>2, <1>4, <1>5, Asks

\* So does a job that fails.
LEMMA FaultOK ==
  ASSUME IInv, InPass, NEW n \in Ahead, Step(n, WithFailedJob(World, Here(n)))
  PROVE  IInv'
<1> DEFINE s == Here(n)
           v == WithFailedJob(World, s)
<1>1. s \in Slots /\ call = NoCall
  BY InAPass
<1>2. WorldType(World) /\ LineOK(World) /\ \A t \in Slots : SlotOK(World, moving, t, FALSE)
  BY <1>1, AtWork
<1> HIDE DEF s
<1>3. WorldType(v) /\ Well(World, v, moving) /\ SlotOK(v, moving, s, FALSE)
  BY <1>1, <1>2, WithFailedJobOK
<1> HIDE DEF v
<1>4. Fine(World, v, moving)
  <2>1. \A t \in Slots \ {s} : SlotOK(World, moving, t, FALSE)
    BY <1>2
  <2>2. \A t \in Slots \cap {s} : SlotOK(v, moving, t, FALSE)
    BY <1>3
  <2> QED BY <1>2, <1>3, <2>1, <2>2, WellIsFine
<1> QED BY <1>4, StepOK DEF v, s

\* A well-behaved call of the CAN server, or of what fails jobs.
LEMMA WellStep ==
  ASSUME IInv, InPass, NEW n \in Ahead, NEW v, WorldType(v), Well(World, v, moving), Step(n, v)
  PROVE  IInv'
<1>1. call = NoCall
  BY InAPass
<1> DEFINE T == {}
<1>2. LineOK(World) /\ \A t \in Slots \ T : SlotOK(World, moving, t, FALSE)
  BY <1>1, AtWork
<1>3. \A t \in Slots \cap T : SlotOK(v, moving, t, FALSE)
  OBVIOUS
<1> HIDE DEF T
<1>4. Fine(World, v, moving)
  BY <1>2, <1>3, WellIsFine
<1> QED BY <1>4, StepOK

\* So do jobs that fail one after the other.
LEMMA FailingJobsOK ==
  ASSUME IInv, InPass, NEW n \in Ahead, NEW S, S \subseteq Slots,
         Step(n, WithFailedJobs(World, S))
  PROVE  IInv'
<1> DEFINE v == WithFailedJobs(World, S)
<1>1. call = NoCall
  BY InAPass
<1>2. WorldType(World) /\ LineOK(World) /\ \A t \in Slots : SlotOK(World, moving, t, FALSE)
  BY <1>1, AtWork
<1>3. WorldType(v) /\ Well(World, v, moving)
  BY <1>2, WithFailedJobsOK
<1> HIDE DEF v
<1> QED BY <1>3, WellStep DEF v

\* What leads on from a state that only drops frames or adds stops leads on
\* from the one before.
LEMMA FineChain ==
  ASSUME NEW w, NEW v, NEW u, NEW m, OnlyStops(w, v), Fine(v, u, m)
  PROVE  Fine(w, u, m)
BY Chained DEF Fine

\* Queueing stops keeps all slots sound.
LEMMA FineStops ==
  ASSUME NEW w, WorldType(w), LineOK(w), NEW m, \A s \in Slots : SlotOK(w, m, s, FALSE),
         NEW S, S \subseteq Slots
  PROVE  /\ Fine(w, WithStops(w, S), m) /\ WithStops(w, S).job = w.job
         /\ StopsOnly(WithStops(w, S))
         /\ WithStops(w, S).got # 0 => Stopped(WithStops(w, S), S)
<1> DEFINE v == WithStops(w, S)
<1>1. /\ WorldType(v) /\ LineOK(v) /\ OnlyStops(w, v) /\ v.job = w.job
      /\ \A s \in Slots : Undisturbed(w, v, s)
      /\ StopsOnly(v)
      /\ v.got # 0 => Stopped(v, S)
  BY WithStopsOK
<1> HIDE DEF v
<1>2. \A s \in Slots : SlotOK(v, m, s, FALSE)
  BY <1>1, SlotKept DEF LineOK
<1>3. Fine(w, v, m)
  BY <1>1, <1>2 DEF Fine
<1> QED BY <1>1, <1>3 DEF v

\* A stop that has just been queued is what its job waits for.
LEMMA FitsStopped ==
  ASSUME NEW w, NEW m, NEW S, StopsOnly(w), Stopped(w, S), NEW s \in S, NEW j, j.estop = w.got,
         w.got # 0, j.state = "braking" \/ (j.state = "failed" /\ j.retry), ~j.removing
  PROVE  Fits(w, m, s, j)
<1>1. ~GoQueued(w, s)
  BY DEF StopsOnly, GoQueued
<1>2. StopOut(w, m, s, j.estop)
  BY <1>1 DEF StopOut, Stopped
<1>3. ~Still(j)
  BY DEF Still
<1> QED BY <1>1, <1>2, <1>3 DEF Fits, GoQueued

\* A stop whose batch is complete has been carried out.
LEMMA CompleteStops ==
  ASSUME IInv, NEW s \in Slots, SlotOK(World, moving, s, FALSE), Complete(job[s].estop),
         job[s].state = "braking" \/ (job[s].state = "failed" /\ job[s].retry)
  PROVE  ~Go(World, moving, s)
<1> DEFINE b == job[s].estop
<1>1. b \in Tokens /\ ~BatchFailed(World, b) /\ ~batch[b].failed /\ batch[b].left = 0
  <2>1. b # 0 /\ batch[b].total > 0 /\ batch[b].left = 0 /\ ~batch[b].failed
    BY DEF Complete
  <2>2. b \in Tokens
    BY <2>1, AtWork DEF JobType
  <2>3. batch[b].total \in Nat
    BY <2>2, WorldIs DEF IInv, LineOK, LineType, BatchType
  <2> HIDE DEF b
  <2> QED BY <2>1, <2>2, <2>3, WorldIs DEF BatchFailed
<1>2. ~IsOut(World, b, s)
  BY <1>1, NoneOut, WorldIs DEF IInv
<1>3. StopOut(World, moving, s, b)
  BY <1>1, SlotsAre, WorldIs DEF SlotOK, StopOK
<1> QED BY <1>1, <1>2, <1>3 DEF StopOut, IsOut, Go

\* In a pass.
LEMMA PassWorld ==
  ASSUME IInv, InPass
  PROVE  /\ call = NoCall /\ WorldType(World) /\ LineOK(World)
         /\ \A s \in Slots : SlotOK(World, moving, s, FALSE) /\ job[s] \in JobType
         /\ job \in [Slots -> JobType]
         /\ OnlyStops(World, World)
BY AtWork DEF InPass, OnlyStops

\* One job has changed.
LEMMA JobStep ==
  ASSUME IInv, InPass, NEW n \in Ahead, NEW s \in Slots, NEW j \in JobType,
         Fits(World, moving, s, j), Step(n, With(World, s, j))
  PROVE  IInv'
<1>1. Fine(World, With(World, s, j), moving)
  BY PassWorld, FittingJob
<1> QED BY <1>1, StepOK

\* A pass may give a train that stands another job.
LEMMA StandingStep ==
  ASSUME IInv, InPass, NEW n \in Ahead, NEW s \in Slots, NEW j \in JobType,
         ~Go(World, moving, s), ~j.removing, j.estop = 0 \/ j.state \notin {"braking", "failed"},
         Step(n, With(World, s, j))
  PROVE  IInv'
BY FitsStanding, JobStep

\* A job that stands gets another state.
LEMMA ToOK ==
  ASSUME IInv, InPass, NEW n \in Ahead, NEW s \in Slots, NEW state \in StateNames,
         ~Go(World, moving, s), job[s].state # "stop unconfirmed",
         state \notin {"braking", "failed"}, Step(n, To(s, state))
  PROVE  IInv'
<1> DEFINE j == [job[s] EXCEPT !.state = state]
<1>1. job[s] \in JobType /\ RemovingOK(World, s)
  BY PassWorld DEF SlotOK
<1>2. ~job[s].removing
  BY <1>1, WorldIs DEF RemovingOK
<1>3. j \in JobType /\ j.state = state /\ ~j.removing
  BY <1>1, <1>2 DEF JobType
<1>4. Step(n, With(World, s, j))
  BY DEF To
<1> HIDE DEF j
<1> QED BY <1>3, <1>4, StandingStep

-----------------------------------------------------------------------------
(* process_stop_retries.                                                   *)

\* process_stop_retries keeps the invariant.
LEMMA RetryStopsOK ==
  ASSUME IInv, InPass, NEW n \in Ahead, RetryStops(n)
  PROVE  IInv'
<1> DEFINE asked == {s \in Slots : Concerns("retries", job[s])}
           done == {s \in asked : StopDone(s)}
           again == {s \in asked \ done : StopMissed(s)}
           f1 == [s \in Slots |->
                    CASE s \in done  -> [job[s] EXCEPT !.estop = 0, !.retry = FALSE]
                      [] s \in again -> [job[s] EXCEPT !.estop = 0]
                      [] OTHER       -> job[s]]
           w1 == [World EXCEPT !.job = f1]
           w2 == WithStops(w1, again)
           f2 == [s \in Slots |-> IF s \in again THEN [w2.job[s] EXCEPT !.estop = w2.got]
                                  ELSE w2.job[s]]
           w3 == [w2 EXCEPT !.job = f2]
<1>1. IF again = {} THEN Step(n, w1) ELSE Step(n, w3)
  BY DEF RetryStops
<1>2. /\ done \subseteq Slots /\ again \subseteq Slots
      /\ \A s \in done : job[s].state = "failed" /\ job[s].retry /\ Complete(job[s].estop)
      /\ \A s \in again : job[s].state = "failed" /\ job[s].retry /\ s \notin done
  BY DEF Concerns, StopDone
<1>3. /\ \A s \in done : f1[s] = [job[s] EXCEPT !.estop = 0, !.retry = FALSE]
      /\ \A s \in again : f1[s] = [job[s] EXCEPT !.estop = 0]
      /\ \A s \in Slots \ (done \cup again) : f1[s] = job[s]
  BY <1>2
<1>4. DOMAIN f1 = Slots /\ f1 = [s \in Slots |-> f1[s]]
  OBVIOUS
<1> HIDE DEF asked, done, again, f1
<1>5. \A s \in Slots : SlotOK(World, moving, s, FALSE) /\ job[s] \in JobType
  BY PassWorld
<1>6. ASSUME NEW s \in done
      PROVE  f1[s] \in JobType /\ Fits(World, moving, s, f1[s])
  <2>1. s \in Slots /\ job[s] \in JobType /\ RemovingOK(World, s)
    BY <1>2, <1>5 DEF SlotOK
  <2>2. f1[s] \in JobType /\ f1[s].estop = 0 /\ (f1[s].removing <=> job[s].removing)
    <3>1. f1[s] = [job[s] EXCEPT !.estop = 0, !.retry = FALSE]
      BY <1>3
    <3> QED BY <2>1, <3>1 DEF JobType
  <2>3. ~job[s].removing
    BY <1>2, <2>1, WorldIs DEF RemovingOK
  <2>4. ~Go(World, moving, s)
    BY <1>2, <1>5, <2>1, CompleteStops
  <2> QED BY <2>2, <2>3, <2>4, FitsStanding
<1>7. ASSUME NEW s \in again
      PROVE  /\ f1[s] \in JobType /\ Fits(World, moving, s, f1[s])
             /\ f1[s].state = "failed" /\ f1[s].retry /\ ~f1[s].removing
  <2>1. s \in Slots /\ job[s] \in JobType /\ RemovingOK(World, s) /\ GoOK(World, s)
    BY <1>2, <1>5 DEF SlotOK
  <2>2. /\ f1[s] \in JobType /\ f1[s].estop = 0 /\ (f1[s].removing <=> job[s].removing)
        /\ f1[s].state = job[s].state /\ (f1[s].retry <=> job[s].retry)
    <3>1. f1[s] = [job[s] EXCEPT !.estop = 0]
      BY <1>3
    <3> QED BY <2>1, <3>1 DEF JobType
  <2>3. ~job[s].removing
    BY <1>2, <2>1, WorldIs DEF RemovingOK
  <2>4. Fits(World, moving, s, f1[s])
    BY <1>2, <2>1, <2>2, <2>3, WorldIs DEF Fits, Still, GoOK
  <2> QED BY <1>2, <2>2, <2>3, <2>4
<1>8. f1 \in [Slots -> JobType]
  <2>1. \A s \in Slots : f1[s] \in JobType
    BY <1>3, <1>5, <1>6, <1>7
  <2> QED BY <1>4, <2>1
<1>9. FitsOrKeeps(World, moving, f1)
  <2>1. \A s \in Slots \ (done \cup again) : KeepsJob(World, moving, s, f1)
    BY <1>3, <1>5, WorldIs DEF KeepsJob
  <2> QED BY <1>6, <1>7, <2>1 DEF FitsOrKeeps
<1>10. Fine(World, w1, moving)
  BY <1>8, <1>9, PassWorld, FittingJobs
<1>11. w1.job = f1
  BY PassWorld, JobsOK
<1> HIDE DEF w1
<1>12. CASE again = {}
  BY <1>1, <1>10, <1>12, StepOK
<1>13. CASE again # {}
  <2>1. WorldType(w1) /\ LineOK(w1) /\ \A s \in Slots : SlotOK(w1, moving, s, FALSE)
    BY <1>10 DEF Fine
  <2>2. /\ Fine(w1, w2, moving) /\ w2.job = f1 /\ StopsOnly(w2)
        /\ w2.got # 0 => Stopped(w2, again)
    BY <1>2, <1>11, <2>1, FineStops
  <2>3. \A s \in again : f2[s] = [f1[s] EXCEPT !.estop = w2.got]
    BY <1>2, <2>2
  <2>4. \A s \in Slots \ again : f2[s] = f1[s]
    BY <2>2
  <2>5. DOMAIN f2 = Slots /\ f2 = [s \in Slots |-> f2[s]]
    OBVIOUS
  <2> HIDE DEF f2, w2
  <2>6. WorldType(w2) /\ LineOK(w2) /\ \A s \in Slots : SlotOK(w2, moving, s, FALSE)
    BY <2>2 DEF Fine
  <2>7. w2.got \in Tokens \cup {0}
    BY <2>6 DEF LineOK, LineType
  <2>8. ASSUME NEW s \in again
        PROVE  f2[s] \in JobType /\ Fits(w2, moving, s, f2[s])
    <3>1. f1[s] \in JobType /\ f1[s].state = "failed" /\ f1[s].retry /\ ~f1[s].removing
      BY <1>7
    <3>2. /\ f2[s] \in JobType /\ f2[s].estop = w2.got /\ f2[s].state = "failed" /\ f2[s].retry
          /\ ~f2[s].removing
      BY <2>3, <2>7, <3>1 DEF JobType
    <3>3. CASE w2.got # 0
      BY <2>2, <3>2, <3>3, FitsStopped
    <3>4. CASE w2.got = 0
      <4>1. \A g \in Members(w2.queue) : g.speed # "go"
        BY <2>2 DEF StopsOnly
      <4> QED BY <3>2, <3>4, <4>1 DEF Fits, Still
    <3> QED BY <3>2, <3>3, <3>4
  <2>9. f2 \in [Slots -> JobType]
    <3>1. \A s \in Slots : f2[s] \in JobType
      BY <1>8, <2>4, <2>8
    <3> QED BY <2>5, <3>1
  <2>10. FitsOrKeeps(w2, moving, f2)
    <3>1. \A s \in Slots \ again : KeepsJob(w2, moving, s, f2)
      BY <2>2, <2>4, <2>6 DEF KeepsJob
    <3> QED BY <2>8, <3>1 DEF FitsOrKeeps
  <2>11. Fine(w2, w3, moving)
    BY <2>6, <2>9, <2>10, FittingJobs
  <2> HIDE DEF w3
  <2>12. OnlyStops(World, w1) /\ OnlyStops(w1, w2)
    BY <1>10, <2>2 DEF Fine
  <2>13. Fine(World, w3, moving)
    BY <2>11, <2>12, FineChain
  <2> QED BY <1>1, <1>13, <2>13, StepOK
<1> QED BY <1>12, <1>13

\* What a job's state tells in a pass.
LEMMA RunningJob ==
  ASSUME IInv, InPass, NEW s \in Slots, job[s].state \in {"running", "traffic hold", "reversing",
                                                          "preparing", "arrived", "stopped"}
  PROVE  Plain(job[s])
<1>1. RemovingOK(World, s)
  BY PassWorld DEF SlotOK
<1> QED BY <1>1, WorldIs DEF RemovingOK, Plain

\* In a pass, a job whose state says so stands.
LEMMA StandingJob ==
  ASSUME IInv, InPass, NEW s \in Slots, Still(job[s]), ~Excused(job[s])
  PROVE  ~Go(World, moving, s)
BY PassWorld, Stands, WorldIs

\* Every call is tried at least once.
LEMMA AttemptsAre ==
  Attempts \in Nat \ {0} /\ 1 \in Nat \ {0}
BY JobAssumption

\* A pass may stop trains that run for traffic.
LEMMA WithTrafficStopStep ==
  ASSUME IInv, InPass, NEW n \in Ahead, NEW S, S \subseteq Slots,
         \A s \in S : job[s].state = "running", Step(n, WithTrafficStop(World, S))
  PROVE  IInv'
<1>1. \A s \in S : ~World.job[s].removing
  BY RunningJob, WorldIs DEF Plain
<1>2. WorldType(WithTrafficStop(World, S)) /\ Well(World, WithTrafficStop(World, S), moving)
  BY <1>1, PassWorld, WithTrafficStopOK
<1> QED BY <1>2, WellStep

\* process_running_jobs keeps the invariant.
LEMMA RunningOK ==
  ASSUME IInv, InPass, NEW n \in Ahead, Running(n)
  PROVE  IInv'
<1>1. Here(n) \in Slots
  BY InAPass
<1>2. CASE RunFails(n)
  <2>1. CASE Fault(n, {"running", "braking"})
    BY <2>1, FaultOK DEF Fault
  <2>2. CASE Step(n, WithFailedJobs(World, {s \in Slots : Is(s, {"running", "braking"})}))
    <3> DEFINE S == {s \in Slots : Is(s, {"running", "braking"})}
    <3>1. S \subseteq Slots /\ Step(n, WithFailedJobs(World, S))
      BY <2>2
    <3> HIDE DEF S
    <3> QED BY <3>1, FailingJobsOK
  <2> QED BY <1>2, <2>1, <2>2 DEF RunFails
<1>3. CASE RunStops(n)
  <2> PICK why \in {"destination", "reversal"} :
             Ask(n, World, Here(n), "stop", Attempts, why)
    BY <1>3 DEF RunStops
  <2>1. why \in Reasons \ TakingBack /\ Told(why) = "stop"
    BY DEF Reasons, TakingBack, Told
  <2>2. job[Here(n)].state = "running"
    BY <1>3 DEF RunStops, Is
  <2>3. Plain(job[Here(n)])
    BY <1>1, <2>2, RunningJob
  <2>4. Ask(n, World, Here(n), Told(why), Attempts, why)
    BY <2>1
  <2> QED BY <1>1, <2>1, <2>2, <2>3, <2>4, AskOK, AttemptsAre
<1>4. CASE RunHolds(n)
  <2> DEFINE S == {Here(n)}
  <2>1. S \subseteq Slots /\ (\A s \in S : job[s].state = "running")
        /\ Step(n, WithTrafficStop(World, S))
    BY <1>1, <1>4 DEF RunHolds, Is
  <2> HIDE DEF S
  <2> QED BY <2>1, WithTrafficStopStep
<1> QED BY <1>2, <1>3, <1>4 DEF Running

\* process_traffic_safety and process_authority_holds keep the invariant.
LEMMA TrafficOK ==
  ASSUME IInv, InPass, NEW n \in Ahead, Traffic(n)
  PROVE  IInv'
<1>1. Here(n) \in Slots
  BY InAPass
<1>2. CASE TrafficStops(n)
  <2> PICK S \in SUBSET {s \in Slots : Is(s, {"running"}) /\ s >= Here(n)} :
             Step(n, WithTrafficStop(World, S))
    BY <1>2 DEF TrafficStops
  <2>1. S \subseteq Slots /\ \A s \in S : job[s].state = "running"
    BY DEF Is
  <2> QED BY <2>1, WithTrafficStopStep
<1>3. CASE Resume(n)
  <2>1. CASE Ask(n, World, Here(n), "go", Attempts, "resume")
    <3> DEFINE why == "resume"
    <3>1. why \in Reasons \ TakingBack /\ Told(why) = "go"
      BY DEF Reasons, TakingBack, Told
    <3>2. job[Here(n)].state = "traffic hold"
      BY <1>3 DEF Resume, Is
    <3>3. Plain(job[Here(n)])
      BY <1>1, <3>2, RunningJob
    <3>4. Ask(n, World, Here(n), Told(why), Attempts, why)
      BY <2>1, <3>1
    <3> HIDE DEF why
    <3> QED BY <1>1, <3>1, <3>3, <3>4, AskOK, AttemptsAre
  <2>2. CASE Fault(n, {"traffic hold"})
    BY <2>2, FaultOK DEF Fault
  <2> QED BY <1>3, <2>1, <2>2 DEF Resume
<1>4. CASE ResumeLater(n)
  <2>1. job[Here(n)].state = "traffic hold" /\ Step(n, To(Here(n), "preparing"))
    BY <1>4 DEF ResumeLater, Is
  <2>2. ~Go(World, moving, Here(n))
    BY <1>1, <2>1, StandingJob DEF Still, Excused
  <2>3. "preparing" \in StateNames
    BY DEF StateNames
  <2> QED BY <1>1, <2>1, <2>2, <2>3, ToOK
<1> QED BY <1>2, <1>3, <1>4 DEF Traffic

\* process_launching_jobs keeps the invariant.
LEMMA LaunchingOK ==
  ASSUME IInv, InPass, NEW n \in Ahead, Launching(n)
  PROVE  IInv'
<1> DEFINE s == Here(n)
<1>1. s \in Slots /\ job[s] \in JobType /\ SlotOK(World, moving, s, FALSE)
  BY InAPass, PassWorld
<1>2. n \in Nat /\ call = NoCall
  BY InAPass
<1>3. CASE LaunchFails(n)
  <2> DEFINE b == job[s].launch
             v == WithFailedWave(World, b)
  <2>1. b \in Tokens \cup {0} /\ Step(n, v)
    BY <1>1, <1>3 DEF LaunchFails, JobType
  <2> HIDE DEF b
  <2>2. WorldType(v) /\ Well(World, v, moving)
    BY <2>1, PassWorld, WithFailedWaveOK
  <2> HIDE DEF v
  <2> QED BY <2>1, <2>2, WellStep
<1>4. CASE LaunchWaits(n)
  <2>1. Step(n, World)
    BY <1>4 DEF LaunchWaits, NotYet
  <2> QED BY <1>2, <2>1, UnchangedIsFine, StepOK
<1>5. CASE LaunchConfirmed(n)
  <2>1. job[s].state = "launching"
    <3>1. Concerns("launching", job[s])
      BY <1>5, InAPass DEF LaunchConfirmed, AtOnce
    <3> QED BY <3>1 DEF Concerns
  <2> DEFINE j == [job[s] EXCEPT !.state = "running"]
  <2>2. j \in JobType /\ j.state = "running" /\ (j.removing <=> job[s].removing)
    BY <1>1 DEF JobType, StateNames
  <2>3. Step(n, With(World, s, j))
    BY <1>5 DEF LaunchConfirmed, To
  <2> HIDE DEF j
  <2>4. \A f \in Members(queue) : ~(f.token = job[s].launch /\ f.train = s)
    BY <1>5 DEF LaunchConfirmed, Confirmed, Members
  <2>5. GoOK(World, s) /\ RemovingOK(World, s)
    BY <1>1 DEF SlotOK
  <2>6. ~j.removing
    BY <2>1, <2>2, <2>5, WorldIs DEF RemovingOK
  <2>7. Fits(World, moving, s, j)
    BY <2>2, <2>4, <2>5, <2>6, WorldIs DEF Fits, GoOK, Still
  <2> HIDE DEF s
  <2> QED BY <1>1, <2>2, <2>3, <2>7, JobStep
<1>6. CASE Launched(n)
  <2> DEFINE b == job[s].launch
             W == WaveOf(World, b)
             f == [t \in Slots |-> IF t \in W THEN [job[t] EXCEPT !.launch = 0] ELSE job[t]]
  <2>1. CASE WaveComplete(b)
    <3>1. Step(n, [World EXCEPT !.job = f])
      BY <1>6, <2>1 DEF Launched
    <3>2. \A t \in W : t \in Slots /\ job[t].state = "running"
      BY <2>1 DEF WaveComplete, WaveOf
    <3>3. DOMAIN f = Slots /\ f = [t \in Slots |-> f[t]]
      OBVIOUS
    <3>4. \A t \in W : f[t] = [job[t] EXCEPT !.launch = 0]
      BY <3>2
    <3>5. \A t \in Slots \ W : f[t] = job[t]
      OBVIOUS
    <3> HIDE DEF f, W, b
    <3>6. ASSUME NEW t \in W
          PROVE  f[t] \in JobType /\ Fits(World, moving, t, f[t])
      <4>1. t \in Slots /\ job[t] \in JobType /\ SlotOK(World, moving, t, FALSE)
        BY <3>2, PassWorld
      <4>2. f[t] = [job[t] EXCEPT !.launch = 0]
        BY <3>4
      <4>3. f[t] \in JobType /\ f[t].state = job[t].state /\ (f[t].removing <=> job[t].removing)
        BY <4>1, <4>2 DEF JobType
      <4>4. f[t].state = "running" /\ job[t].state = "running"
        BY <3>2, <4>3
      <4>5. ~f[t].removing
        BY <4>1, <4>3, <4>4, WorldIs DEF SlotOK, RemovingOK
      <4> QED BY <4>1, <4>3, <4>4, <4>5, WorldIs DEF Fits, SlotOK, GoOK, Still
    <3>7. f \in [Slots -> JobType]
      <4>1. \A t \in Slots : f[t] \in JobType
        BY <3>5, <3>6, PassWorld
      <4> QED BY <3>3, <4>1
    <3>8. FitsOrKeeps(World, moving, f)
      <4>1. \A t \in Slots \ W : KeepsJob(World, moving, t, f)
        BY <3>5, PassWorld, WorldIs DEF KeepsJob
      <4> QED BY <3>6, <4>1 DEF FitsOrKeeps
    <3>9. Fine(World, [World EXCEPT !.job = f], moving)
      BY <3>7, <3>8, PassWorld, FittingJobs
    <3> QED BY <3>1, <3>9, StepOK
  <2>2. CASE ~WaveComplete(b)
    <3>1. Step(n, World)
      BY <1>6, <2>2 DEF Launched, NotYet
    <3> QED BY <1>2, <3>1, UnchangedIsFine, StepOK
  <2> QED BY <2>1, <2>2
<1> QED BY <1>3, <1>4, <1>5, <1>6 DEF Launching

\* What the passes over preparing and waiting jobs find.
LEMMA PassConcerns ==
  ASSUME IInv, InPass, NEW n \in Ahead
  PROVE  /\ On("preparing", n) => job[Here(n)].state = "preparing"
         /\ On("waiting", n) => job[Here(n)].state = "waiting"
<1>1. \A pass : On(pass, n) /\ pass \notin AtOnce => Concerns(pass, job[Here(n)])
  BY InAPass
<1>2. On("preparing", n) => job[Here(n)].state = "preparing"
  <2>1. On("preparing", n) => Concerns("preparing", job[Here(n)])
    BY <1>1 DEF AtOnce
  <2> QED BY <2>1 DEF Concerns
<1>3. On("waiting", n) => job[Here(n)].state = "waiting"
  <2>1. On("waiting", n) => Concerns("waiting", job[Here(n)])
    BY <1>1 DEF AtOnce
  <2> QED BY <2>1 DEF Concerns
<1> QED BY <1>2, <1>3

\* Waiting for a queued stop, and repeating it, keeps the invariant.
LEMMA AwaitStopOK ==
  ASSUME IInv, InPass, NEW n \in Ahead, AwaitStop(n)
  PROVE  IInv'
<1> DEFINE s == Here(n)
           T == {s}
           w == WithStops(World, T)
           v == With(w, s, [w.job[s] EXCEPT !.estop = w.got])
<1>1. s \in Slots /\ job[s] \in JobType /\ SlotOK(World, moving, s, FALSE) /\ call = NoCall
  BY InAPass, PassWorld
<1>2. /\ job[s].state = "braking" /\ job[s].estop # 0
      /\ IF Complete(job[s].estop) THEN Step(n, Unstopped(s))
         ELSE IF Pending(job[s].estop, batch) THEN Step(n, World)
         ELSE Step(n, IF w.got = 0 THEN w ELSE v)
  BY DEF AwaitStop, Is, StopKnown, NotYet
<1>3. ~job[s].removing
  BY <1>1, <1>2, WorldIs DEF SlotOK, RemovingOK
<1> HIDE DEF s
<1>4. CASE Complete(job[s].estop)
  <2> DEFINE j == [job[s] EXCEPT !.estop = 0]
  <2>1. ~Go(World, moving, s)
    BY <1>1, <1>2, <1>4, CompleteStops
  <2>2. j \in JobType /\ (j.removing <=> job[s].removing) /\ j.estop = 0
    BY <1>1 DEF JobType
  <2>3. Step(n, With(World, s, j))
    BY <1>2, <1>4 DEF Unstopped
  <2> HIDE DEF j
  <2> QED BY <1>1, <1>3, <2>1, <2>2, <2>3, StandingStep
<1>5. CASE ~Complete(job[s].estop) /\ Pending(job[s].estop, batch)
  BY <1>1, <1>2, <1>5, UnchangedIsFine, StepOK
<1>6. CASE ~Complete(job[s].estop) /\ ~Pending(job[s].estop, batch)
  <2>1. Step(n, IF w.got = 0 THEN w ELSE v)
    BY <1>2, <1>6
  <2>2. T \subseteq Slots /\ s \in T
    BY <1>1
  <2> HIDE DEF T
  <2>3. /\ Fine(World, w, moving) /\ w.job = World.job /\ StopsOnly(w)
        /\ w.got # 0 => Stopped(w, T)
    BY <2>2, PassWorld, FineStops
  <2> HIDE DEF w
  <2>4. CASE w.got = 0
    <3>1. Step(n, w)
      BY <2>1, <2>4
    <3> QED BY <2>3, <3>1, StepOK
  <2>5. CASE w.got # 0
    <3> DEFINE j == [w.job[s] EXCEPT !.estop = w.got]
    <3>1. /\ WorldType(w) /\ LineOK(w) /\ OnlyStops(World, w) /\ w.got \in Tokens \cup {0}
          /\ \A t \in Slots \ {s} : SlotOK(w, moving, t, FALSE)
      BY <2>3 DEF Fine, LineOK, LineType
    <3>2. j \in JobType /\ (j.removing <=> job[s].removing) /\ j.estop = w.got
          /\ j.state = "braking"
      <4>1. w.job[s] = job[s]
        BY <2>3, WorldIs
      <4> QED BY <1>1, <1>2, <3>1, <4>1 DEF JobType
    <3>3. Step(n, With(w, s, j))
      BY <2>1, <2>5
    <3> HIDE DEF j
    <3>4. Fits(w, moving, s, j)
      BY <1>3, <2>2, <2>3, <2>5, <3>2, FitsStopped
    <3>5. Fine(w, With(w, s, j), moving)
      BY <1>1, <3>1, <3>2, <3>4, FittingJob
    <3>6. Fine(World, With(w, s, j), moving)
      BY <3>1, <3>5, FineChain
    <3> QED BY <3>3, <3>6, StepOK
  <2> QED BY <2>4, <2>5
<1> QED BY <1>4, <1>5, <1>6

\* The pass has a train set going or turned round.
LEMMA AsksFor ==
  ASSUME IInv, InPass, NEW n \in Ahead, NEW why \in {"correct", "relaunch", "turn", "turn first",
                                                     "retarget"},
         NEW tries \in Nat \ {0}, Ask(n, World, Here(n), Told(why), tries, why),
         \/ job[Here(n)].state \in {"traffic hold", "reversing", "preparing", "arrived", "stopped"}
         \/ job[Here(n)].state = "braking" /\ job[Here(n)].estop = 0
  PROVE  IInv'
<1>1. Here(n) \in Slots
  BY InAPass
<1>2. RemovingOK(World, Here(n))
  BY <1>1, PassWorld DEF SlotOK
<1>3. Plain(job[Here(n)])
  BY <1>2, WorldIs DEF RemovingOK, Plain
<1>4. why \in Reasons \ TakingBack /\ Told(why) # "stop"
  BY DEF Reasons, TakingBack, Told
<1> QED BY <1>1, <1>3, <1>4, AskOK

\* The train of the pass stands: its job may become any that rests.
LEMMA StandsHere ==
  ASSUME IInv, InPass, NEW n \in Ahead, NEW state \in StateNames,
         \/ Stopping(Here(n)) \/ Is(Here(n), {"traffic hold", "cancel braking", "waiting", "arrived", "stopped"})
         \/ Is(Here(n), {"preparing"}) /\ ~job[Here(n)].rewound,
         state \notin {"braking", "failed"}, Step(n, To(Here(n), state))
  PROVE  IInv'
<1>1. Here(n) \in Slots /\ job[Here(n)].state # "stop unconfirmed"
  BY InAPass DEF Stopping, Is
<1>2. ~Go(World, moving, Here(n))
  BY <1>1, StandingJob DEF Still, Excused, Stopping, Is
<1> QED BY <1>1, <1>2, ToOK

\* A correction of the end of the way keeps the invariant.
LEMMA CorrectsOK ==
  ASSUME IInv, InPass, NEW n \in Ahead, Corrects(n)
  PROVE  IInv'
<1>1. Here(n) \in Slots
  BY InAPass
<1>2. Stopping(Here(n)) \/ (job[Here(n)].state = "preparing" /\ ~job[Here(n)].rewound)
  BY PassConcerns DEF Corrects
<1>3. CASE Ask(n, World, Here(n), "go", Attempts, "correct")
  <2> DEFINE why == "correct"
  <2>1. why \in {"correct", "relaunch", "turn", "turn first", "retarget"} /\ Told(why) = "go"
    BY DEF Told
  <2>2. Ask(n, World, Here(n), Told(why), Attempts, why)
    BY <1>3, <2>1
  <2> HIDE DEF why
  <2> QED BY <1>2, <2>1, <2>2, AsksFor, AttemptsAre DEF Stopping
<1>4. CASE \E state \in {"preparing", "traffic hold"} : Step(n, To(Here(n), state))
  <2> PICK state \in {"preparing", "traffic hold"} : Step(n, To(Here(n), state))
    BY <1>4
  <2>1. state \in StateNames /\ state \notin {"braking", "failed"}
    BY DEF StateNames
  <2>2. \/ Stopping(Here(n)) \/ Is(Here(n), {"traffic hold", "cancel braking", "waiting", "arrived", "stopped"})
        \/ Is(Here(n), {"preparing"}) /\ ~job[Here(n)].rewound
    BY <1>2 DEF Is
  <2> QED BY <2>1, <2>2, StandsHere
<1> QED BY <1>3, <1>4 DEF Corrects

\* restage_after_localization keeps the invariant.
LEMMA RestagesOK ==
  ASSUME IInv, InPass, NEW n \in Ahead, Restages(n)
  PROVE  IInv'
<1> DEFINE j == [NoJob EXCEPT !.state = "waiting"]
<1>1. Here(n) \in Slots /\ Stopping(Here(n)) /\ Step(n, With(World, Here(n), j))
  BY InAPass DEF Restages
<1>2. ~Go(World, moving, Here(n))
  BY <1>1, StandingJob DEF Still, Excused, Stopping
<1>3. j \in JobType /\ ~j.removing /\ j.estop = 0
  BY DEF NoJob, JobType, StateNames
<1> HIDE DEF j
<1> QED BY <1>1, <1>2, <1>3, StandingStep

\* process_braking_and_reversing keeps the invariant.
LEMMA BrakesOK ==
  ASSUME IInv, InPass, NEW n \in Ahead, Brakes(n)
  PROVE  IInv'
<1>1. CASE AwaitStop(n)
  BY <1>1, AwaitStopOK
<1>2. CASE BrakingFails(n)
  BY <1>2, FaultOK DEF BrakingFails, Fault
<1>3. CASE Corrects(n)
  BY <1>3, CorrectsOK
<1>4. CASE Restages(n)
  BY <1>4, RestagesOK
<1>5. CASE Turn(n)
  <2> DEFINE why == "turn"
  <2>1. why \in {"correct", "relaunch", "turn", "turn first", "retarget"} /\ Told(why) = "turn"
    BY DEF Told
  <2>2. Ask(n, World, Here(n), Told(why), 1, why) /\ job[Here(n)].state = "reversing"
    BY <1>5, <2>1 DEF Turn, Is
  <2> HIDE DEF why
  <2> QED BY <2>1, <2>2, AsksFor, AttemptsAre
<1>6. CASE Relaunch(n)
  <2> DEFINE why == "relaunch"
  <2>1. why \in {"correct", "relaunch", "turn", "turn first", "retarget"} /\ Told(why) = "go"
    BY DEF Told
  <2>2. Ask(n, World, Here(n), Told(why), Attempts, why) /\ job[Here(n)].state = "reversing"
    BY <1>6, <2>1 DEF Relaunch, Is
  <2> HIDE DEF why
  <2> QED BY <2>1, <2>2, AsksFor, AttemptsAre
<1>7. CASE \/ Arrives(n) \/ Uncertain(n) \/ HeldForTraffic(n) \/ AtLegEnd(n) \/ CancelSettled(n)
  <2>1. \E state \in {"arrived", "stop unconfirmed", "traffic hold", "reversing", "stopped"} :
          Step(n, To(Here(n), state))
    BY <1>7 DEF Arrives, Uncertain, HeldForTraffic, AtLegEnd, CancelSettled
  <2> PICK state \in {"arrived", "stop unconfirmed", "traffic hold", "reversing", "stopped"} :
             Step(n, To(Here(n), state))
    BY <2>1
  <2>2. state \in StateNames /\ state \notin {"braking", "failed"}
    BY DEF StateNames
  <2>3. Stopping(Here(n)) \/ Is(Here(n), {"traffic hold", "cancel braking", "waiting", "arrived", "stopped"})
    BY <1>7 DEF Arrives, Uncertain, HeldForTraffic, AtLegEnd, CancelSettled, Is
  <2> QED BY <2>2, <2>3, StandsHere
<1> QED BY <1>1, <1>2, <1>3, <1>4, <1>5, <1>6, <1>7 DEF Brakes

\* Between preparing and ready a job may go to and fro.
LEMMA FitsReady ==
  ASSUME NEW w, NEW m, NEW s \in Slots, SlotOK(w, m, s, FALSE), w.job[s] \in JobType,
         w.job[s].state \in {"preparing", "ready"}, NEW state \in {"preparing", "ready"}
  PROVE  /\ [w.job[s] EXCEPT !.state = state] \in JobType
         /\ Fits(w, m, s, [w.job[s] EXCEPT !.state = state])
<1> DEFINE j == [w.job[s] EXCEPT !.state = state]
<1>1. /\ j \in JobType /\ j.state = state /\ (j.removing <=> w.job[s].removing)
      /\ (j.rewound <=> w.job[s].rewound)
  BY DEF JobType, StateNames
<1> HIDE DEF j
<1>2. ~j.removing
  BY <1>1 DEF SlotOK, RemovingOK
<1>3. Go(w, m, s) => Excused(j)
  BY <1>1 DEF SlotOK, StillOK, Still, Excused
<1>4. Fits(w, m, s, j)
  BY <1>1, <1>2, <1>3 DEF SlotOK, GoOK, Fits
<1> QED BY <1>1, <1>4 DEF j

\* A job may go between preparing and ready.
LEMMA ReadyStep ==
  ASSUME IInv, InPass, NEW n \in Ahead, job[Here(n)].state \in {"preparing", "ready"},
         NEW state \in {"preparing", "ready"}, Step(n, To(Here(n), state))
  PROVE  IInv'
<1> DEFINE s == Here(n)
           j == [job[s] EXCEPT !.state = state]
<1>1. s \in Slots /\ job[s] \in JobType /\ SlotOK(World, moving, s, FALSE)
  BY InAPass, PassWorld
<1>2. Step(n, With(World, s, j))
  BY DEF To
<1> HIDE DEF s
<1>3. j \in JobType /\ Fits(World, moving, s, j)
  <2>1. World.job[s] = job[s] /\ job[s].state \in {"preparing", "ready"}
    BY WorldIs DEF s
  <2> QED BY <1>1, <2>1, FitsReady
<1> HIDE DEF j
<1> QED BY <1>1, <1>2, <1>3, JobStep

\* Some that were ready prepare anew.
LEMMA ApplyOK ==
  ASSUME IInv, InPass, NEW back, back \subseteq Slots, \A s \in back : job[s].state = "ready"
  PROVE  Fine(World, Apply(World, back, "preparing"), moving)
<1> DEFINE f == [s \in Slots |-> IF s \in back THEN [job[s] EXCEPT !.state = "preparing"]
                                 ELSE job[s]]
<1>1. Apply(World, back, "preparing") = [World EXCEPT !.job = f]
  BY WorldIs DEF Apply
<1>2. DOMAIN f = Slots /\ f = [s \in Slots |-> f[s]]
  OBVIOUS
<1>3. \A s \in back : f[s] = [World.job[s] EXCEPT !.state = "preparing"]
  BY WorldIs
<1>4. \A s \in Slots \ back : f[s] = job[s]
  OBVIOUS
<1> HIDE DEF f
<1>5. ASSUME NEW s \in back
      PROVE  f[s] \in JobType /\ Fits(World, moving, s, f[s])
  <2>1. s \in Slots /\ World.job[s] \in JobType /\ SlotOK(World, moving, s, FALSE)
        /\ World.job[s].state = "ready"
    BY PassWorld, WorldIs
  <2>2. "preparing" \in {"preparing", "ready"}
    OBVIOUS
  <2>3. /\ [World.job[s] EXCEPT !.state = "preparing"] \in JobType
        /\ Fits(World, moving, s, [World.job[s] EXCEPT !.state = "preparing"])
    BY <2>1, <2>2, FitsReady
  <2> QED BY <1>3, <2>3
<1>6. f \in [Slots -> JobType]
  <2>1. \A s \in Slots : f[s] \in JobType
    BY <1>4, <1>5, PassWorld
  <2> QED BY <1>2, <2>1
<1>7. FitsOrKeeps(World, moving, f)
  <2>1. \A s \in Slots \ back : KeepsJob(World, moving, s, f)
    BY <1>4, PassWorld, WorldIs DEF KeepsJob
  <2> QED BY <1>5, <2>1 DEF FitsOrKeeps
<1> QED BY <1>1, <1>6, <1>7, PassWorld, FittingJobs

\* Failing jobs, from a state that is fine.
LEMMA FineFails ==
  ASSUME NEW x, NEW w, NEW m, Fine(x, w, m), NEW S, S \subseteq Slots
  PROVE  Fine(x, WithFailedJobs(w, S), m)
<1> DEFINE v == WithFailedJobs(w, S)
           T == {}
<1>1. WorldType(w) /\ LineOK(w) /\ OnlyStops(x, w) /\ \A s \in Slots \ T : SlotOK(w, m, s, FALSE)
  BY DEF Fine
<1>2. \A s \in Slots \cap T : SlotOK(v, m, s, FALSE)
  OBVIOUS
<1>3. WorldType(v) /\ Well(w, v, m)
  BY <1>1, WithFailedJobsOK
<1> HIDE DEF v, T
<1>4. Fine(w, v, m)
  BY <1>1, <1>2, <1>3, WellIsFine
<1> QED BY <1>1, <1>4, FineChain DEF v

\* The launch: the jobs of a batch of gos that has been queued.
LaunchedJob(j, b) ==
  [j EXCEPT !.state = "launching", !.launch = b, !.rewound = FALSE]

\* The jobs f are those of v but for the launch of S.
AreLaunched(v, f, S) ==
  /\ f \in [Slots -> JobType]
  /\ \A s \in Slots \ S : f[s] = v.job[s]
  /\ \A s \in S : /\ f[s].state = "launching" /\ f[s].launch = v.got
                  /\ (f[s].removing <=> v.job[s].removing)

\* A state that is right.
Right(w, m) ==
  WorldType(w) /\ LineOK(w) /\ \A s \in Slots : SlotOK(w, m, s, FALSE)

AllReady(w, S) == \A s \in S : s \in Slots /\ w.job[s].state = "ready"

\* The state with other jobs.
WithJobs(v, f) == [v EXCEPT !.job = f]

\* Jobs that are told of the batch of gos just queued for them are sound.
LEMMA LaunchedSlots ==
  ASSUME NEW w, NEW m, Right(w, m), NEW S, AllReady(w, S),
         NEW v, WorldType(v), Batched(w, v, S, "go", 0), NEW f, AreLaunched(v, f, S)
  PROVE  /\ Right(WithJobs(v, f), m)
         /\ WithJobs(v, f).queue = v.queue /\ WithJobs(v, f).wire = v.wire
<1> DEFINE u == [v EXCEPT !.job = f]
<1>1. /\ WorldType(w) /\ LineOK(w) /\ \A s \in Slots : SlotOK(w, m, s, FALSE)
      /\ \A s \in S : s \in Slots /\ w.job[s].state = "ready"
  BY DEF Right, AllReady
<1>2. /\ f \in [Slots -> JobType]
      /\ \A s \in Slots \ S : f[s] = v.job[s]
      /\ \A s \in S : /\ f[s].state = "launching" /\ f[s].launch = v.got
                      /\ (f[s].removing <=> v.job[s].removing)
  BY DEF AreLaunched
<1>3. /\ WorldType(u) /\ u.job = f
      /\ u.queue = v.queue /\ u.wire = v.wire /\ u.batch = v.batch /\ u.got = v.got
  BY JobsOK
<1> HIDE DEF u
<1>4. RankOf("go") = 0 /\ S \subseteq Slots
  BY <1>1 DEF RankOf
<1>5. LineOK(v) /\ \A s \in Slots : Undisturbed(w, v, s)
  BY <1>1, <1>4, BatchedLine
<1>6. LineOK(u)
  <2>1. u.job \in [Slots -> JobType] /\ u.got \in Tokens \cup {0}
    BY <1>2, <1>3, <1>5 DEF LineOK, LineType
  <2> QED BY <1>3, <1>5, <2>1, JobsOnly
<1>7. /\ v.job = w.job /\ v.wire = w.wire /\ v.got \in Tokens
      /\ \A g : g \in Members(v.queue) <=>
           g \in Members(w.queue) \/ \E s \in S : g = FrameTo(s, "go", v.got, 0)
  BY DEF Batched
<1>8. ASSUME NEW s \in Slots PROVE SlotOK(u, m, s, FALSE)
  <2>1. StillOK(w, m, s, FALSE) /\ StopOK(w, m, s) /\ GoOK(w, s) /\ RemovingOK(w, s)
    BY <1>1 DEF SlotOK
  <2>2. CASE s \in S
    <3>1. u.job[s].state = "launching" /\ u.job[s].launch = v.got /\ ~u.job[s].removing
      <4>1. w.job[s].state = "ready" /\ ~w.job[s].removing
        BY <1>1, <2>1, <2>2 DEF RemovingOK
      <4>2. v.job[s] = w.job[s] /\ u.job[s] = f[s]
        BY <1>3, <1>7
      <4> QED BY <1>2, <2>2, <4>1, <4>2
    <3>2. GoOK(u, s)
      <4> SUFFICES ASSUME NEW g \in Members(v.queue), g.train = s, g.speed = "go", g.token # 0
                   PROVE  v.got = g.token
        BY <1>3, <3>1 DEF GoOK
      <4>1. g \notin Members(w.queue)
        BY <1>1, <2>1, <2>2 DEF GoOK
      <4> QED BY <1>7, <4>1 DEF FrameTo
    <3> QED BY <3>1, <3>2 DEF SlotOK, StillOK, Still, StopOK, RemovingOK
  <2>3. CASE s \notin S
    <3>1. u.job[s] = w.job[s] /\ v.job[s] = w.job[s]
      BY <1>2, <1>3, <1>7, <2>3
    <3>2. \A g \in Members(v.queue) : g.train = s => g \in Members(w.queue)
      BY <1>7, <2>3 DEF FrameTo
    <3>3. \A g \in Members(w.queue) : g \in Members(v.queue)
      BY <1>7
    <3>4. GoQueued(u, s) => GoQueued(w, s)
      BY <1>3, <3>2 DEF GoQueued
    <3>5. GoSent(u, s) <=> GoSent(w, s)
      BY <1>3, <1>7 DEF GoSent
    <3>6. StillOK(u, m, s, FALSE)
      BY <2>1, <3>1, <3>4, <3>5 DEF StillOK, Go
    <3>7. StopOK(u, m, s)
      <4> SUFFICES ASSUME NEW b, b = w.job[s].estop, b # 0,
                          w.job[s].state = "braking" \/ (w.job[s].state = "failed" /\ w.job[s].retry),
                          ~BatchFailed(u, b)
                   PROVE  StopOut(u, m, s, b)
        BY <3>1 DEF StopOK, StopOut
      <4>1. b \in Tokens /\ ~BatchFailed(v, b)
        BY <1>1, <1>3 DEF LineOK, LineType, JobType, BatchFailed
      <4>2. ~BatchFailed(w, b)
        BY <1>5, <4>1 DEF Undisturbed
      <4>3. StopOut(w, m, s, b)
        BY <2>1 DEF StopOK
      <4> QED BY <1>3, <1>7, <3>3, <3>4, <3>5, <4>2, <4>3 DEF StopOut
    <3>8. GoOK(u, s)
      BY <1>3, <2>1, <3>1, <3>2 DEF GoOK
    <3>9. RemovingOK(u, s)
      BY <2>1, <3>1 DEF RemovingOK
    <3> QED BY <3>6, <3>7, <3>8, <3>9 DEF SlotOK
  <2> QED BY <2>2, <2>3
<1> QED BY <1>3, <1>6, <1>8 DEF u, Right, WithJobs

\* The jobs are told of their launch.
LEMMA LaunchedJobs ==
  ASSUME NEW v, LineOK(v), NEW S, S \subseteq Slots, v.got \in Tokens, NEW f,
         f = [s \in Slots |-> IF s \in S THEN LaunchedJob(v.job[s], v.got) ELSE v.job[s]]
  PROVE  AreLaunched(v, f, S)
<1>1. v.job \in [Slots -> JobType]
  BY DEF LineOK, LineType
<1>2. \A s \in Slots \ S : f[s] = v.job[s]
  OBVIOUS
<1>3. ASSUME NEW s \in S
      PROVE  /\ f[s] \in JobType /\ f[s].state = "launching" /\ f[s].launch = v.got
             /\ (f[s].removing <=> v.job[s].removing)
  <2>1. f[s] = LaunchedJob(v.job[s], v.got) /\ v.job[s] \in JobType
    BY <1>1
  <2> QED BY <2>1 DEF LaunchedJob, JobType, StateNames
<1>4. \A s \in Slots : f[s] \in JobType
  BY <1>1, <1>2, <1>3
<1>5. f \in [Slots -> JobType]
  BY <1>4
<1> QED BY <1>2, <1>3, <1>5 DEF AreLaunched

\* A step of a pass to a state that is right, if not one in which only stops
\* have been added.
LEMMA SettledStep ==
  ASSUME IInv, InPass, NEW n \in Ahead, NEW w, WorldType(w), LineOK(w), SameFrame(World, w),
         Quiet(w), \A s \in Slots : SlotOK(w, moving, s, FALSE), Step(n, w)
  PROVE  IInv'
<1>1. n \in Nat /\ pc.at \in PassNames /\ call = NoCall /\ pc.seen = "none" /\ pc \in PcType
  BY InAPass DEF IInv, PcOK
<1>2. pc' = [pc EXCEPT !.pos = n, !.seen = "none"]
      /\ Becomes(w) /\ call' = call /\ lost' = lost /\ moving' = moving
  BY DEF Step
<1>3. pc' \in PcType /\ pc'.seen = "none" /\ pc'.at \notin {"cancel", "remove"}
  BY <1>1, <1>2 DEF PcType, PassNames
<1>4. call.is # "sent"
  BY <1>1 DEF NoCall
<1> QED BY <1>1, <1>2, <1>3, <1>4, SettlesOn

\* Gos are queued with the lowest rank.
LEMMA NoRank == 0 \in 0 .. 2
OBVIOUS

\* No token is noted when a batch could not be queued.
LEMMA NothingGot ==
  ASSUME NEW w, WorldType(w)
  PROVE  [w EXCEPT !.got = 0].got = 0
BY GotOK

\* Those that are ready are told to go.
LEMMA GoneOK ==
  ASSUME IInv, InPass, NEW n \in Ahead, NEW x, Fine(World, x, moving), NEW go, AllReady(x, go),
         WithBatch(x, go, "go", 0).got # 0,
         LET y == WithBatch(x, go, "go", 0)
         IN  Step(n, WithJobs(y, [s \in Slots |-> IF s \in go THEN LaunchedJob(y.job[s], y.got)
                                                 ELSE y.job[s]]))
  PROVE  IInv'
<1> DEFINE y == WithBatch(x, go, "go", 0)
           f == [s \in Slots |-> IF s \in go THEN LaunchedJob(y.job[s], y.got) ELSE y.job[s]]
<1>1. y.got # 0 /\ Step(n, WithJobs(y, f))
  OBVIOUS
<1>2. go \subseteq Slots /\ WorldType(x) /\ LineOK(x) /\ OnlyStops(World, x)
      /\ \A s \in Slots : SlotOK(x, moving, s, FALSE)
  BY DEF Fine, AllReady
<1>3. LineType(x) /\ "go" \in {"go", "stop"} /\ 0 \in 0 .. 2 /\ RankOf("go") = 0
  <2>1. LineType(x)
    BY <1>2 DEF LineOK
  <2>2. RankOf("go") = 0
    BY DEF RankOf
  <2> QED BY <2>1, <2>2, NoRank
<1>4. WorldType(y) /\ (y = [x EXCEPT !.got = 0] \/ Batched(x, y, go, "go", 0))
  BY <1>2, <1>3, WithBatchOK
<1>5. Batched(x, y, go, "go", 0)
  <2> DEFINE z == [x EXCEPT !.got = 0]
  <2>1. z.got = 0
    BY <1>2, NothingGot
  <2> HIDE DEF y
  <2>2. y = z \/ Batched(x, y, go, "go", 0)
    BY <1>4
  <2> HIDE DEF z
  <2> QED BY <1>1, <2>1, <2>2
<1> DEFINE u == WithJobs(y, f)
<1>6. LineOK(y)
  BY <1>2, <1>3, <1>5, BatchedLine
<1>7. y.got \in Tokens
  BY <1>5 DEF Batched
<1> HIDE DEF y
<1>8. AreLaunched(y, f, go)
  <2>1. f = [s \in Slots |-> IF s \in go THEN LaunchedJob(y.job[s], y.got) ELSE y.job[s]]
    OBVIOUS
  <2> HIDE DEF f
  <2> QED BY <1>2, <1>6, <1>7, <2>1, LaunchedJobs
<1> HIDE DEF f
<1>9. Right(u, moving) /\ u.queue = y.queue /\ u.wire = y.wire
  <2>1. Right(x, moving) /\ AllReady(x, go)
    BY <1>2 DEF Right, AllReady
  <2>2. /\ Right(WithJobs(y, f), moving)
        /\ WithJobs(y, f).queue = y.queue /\ WithJobs(y, f).wire = y.wire
    BY <1>4, <1>5, <1>8, <2>1, LaunchedSlots
  <2> QED BY <2>2
<1> HIDE DEF u
<1>10. call = NoCall /\ Quiet(World)
  BY PassWorld, AtWork
<1>11. Quiet(u)
  <2>1. Quiet(x)
    BY <1>2, <1>10 DEF Quiet, OnlyStops
  <2>2. \A g \in Members(y.queue) :
          g \in Members(x.queue) \/ \E s \in go : g = FrameTo(s, "go", y.got, 0)
    BY <1>5 DEF Batched
  <2>3. y.got # 0 /\ \A s : FrameTo(s, "go", y.got, 0).token = y.got
    BY <1>7, SlotsAre DEF FrameTo
  <2>4. \A g \in Members(y.queue) : g.token # 0
    BY <2>1, <2>2, <2>3 DEF Quiet
  <2> QED BY <1>9, <2>4 DEF Quiet
<1>12. SameFrame(World, u)
  BY <1>2, <1>5, <1>9 DEF SameFrame, OnlyStops, Batched
<1>13. Step(n, u)
  BY <1>1 DEF u
<1> QED BY <1>9, <1>11, <1>12, <1>13, SettledStep DEF Right

\* launch_ready_jobs keeps the invariant.
LEMMA LaunchOK ==
  ASSUME IInv, InPass, NEW n \in Ahead, Launch(n)
  PROVE  IInv'
<1> DEFINE R == {s \in Slots : Is(s, {"ready"})}
<1> PICK unfit \in SUBSET R, back \in SUBSET R :
      LET x == WithFailedJobs(Apply(World, back, "preparing"), unfit) IN
      \E go \in SUBSET {s \in Slots : x.job[s].state = "ready"} :
        LET y == WithBatch(x, go, "go", 0) IN
        \/ go = {} /\ Step(n, x)
        \/ go # {} /\ Step(n, WithFailedJobs(x, go))
        \/ go # {} /\ y.got = 0 /\ Step(n, x)
        \/ go # {} /\ y.got # 0
             /\ Step(n, [y EXCEPT !.job = [s \in Slots |-> IF s \in go
                   THEN [y.job[s] EXCEPT !.state = "launching", !.launch = y.got,
                                         !.rewound = FALSE]
                   ELSE y.job[s]]])
  BY DEF Launch
<1> DEFINE x == WithFailedJobs(Apply(World, back, "preparing"), unfit)
<1> PICK go \in SUBSET {s \in Slots : x.job[s].state = "ready"} :
        LET y == WithBatch(x, go, "go", 0) IN
        \/ go = {} /\ Step(n, x)
        \/ go # {} /\ Step(n, WithFailedJobs(x, go))
        \/ go # {} /\ y.got = 0 /\ Step(n, x)
        \/ go # {} /\ y.got # 0
             /\ Step(n, [y EXCEPT !.job = [s \in Slots |-> IF s \in go
                   THEN [y.job[s] EXCEPT !.state = "launching", !.launch = y.got,
                                         !.rewound = FALSE]
                   ELSE y.job[s]]])
  OBVIOUS
<1> DEFINE y == WithBatch(x, go, "go", 0)
           f == [s \in Slots |-> IF s \in go THEN LaunchedJob(y.job[s], y.got) ELSE y.job[s]]
<1>1. \/ Step(n, x)
      \/ Step(n, WithFailedJobs(x, go))
      \/ y.got # 0 /\ Step(n, [y EXCEPT !.job = f])
  BY DEF LaunchedJob
<1>2. /\ back \subseteq Slots /\ unfit \subseteq Slots
      /\ \A s \in back : job[s].state = "ready"
      /\ \A s \in go : s \in Slots /\ x.job[s].state = "ready"
  BY DEF Is
<1>3. Fine(World, Apply(World, back, "preparing"), moving)
  BY <1>2, ApplyOK
<1>4. Fine(World, x, moving)
  BY <1>2, <1>3, FineFails
<1> HIDE DEF x
<1>5. CASE Step(n, x)
  BY <1>4, <1>5, StepOK
<1>6. CASE Step(n, WithFailedJobs(x, go))
  <2>1. go \subseteq Slots
    BY <1>2
  <2>2. Fine(World, WithFailedJobs(x, go), moving)
    BY <1>4, <2>1, FineFails
  <2> QED BY <1>6, <2>2, StepOK
<1>7. CASE y.got # 0 /\ Step(n, [y EXCEPT !.job = f])
  <2>1. Step(n, WithJobs(y, f)) /\ AllReady(x, go)
    BY <1>2, <1>7 DEF WithJobs, AllReady
  <2> QED BY <1>4, <1>7, <2>1, GoneOK
<1> QED BY <1>1, <1>5, <1>6, <1>7

\* process_waiting_jobs, process_preparing_jobs and launch_ready_jobs keep
\* the invariant.
LEMMA WaitsOK ==
  ASSUME IInv, InPass, NEW n \in Ahead, Waits(n)
  PROVE  IInv'
<1>1. CASE WaitingFails(n) \/ PreparingFails(n)
  BY <1>1, FaultOK DEF WaitingFails, PreparingFails, Fault
<1>2. CASE Prepared(n)
  <2>1. Step(n, To(Here(n), "preparing")) /\ Is(Here(n), {"waiting"})
    BY <1>2, PassConcerns DEF Prepared, Is
  <2>2. Is(Here(n), {"traffic hold", "cancel braking", "waiting", "arrived", "stopped"})
        /\ "preparing" \in StateNames
    BY <2>1 DEF Is, StateNames
  <2> QED BY <2>1, <2>2, StandsHere
<1>3. CASE Ready(n)
  <2>1. Step(n, To(Here(n), "ready")) /\ job[Here(n)].state = "preparing"
    BY <1>3, PassConcerns DEF Ready
  <2> QED BY <2>1, ReadyStep
<1>4. CASE ArrivesAtOnce(n)
  <2>1. Step(n, To(Here(n), "arrived")) /\ Is(Here(n), {"preparing"}) /\ ~job[Here(n)].rewound
    BY <1>4, PassConcerns DEF ArrivesAtOnce, Is
  <2>2. "arrived" \in StateNames
    BY DEF StateNames
  <2> QED BY <2>1, <2>2, StandsHere
<1>5. CASE TurnFirst(n)
  <2> DEFINE why == "turn first"
  <2>1. why \in {"correct", "relaunch", "turn", "turn first", "retarget"} /\ Told(why) = "turn"
    BY DEF Told
  <2>2. Ask(n, World, Here(n), Told(why), 1, why) /\ job[Here(n)].state = "preparing"
    BY <1>5, <2>1, PassConcerns DEF TurnFirst
  <2> HIDE DEF why
  <2> QED BY <2>1, <2>2, AsksFor, AttemptsAre
<1>6. CASE Launch(n)
  BY <1>6, LaunchOK
<1> QED BY <1>1, <1>2, <1>3, <1>4, <1>5, <1>6 DEF Waits

-----------------------------------------------------------------------------
(* The dispatcher's own position.                                          *)

\* A step that changes only the dispatcher's position keeps the invariant.
LEMMA PcOnly ==
  ASSUME IInv, call = NoCall, UNCHANGED <<job, call, queue, wire, batch, lost, moving>>, PcOK'
  PROVE  IInv'
<1>1. World' = World
  BY DEF World
<1>2. CallOK'
  BY DEF CallOK, CallType, NoCall, Told, TakingBack
<1>3. LineOK(World') /\ moving' \in [Slots -> BOOLEAN] /\ lost' \in Nat
      /\ \A s \in Slots : SlotOK(World', moving', s, GoCall(call', s))
  BY <1>1 DEF IInv
<1>4. CommandOK' /\ WireOK'
  BY DEF IInv, CommandOK, WireOK
<1> QED BY <1>2, <1>3, <1>4 DEF IInv

\* What the look at a batch may find.
LEMMA ReadingIs ==
  ASSUME NEW b
  PROVE  Reading(b) \in {"failed", "complete", "unconfirmed", "partly"}
BY DEF Reading

\* Where a command or a tick may start.
LEMMA StopIs ==
  ASSUME NEW at \in {"tick", "tripped", "cancelled", "removed", "cancel", "remove"},
         NEW n \in Nat, NEW back \in Nat,
         at \in {"cancel", "remove"} => n \in Slots
  PROVE  /\ Stop(at, n, back) \in PcType /\ Stop(at, n, back).seen = "none"
         /\ Stop(at, n, back).at = at /\ Stop(at, n, back).pos = n
BY DEF Stop, PcType

\* Where it may end.
LEMMA BackIs ==
  ASSUME IInv
  PROVE  Back \in PcType /\ Back.seen = "none" /\ Back.at \in {"tick", "receive"}
BY DEF IInv, PcOK, PcType, Back, Stop, Receive

\* Slots are numbers.
LEMMA SlotsAreNat == Slots \subseteq Nat
BY SlotsAre

\* The beginning of a cancel or a remove keeps the invariant.
LEMMA EnterOK ==
  ASSUME IInv, call = NoCall, NEW at \in {"cancel", "remove"}, NEW s \in Slots, NEW back \in Nat,
         Enter(at, s, back)
  PROVE  IInv'
<1>1. pc' = Stop(at, s, back) /\ UNCHANGED <<job, call, queue, wire, batch, lost, moving>>
  BY DEF Enter
<1>2. pc' \in PcType /\ pc'.seen = "none" /\ pc'.at = at /\ pc'.pos = s
  BY <1>1, StopIs, SlotsAreNat
<1>3. PcOK'
  BY <1>2 DEF PcOK
<1> QED BY <1>1, <1>3, PcOnly

\* restart_prearmed_stationary_survivors and process_pending_retargets keep
\* the invariant.
LEMMA TakesBackOK ==
  ASSUME IInv, InPass, NEW n \in Ahead, TakesBack(n)
  PROVE  IInv'
<1>1. n \in Nat /\ Here(n) \in Slots /\ pc.at \in PassNames /\ call = NoCall /\ pc \in PcType
  BY InAPass DEF IInv, PcOK
<1>2. CASE SurvivorReads(n)
  <2>1. Read(n)
    BY <1>2 DEF SurvivorReads
  <2> DEFINE r == Reading(job[IF pc.at \in {"cancel", "remove"} THEN n ELSE Here(n)].launch)
  <2>2. pc' = [pc EXCEPT !.pos = n, !.seen = r]
        /\ UNCHANGED <<job, call, queue, wire, batch, lost, moving>>
    BY <2>1 DEF Read
  <2>3. r \in {"failed", "complete", "unconfirmed", "partly"}
    BY ReadingIs
  <2> HIDE DEF r
  <2>4. pc' \in PcType /\ pc'.at \notin {"cancel", "remove"}
    BY <1>1, <2>2, <2>3 DEF PcType, PassNames
  <2>5. call' = NoCall
    BY <1>1, <2>2
  <2>6. job'[Target'].launch # 0
    <3>1. Target' = Here(n)
      BY <1>1, <2>2, <2>4 DEF Target, Here, PcType
    <3>2. job' = job /\ job[Here(n)].launch # 0
      BY <1>2, <2>2 DEF SurvivorReads
    <3> QED BY <3>1, <3>2
  <2>7. PcOK'
    BY <2>4, <2>5, <2>6 DEF PcOK
  <2> QED BY <1>1, <2>2, <2>7, PcOnly
<1>3. CASE SurvivorAgain(n)
  <2>1. CASE Fault(n, {"ready", "preparing"})
    BY <2>1, FaultOK DEF Fault
  <2>2. CASE Is(Here(n), {"ready"}) /\ Step(n, To(Here(n), "preparing"))
    <3>1. job[Here(n)].state = "ready"
      BY <2>2 DEF Is
    <3> QED BY <2>2, <3>1, ReadyStep
  <2> QED BY <1>3, <2>1, <2>2 DEF SurvivorAgain
<1>4. CASE Reroute(n)
  <2>1. Enter("cancel", Here(n), n)
    BY <1>4 DEF Reroute
  <2> QED BY <1>1, <2>1, EnterOK
<1>5. CASE Retarget(n)
  <2>1. Is(Here(n), {"traffic hold", "arrived", "stopped"})
    BY <1>5 DEF Retarget
  <2>2. CASE Step(n, To(Here(n), "preparing"))
    <3>1. Is(Here(n), {"traffic hold", "cancel braking", "waiting", "arrived", "stopped"})
          /\ "preparing" \in StateNames
      BY <2>1 DEF Is, StateNames
    <3> QED BY <2>2, <3>1, StandsHere
  <2>3. CASE Step(n, WithFailedJob(World, Here(n)))
    BY <2>3, FaultOK
  <2>4. CASE Ask(n, World, Here(n), "turn", 1, "retarget")
    <3> DEFINE why == "retarget"
    <3>1. why \in {"correct", "relaunch", "turn", "turn first", "retarget"} /\ Told(why) = "turn"
      BY DEF Told
    <3>2. Ask(n, World, Here(n), Told(why), 1, why)
          /\ job[Here(n)].state \in {"traffic hold", "arrived", "stopped"}
      BY <2>1, <2>4, <3>1 DEF Is
    <3> HIDE DEF why
    <3> QED BY <3>1, <3>2, AsksFor, AttemptsAre
  <2> QED BY <1>5, <2>2, <2>3, <2>4 DEF Retarget
<1> QED BY <1>2, <1>3, <1>4, <1>5 DEF TakesBack

\* Every pass keeps the invariant.
LEMMA PassOK ==
  ASSUME IInv, InPass, NEW n \in Ahead, Pass(n)
  PROVE  IInv'
BY RetryStopsOK, RunningOK, TrafficOK, LaunchingOK, BrakesOK, WaitsOK, TakesBackOK DEF Pass

\* So does the end of a tick.
LEMMA EndPassOK ==
  ASSUME IInv, EndPass
  PROVE  IInv'
<1>1. call = NoCall /\ pc' = Back /\ UNCHANGED <<job, call, queue, wire, batch, lost, moving>>
  BY DEF EndPass, InPass
<1>2. PcOK'
  BY <1>1, BackIs DEF PcOK
<1> QED BY <1>1, <1>2, PcOnly

-----------------------------------------------------------------------------
(* Calls that have come back.                                              *)

\* The call of the dispatcher has come back.
CallAnswered(s) ==
  /\ s \in Slots /\ s = call.train /\ call # NoCall /\ call.is # "sent" /\ call.why \in Reasons
  /\ WorldType(World) /\ LineOK(World) /\ job \in [Slots -> JobType] /\ job[s] \in JobType
  /\ OnlyStops(World, World)
  /\ \A t \in Slots \ {s} : SlotOK(World, moving, t, FALSE)
  /\ SlotOK(World, moving, s, GoCall(call, s))
  /\ pc \in PcType /\ pc.seen = "none" /\ (pc.at \in {"cancel", "remove"} => pc.pos \in Slots)

\* What is known when a call has come back.
LEMMA CallIsAnswered ==
  ASSUME IInv, call.is \in {"done", "failed"}
  PROVE  CallAnswered(call.train)
<1>1. call # NoCall /\ call.is # "sent"
  BY DEF NoCall
<1>2. call \in CallType /\ call.why \in Reasons /\ call.train \in Slots
  <2>1. call \in CallType
    BY DEF IInv, CallOK
  <2> QED BY <1>1, <2>1 DEF CallType, Reasons
<1>3. pc \in PcType /\ pc.seen = "none" /\ (pc.at \in {"cancel", "remove"} => pc.pos \in Slots)
  BY <1>1 DEF IInv, PcOK
<1>4. /\ WorldType(World) /\ LineOK(World) /\ job \in [Slots -> JobType]
      /\ \A t \in Slots \ {call.train} : SlotOK(World, moving, t, FALSE)
  BY AtWork
<1>5. SlotOK(World, moving, call.train, GoCall(call, call.train))
  BY <1>2 DEF IInv
<1>6. OnlyStops(World, World)
  BY DEF OnlyStops
<1>7. job[call.train] \in JobType
  BY <1>2, <1>4
<1> QED BY <1>1, <1>2, <1>3, <1>4, <1>5, <1>6, <1>7 DEF CallAnswered

\* What it does with the outcome.
LEMMA GotOn ==
  ASSUME IInv, NEW why, NEW is \in {"done", "failed"}, NEW w, Got(why, is, w),
         Fine(World, w, moving)
  PROVE  IInv'
<1>1. call.is \in {"done", "failed"} /\ call' = NoCall /\ Becomes(w) /\ pc' = pc
      /\ lost' = lost /\ moving' = moving
  BY DEF Got
<1>2. call.is # "sent" /\ pc \in PcType /\ pc.seen = "none"
      /\ (pc.at \in {"cancel", "remove"} => pc.pos \in Slots)
  BY <1>1, CallIsAnswered DEF CallAnswered
<1> QED BY <1>1, <1>2, Settles

\* The job of its train changes.
LEMMA GotJob ==
  ASSUME IInv, NEW why, NEW is \in {"done", "failed"}, NEW s, s = call.train,
         NEW j \in JobType, Fits(World, moving, s, j), Got(why, is, With(World, s, j))
  PROVE  IInv'
<1>1. call.is \in {"done", "failed"}
  BY DEF Got
<1>2. CallAnswered(s)
  BY <1>1, CallIsAnswered
<1>3. Fine(World, With(World, s, j), moving)
  BY <1>2, FittingJob DEF CallAnswered
<1> QED BY <1>3, GotOn

\* The job of its train fails.
LEMMA FailsOne ==
  ASSUME NEW x, NEW w, NEW s \in Slots, NEW m, WorldType(w), LineOK(w), OnlyStops(x, w),
         \A t \in Slots \ {s} : SlotOK(w, m, t, FALSE)
  PROVE  Fine(x, WithFailedJob(w, s), m)
<1> DEFINE v == WithFailedJob(w, s)
           T == {s}
<1>1. WorldType(v) /\ Well(w, v, m) /\ SlotOK(v, m, s, FALSE)
  BY WithFailedJobOK
<1>2. \A t \in Slots \ T : SlotOK(w, m, t, FALSE)
  OBVIOUS
<1>3. \A t \in Slots \cap T : SlotOK(v, m, t, FALSE)
  BY <1>1
<1> HIDE DEF v, T
<1>4. Fine(w, v, m)
  BY <1>1, <1>2, <1>3, WellIsFine
<1> QED BY <1>4, FineChain DEF v

\* A job that fails on a call's outcome keeps the invariant.
LEMMA GotFails ==
  ASSUME IInv, NEW why, Got(why, "failed", WithFailedJob(World, call.train))
  PROVE  IInv'
<1> DEFINE s == call.train
<1>1. call.is \in {"done", "failed"}
  BY DEF Got
<1>2. CallAnswered(s)
  BY <1>1, CallIsAnswered
<1> HIDE DEF s
<1>3. Fine(World, WithFailedJob(World, s), moving)
  BY <1>2, FailsOne DEF CallAnswered
<1>4. Got(why, "failed", WithFailedJob(World, s))
  BY DEF s
<1> QED BY <1>3, <1>4, GotOn

\* A job that calls neither is being launched nor has failed nor awaits a
\* queued stop.
LEMMA PlainCall ==
  ASSUME IInv, call.is \in {"done", "failed"}, call.why \notin TakingBack
  PROVE  Plain(job[call.train])
<1>1. call # NoCall
  BY DEF NoCall
<1> QED BY <1>1 DEF IInv, CallOK

\* It runs.
LEMMA GotRuns ==
  ASSUME IInv, NEW why \in {"resume", "correct", "relaunch"},
         Got(why, "done", To(call.train, "running"))
  PROVE  IInv'
<1> DEFINE s == call.train
           j == [job[s] EXCEPT !.state = "running"]
<1>1. call.is \in {"done", "failed"} /\ call.why \notin TakingBack
  BY DEF Got, TakingBack
<1>2. CallAnswered(s) /\ Plain(job[s])
  BY <1>1, CallIsAnswered, PlainCall
<1>3. Got(why, "done", With(World, s, j))
  BY DEF To
<1> HIDE DEF s
<1>4. j \in JobType /\ j.state = "running" /\ (j.removing <=> job[s].removing)
  <2>1. job[s] \in JobType
    BY <1>2 DEF CallAnswered
  <2> QED BY <2>1 DEF JobType, StateNames
<1>5. Fits(World, moving, s, j)
  <2>1. GoOK(World, s) /\ ~job[s].removing /\ job[s].state # "launching"
    BY <1>2 DEF CallAnswered, SlotOK, Plain
  <2>2. \A f \in Members(World.queue) : ~(f.train = s /\ f.speed = "go" /\ f.token # 0)
    BY <2>1, WorldIs DEF GoOK
  <2> HIDE DEF j
  <2> QED BY <1>4, <2>1, <2>2 DEF Fits, Still
<1> HIDE DEF j
<1>6. s = call.train
  BY DEF s
<1> QED BY <1>3, <1>4, <1>5, <1>6, GotJob

\* The zero was confirmed.
LEMMA StopConfirmedOK ==
  ASSUME IInv, NEW why \in {"destination", "reversal"}, StopConfirmed(why)
  PROVE  IInv'
<1> DEFINE s == call.train
           j == [job[s] EXCEPT !.state = "braking", !.purpose = why, !.estop = 0]
           f == [t \in Slots |-> IF t \in {s} THEN [World.job[t] EXCEPT !.state = "braking",
                                                       !.purpose = why, !.estop = 0]
                                 ELSE World.job[t]]
<1>1. call.is = "done" /\ call.why = why /\ call.why \notin TakingBack
  BY DEF StopConfirmed, Got, TakingBack
<1>2. CallAnswered(s) /\ Plain(job[s])
  BY <1>1, CallIsAnswered, PlainCall
<1>3. ~Go(World, moving, s)
  <2>1. call.speed = "stop" /\ call # NoCall
    BY <1>1, <1>2 DEF IInv, CallOK, Told, CallAnswered
  <2> QED BY <1>1, <2>1 DEF IInv, CallOK
<1>4. Got(why, "done", [World EXCEPT !.job = f])
  BY DEF StopConfirmed, Braking
<1> HIDE DEF s
<1>5. j \in JobType /\ ~j.removing /\ j.estop = 0
  <2>1. job[s] \in JobType /\ ~job[s].removing
    BY <1>2 DEF CallAnswered, Plain
  <2> QED BY <2>1 DEF JobType, StateNames
<1>6. s \in Slots /\ job \in [Slots -> JobType]
  BY <1>2 DEF CallAnswered
<1>7. f[s] = j /\ \A t \in Slots \ {s} : f[t] = job[t]
  BY <1>6, WorldIs
<1>8. f \in [Slots -> JobType]
  <2>1. \A t \in Slots : f[t] \in JobType
    BY <1>5, <1>6, <1>7
  <2> QED BY <2>1
<1> HIDE DEF f, j
<1>9. Fits(World, moving, s, f[s])
  BY <1>3, <1>5, <1>7, FitsStanding
<1>10. FitsOrKeeps(World, moving, f)
  <2>1. \A t \in Slots \ {s} : KeepsJob(World, moving, t, f)
    BY <1>2, <1>7, WorldIs DEF CallAnswered, KeepsJob
  <2> QED BY <1>9, <2>1 DEF FitsOrKeeps
<1>11. Fine(World, [World EXCEPT !.job = f], moving)
  BY <1>2, <1>8, <1>10, FittingJobs DEF CallAnswered
<1> QED BY <1>4, <1>11, GotOn

\* It could not be confirmed: an emergency stop follows.
LEMMA StopRefusedOK ==
  ASSUME IInv, NEW why \in {"destination", "reversal"}, StopRefused(why)
  PROVE  IInv'
<1> DEFINE s == call.train
           T == {s}
           w == WithStops(World, T)
           v == Braking(w, T, why, w.got)
<1>1. call.is = "failed" /\ call.why = why /\ call.why \notin TakingBack
  BY DEF StopRefused, Got, TakingBack
<1>2. CallAnswered(s) /\ Plain(job[s])
  BY <1>1, CallIsAnswered, PlainCall
<1>3. Got(why, "failed", IF w.got = 0 THEN WithFailedJob(w, s) ELSE v)
  BY DEF StopRefused
<1>4. \A t \in Slots : SlotOK(World, moving, t, FALSE)
  <2>1. call.speed = "stop"
    BY <1>1, <1>2 DEF IInv, CallOK, Told
  <2>2. GoCall(call, s) = FALSE
    BY <2>1 DEF GoCall
  <2>3. SlotOK(World, moving, s, FALSE)
    BY <1>2, <2>2 DEF CallAnswered
  <2> QED BY <1>2, <2>3 DEF CallAnswered
<1> HIDE DEF s
<1>5. T \subseteq Slots /\ s \in T /\ s \in Slots
  BY <1>2 DEF CallAnswered
<1>6. T = {s}
  OBVIOUS
<1> HIDE DEF T
<1>7. /\ Fine(World, w, moving) /\ w.job = World.job /\ StopsOnly(w)
      /\ w.got # 0 => Stopped(w, T)
  BY <1>2, <1>4, <1>5, FineStops DEF CallAnswered
<1> HIDE DEF w
<1>8. WorldType(w) /\ LineOK(w) /\ OnlyStops(World, w) /\ \A t \in Slots : SlotOK(w, moving, t, FALSE)
  BY <1>7 DEF Fine
<1>9. CASE w.got = 0
  <2>1. Fine(World, WithFailedJob(w, s), moving)
    BY <1>5, <1>8, FailsOne
  <2>2. Got(why, "failed", WithFailedJob(w, s))
    BY <1>3, <1>9
  <2> QED BY <2>1, <2>2, GotOn
<1>10. CASE w.got # 0
  <2>1. w.got \in Tokens \cup {0} /\ why \in Purposes
    BY <1>8 DEF LineOK, LineType, Purposes
  <2>2. WorldType(v) /\ Brake(w, v, T, w.got)
    BY <1>5, <1>8, <2>1, BrakingOK
  <2>3. Got(why, "failed", v)
    BY <1>3, <1>10
  <2> HIDE DEF v
  <2>4. ~w.job[s].removing
    BY <1>2, <1>7, WorldIs DEF Plain
  <2>5. Well(w, v, moving)
    <3>1. /\ v.queue = w.queue /\ v.wire = w.wire /\ v.batch = w.batch /\ v.got = w.got
          /\ v.job \in [Slots -> JobType]
          /\ \A t \in Slots \ T : v.job[t] = w.job[t]
          /\ \A t \in T : v.job[t].state = "braking" /\ v.job[t].estop = w.got /\ ~v.job[t].removing
      BY <1>6, <2>2, <2>4 DEF Brake
    <3> QED BY <1>7, <1>8, <1>10, <3>1, BrakedOK
  <2> DEFINE E == {}
  <2>6. /\ \A t \in Slots \ E : SlotOK(w, moving, t, FALSE)
        /\ \A t \in Slots \cap E : SlotOK(v, moving, t, FALSE)
    BY <1>8
  <2> HIDE DEF E
  <2>7. Fine(w, v, moving)
    BY <1>8, <2>2, <2>5, <2>6, WellIsFine
  <2>8. Fine(World, v, moving)
    BY <1>8, <2>7, FineChain
  <2> QED BY <2>3, <2>8, GotOn
<1> QED BY <1>9, <1>10

\* Turning round does not set a train in motion.
LEMMA TurnedOn ==
  ASSUME IInv, NEW why \in {"turn", "turn first", "retarget"}, call.why = why,
         call.is \in {"done", "failed"}
  PROVE  \A t \in Slots : SlotOK(World, moving, t, FALSE)
<1>1. CallAnswered(call.train)
  BY CallIsAnswered
<1>2. call.speed = "turn"
  BY DEF IInv, CallOK, Told
<1>3. GoCall(call, call.train) = FALSE
  BY <1>2 DEF GoCall
<1>4. SlotOK(World, moving, call.train, FALSE)
  BY <1>1, <1>3 DEF CallAnswered
<1> QED BY <1>1, <1>4 DEF CallAnswered

\* An outcome that changes nothing keeps the invariant.
LEMMA NothingGotOn ==
  ASSUME IInv, NEW why \in {"turn", "turn first", "retarget"}, NEW is \in {"done", "failed"},
         Got(why, is, World)
  PROVE  IInv'
<1>1. call.why = why /\ call.is \in {"done", "failed"}
  BY DEF Got
<1>2. CallAnswered(call.train)
  BY <1>1, CallIsAnswered
<1>3. \A t \in Slots : SlotOK(World, moving, t, FALSE)
  BY <1>1, TurnedOn
<1>4. Fine(World, World, moving)
  BY <1>2, <1>3 DEF Fine, CallAnswered
<1> QED BY <1>4, GotOn

\* The train has been turned round.
LEMMA TurnedOK ==
  ASSUME IInv, Got("turn", "done", With(World, call.train, [job[call.train] EXCEPT !.turned = TRUE]))
  PROVE  IInv'
<1> DEFINE s == call.train
           j == [job[s] EXCEPT !.turned = TRUE]
           why == "turn"
<1>1. call.is \in {"done", "failed"} /\ call.why = why /\ why \in {"turn", "turn first", "retarget"}
  BY DEF Got
<1>2. Got(why, "done", With(World, s, j))
  OBVIOUS
<1> HIDE DEF why
<1>3. CallAnswered(s) /\ \A t \in Slots : SlotOK(World, moving, t, FALSE)
  BY <1>1, CallIsAnswered, TurnedOn
<1>4. s = call.train
  OBVIOUS
<1> HIDE DEF s
<1>5. job[s] \in JobType /\ SlotOK(World, moving, s, FALSE)
  BY <1>3 DEF CallAnswered
<1>6. /\ j \in JobType /\ j.state = job[s].state /\ j.launch = job[s].launch
      /\ j.estop = job[s].estop /\ (j.retry <=> job[s].retry) /\ (j.removing <=> job[s].removing)
      /\ (j.rewound <=> job[s].rewound)
  BY <1>5 DEF JobType
<1> HIDE DEF j
<1>7. Fits(World, moving, s, j)
  <2>1. /\ Still(j) <=> Still(job[s])
        /\ Excused(j) <=> Excused(job[s])
    BY <1>6 DEF Still, Excused
  <2>2. World.job[s] = job[s]
    BY WorldIs
  <2>3. Still(j) => ~Go(World, moving, s) \/ Excused(j)
    BY <1>5, <2>1, <2>2 DEF SlotOK, StillOK
  <2>4. j.estop # 0 /\ (j.state = "braking" \/ (j.state = "failed" /\ j.retry))
          => StopOut(World, moving, s, j.estop)
    BY <1>5, <1>6, <2>2 DEF SlotOK, StopOK
  <2>5. \A g \in Members(World.queue) :
          g.train = s /\ g.speed = "go" /\ g.token # 0 => j.state = "launching" /\ j.launch = g.token
    BY <1>5, <1>6, <2>2 DEF SlotOK, GoOK
  <2>6. j.removing => j.state = "stop unconfirmed"
    BY <1>5, <1>6, <2>2 DEF SlotOK, RemovingOK
  <2> QED BY <2>3, <2>4, <2>5, <2>6 DEF Fits
<1> QED BY <1>2, <1>4, <1>6, <1>7, GotJob

\* Every outcome of a call keeps the invariant.
LEMMA AnsweredOK ==
  ASSUME IInv, Answered
  PROVE  IInv'
<1>1. CASE StopAnswered
  BY <1>1, StopConfirmedOK, StopRefusedOK DEF StopAnswered
<1>2. CASE Resumed
  BY <1>2, GotRuns, GotFails DEF Resumed
<1>3. CASE Corrected
  BY <1>3, GotRuns, GotFails DEF Corrected
<1>4. CASE Turned
  BY <1>4, TurnedOK, GotFails DEF Turned
<1>5. CASE Relaunched
  BY <1>5, GotRuns, GotFails DEF Relaunched
<1>6. CASE TurnedFirst
  BY <1>6, NothingGotOn, GotFails DEF TurnedFirst
<1>7. CASE Retargeted
  BY <1>7, NothingGotOn DEF Retargeted
<1> QED BY <1>1, <1>2, <1>3, <1>4, <1>5, <1>6, <1>7 DEF Answered

\* The train whose launch has been looked at.
LEMMA TheTarget ==
  ASSUME IInv, pc.seen # "none"
  PROVE  /\ Target \in Slots /\ job[Target].launch \in Tokens /\ call = NoCall
         /\ pc \in PcType
<1>1. pc \in PcType /\ call = NoCall /\ job[Target].launch # 0
      /\ (pc.at \in {"cancel", "remove"} => pc.pos \in Slots)
  BY DEF IInv, PcOK
<1>2. Target \in Slots
  <2>1. CASE pc.at \in {"cancel", "remove"}
    BY <1>1, <2>1 DEF Target
  <2>2. CASE pc.at \notin {"cancel", "remove"}
    <3> DEFINE n == pc.pos
    <3>1. n \in Nat
      BY <1>1 DEF PcType
    <3>2. N \in Nat \ {0} /\ Slots = 1 .. N
      BY SlotsAre
    <3>3. (n - 1) % N \in 0 .. (N - 1)
      <4> HIDE DEF n
      <4> QED BY <3>1, <3>2, SMT
    <3>4. Here(n) \in Slots
      BY <3>2, <3>3 DEF Here
    <3> QED BY <2>2, <3>4 DEF Target
  <2> QED BY <2>1, <2>2
<1>3. job[Target] \in JobType
  BY <1>2, AtWork
<1> QED BY <1>1, <1>2, <1>3 DEF JobType

\* With no call out, a command comes to an end, or another one begins.
LEMMA EndsOn ==
  ASSUME IInv, call = NoCall, NEW w, Fine(World, w, moving), Becomes(w), call' = call,
         lost' = lost, moving' = moving, pc' \in PcType, pc'.seen = "none",
         pc'.at \in {"cancel", "remove"} => pc'.pos \in Slots
  PROVE  IInv'
<1>1. call.is # "sent" /\ call' = NoCall
  BY DEF NoCall
<1> QED BY <1>1, Settles

\* The end of a command in a state with all slots sound keeps the invariant.
LEMMA OverOK ==
  ASSUME IInv, call = NoCall, NEW w, Fine(World, w, moving), Over(w)
  PROVE  IInv'
<1>1. Becomes(w) /\ pc' = Back /\ call' = call /\ lost' = lost /\ moving' = moving
  BY DEF Over
<1>2. pc' \in PcType /\ pc'.seen = "none" /\ pc'.at \notin {"cancel", "remove"}
  BY <1>1, BackIs
<1> QED BY <1>1, <1>2, EndsOn

\* Slots that stay sound.
LEMMA FineWell ==
  ASSUME NEW x, NEW w, NEW m, Fine(x, w, m), NEW v, WorldType(v), Well(w, v, m)
  PROVE  Fine(x, v, m)
<1> DEFINE T == {}
<1>1. LineOK(w) /\ OnlyStops(x, w) /\ \A s \in Slots \ T : SlotOK(w, m, s, FALSE)
  BY DEF Fine
<1>2. \A s \in Slots \cap T : SlotOK(v, m, s, FALSE)
  OBVIOUS
<1> HIDE DEF T
<1>3. Fine(w, v, m)
  BY <1>1, <1>2, WellIsFine
<1> QED BY <1>1, <1>3, FineChain

\* Such a state has no job that is being removed but says otherwise.
LEMMA FineRemoving ==
  ASSUME NEW x, NEW w, NEW m, Fine(x, w, m)
  PROVE  WorldType(w) /\ LineOK(w) /\ \A s \in Slots : RemovingOK(w, s)
BY DEF Fine, SlotOK

\* It stays so when a launch wave fails.
LEMMA FineWaveFails ==
  ASSUME NEW x, NEW w, NEW m, Fine(x, w, m), NEW b \in Tokens
  PROVE  Fine(x, WithFailedWave(w, b), m) /\ NoGoOf(WithFailedWave(w, b), b)
<1> DEFINE v == WithFailedWave(w, b)
<1>1. WorldType(v) /\ Well(w, v, m) /\ (b # 0 => NoGoOf(v, b))
  BY FineRemoving, WithFailedWaveOK
<1>2. b # 0
  BY SlotsAre
<1> HIDE DEF v
<1>3. Fine(x, v, m) /\ NoGoOf(v, b)
  BY <1>1, <1>2, FineWell
<1> QED BY <1>3 DEF v

\* It stays so when a launch wave is stopped.
LEMMA FineWaveStops ==
  ASSUME NEW x, NEW w, NEW m, Fine(x, w, m), NEW b \in Tokens
  PROVE  Fine(x, WithWaveStopped(w, b), m) /\ OnlyStops(w, WithWaveStopped(w, b))
<1> DEFINE v == WithWaveStopped(w, b)
<1>1. WorldType(v) /\ Well(w, v, m)
  BY FineRemoving, WithWaveStoppedOK
<1> HIDE DEF v
<1>2. Fine(x, v, m) /\ OnlyStops(w, v)
  BY <1>1, FineWell DEF Well
<1> QED BY <1>2 DEF v

\* The batch is cancelled.
LEMMA FineCancelled ==
  ASSUME IInv, call = NoCall, NEW b \in Tokens
  PROVE  /\ Fine(World, WithCancelled(World, b), moving) /\ NoGoOf(WithCancelled(World, b), b)
         /\ WithCancelled(World, b).job = job
         /\ WithCancelled(World, b).wire.frame = wire.frame
<1> DEFINE v == WithCancelled(World, b)
<1>1. Fine(World, World, moving)
  BY UnchangedIsFine
<1>2. Dropped(World, v) /\ WorldType(v) /\ (b # 0 => \A f \in Members(v.queue) : f.speed = "go" => f.token # b)
  BY <1>1, WithCancelledOK DEF Fine
<1>3. b # 0
  BY SlotsAre
<1> HIDE DEF v
<1>4. LineOK(v) /\ OnlyStops(World, v) /\ \A s \in Slots : Undisturbed(World, v, s)
  BY <1>1, <1>2, DroppedLine DEF Fine
<1>5. Well(World, v, moving)
  BY <1>4 DEF Well
<1>6. Fine(World, v, moving)
  BY <1>1, <1>2, <1>5, FineWell
<1>7. v.job = job /\ v.wire.frame = wire.frame
  BY <1>2, WorldIs DEF Dropped
<1>8. NoGoOf(v, b)
  BY <1>2, <1>3 DEF NoGoOf
<1> QED BY <1>6, <1>7, <1>8 DEF v

\* Dropping frames and adding stops adds no go.
LEMMA NoGoStays ==
  ASSUME NEW w, NEW v, NEW b, OnlyStops(w, v), NoGoOf(w, b)
  PROVE  NoGoOf(v, b)
BY DEF OnlyStops, NoGoOf

\* The launch of b taken back.
LEMMA FineRewound ==
  ASSUME IInv, call = NoCall, NEW b \in Tokens, NEW except,
         except \in Slots => job[except].state \in {"launching", "running"}
  PROVE  LET v == Rewound(WithCancelled(World, b), b, except)
         IN  Fine(World, v, moving) /\ NoGoOf(v, b)
<1> DEFINE w == WithCancelled(World, b)
           v == Rewound(w, b, except)
<1>1. Fine(World, w, moving) /\ NoGoOf(w, b) /\ w.job = job /\ w.wire.frame = wire.frame
  BY FineCancelled
<1>2. Quiet(World) /\ moving \in [Slots -> BOOLEAN]
  BY AtWork
<1> HIDE DEF w
<1>3. Quiet(w)
  BY <1>1, <1>2 DEF Fine, OnlyStops, Quiet
<1>4. WorldType(w) /\ LineOK(w) /\ OnlyStops(World, w) /\ \A s \in Slots : SlotOK(w, moving, s, FALSE)
  BY <1>1 DEF Fine
<1>5. except \in Slots => w.job[except].state \in {"launching", "running"}
  BY <1>1
<1>6. Fine(w, v, moving)
  BY <1>1, <1>2, <1>3, <1>4, <1>5, RewoundOK
<1> HIDE DEF v
<1>7. Fine(World, v, moving) /\ NoGoOf(v, b)
  BY <1>1, <1>4, <1>6, FineChain, NoGoStays DEF Fine
<1> QED BY <1>7 DEF v, w

-----------------------------------------------------------------------------
(* A pass over the survivors.                                              *)

\* restart_prearmed_stationary_survivors keeps the invariant, whatever
\* became of the batch since it was looked at.
LEMMA SurvivorOK ==
  ASSUME IInv, Survivor
  PROVE  IInv'
<1> DEFINE b == job[Target].launch
           w == WithCancelled(World, b)
           zero == 0
<1>1. b \in Tokens /\ call = NoCall /\ pc \in PcType
  BY TheTarget DEF Survivor
<1>2. /\ pc.at \in {"cancelled", "removed"}
      /\ \/ Step(pc.pos, WithFailedWave(World, b))
         \/ Step(pc.pos, WithWaveStopped(World, b))
         \/ Step(pc.pos, WithWaveStopped(w, b))
         \/ Step(pc.pos, Rewound(w, b, zero))
  BY DEF Survivor
<1>3. zero \notin Slots
  BY SlotsAre
<1> HIDE DEF b, zero
<1>4. Fine(World, World, moving) /\ Fine(World, w, moving)
  BY <1>1, UnchangedIsFine, FineCancelled
<1>5. /\ Fine(World, WithFailedWave(World, b), moving)
      /\ Fine(World, WithWaveStopped(World, b), moving)
      /\ Fine(World, Rewound(w, b, zero), moving)
  BY <1>1, <1>3, <1>4, FineWaveFails, FineWaveStops, FineRewound
<1>6. Fine(World, WithWaveStopped(w, b), moving)
  <2> HIDE DEF w
  <2> QED BY <1>1, <1>4, FineWaveStops
<1>7. ASSUME NEW v, Fine(World, v, moving), Step(pc.pos, v)
      PROVE  IInv'
  <2>1. pc' = [pc EXCEPT !.pos = pc.pos, !.seen = "none"] /\ Becomes(v) /\ call' = call
        /\ lost' = lost /\ moving' = moving
    BY <1>7 DEF Step
  <2>2. pc' \in PcType /\ pc'.seen = "none" /\ pc'.at \notin {"cancel", "remove"}
    BY <1>1, <1>2, <2>1 DEF PcType
  <2> QED BY <1>1, <1>7, <2>1, <2>2, EndsOn
<1> QED BY <1>2, <1>5, <1>6, <1>7

-----------------------------------------------------------------------------
(* A command looks at the launch.                                          *)

\* A cancel of a train that stands keeps the invariant.
LEMMA CancelAgainOK ==
  ASSUME IInv, CancelAgain
  PROVE  IInv'
<1>1. call = NoCall /\ pc' = Stop("cancelled", 0, pc.back)
      /\ UNCHANGED <<job, call, queue, wire, batch, lost, moving>>
  BY DEF CancelAgain, AtCommand
<1>2. pc.back \in Nat
  BY DEF IInv, PcOK, PcType
<1>3. pc' \in PcType /\ pc'.seen = "none" /\ pc'.at = "cancelled"
  BY <1>1, <1>2, StopIs
<1>4. PcOK'
  BY <1>3 DEF PcOK
<1> QED BY <1>1, <1>4, PcOnly

\* A launch that is complete has no command left to send.
LEMMA CompleteIsSent ==
  ASSUME IInv, call = NoCall, NEW s \in Slots, Reading(job[s].launch) = "complete"
  PROVE  ~GoQueued(World, s)
<1> DEFINE b == job[s].launch
<1>1. ~Failed(b) /\ batch[b].left = 0
  BY DEF Reading
<1>2. b # 0 /\ ~batch[b].failed
  BY <1>1 DEF Failed
<1>3. b \in Tokens /\ LineOK(World) /\ SlotOK(World, moving, s, FALSE) /\ Quiet(World)
  <2>1. job[s] \in JobType
    BY AtWork
  <2>2. b \in Tokens
    BY <1>2, <2>1 DEF JobType
  <2> QED BY <2>2, AtWork
<1> HIDE DEF b
<1>4. ~IsOut(World, b, s)
  BY <1>1, <1>2, <1>3, WorldIs, NoneOut
<1>5. \A f \in Members(World.queue) : f.train = s /\ f.speed = "go" => f.token = b
  BY <1>3, WorldIs DEF SlotOK, GoOK, Quiet, b
<1> QED BY <1>4, <1>5 DEF GoQueued, IsOut

\* The look at the batch of a launch that is to be taken back keeps the
\* invariant.
LEMMA TakeBackReadsOK ==
  ASSUME IInv, TakeBackReads
  PROVE  IInv'
<1>1. /\ call = NoCall /\ pc.at \in {"cancel", "remove"} /\ Read(pc.pos)
      /\ Is(Target, {"launching", "running"}) /\ job[Target].launch # 0
  BY DEF TakeBackReads, AtCommand
<1>2. Target = pc.pos /\ pc.pos \in Slots /\ pc \in PcType
  BY <1>1 DEF IInv, PcOK, Target
<1> DEFINE r == Reading(job[pc.pos].launch)
<1>3. pc' = [pc EXCEPT !.pos = pc.pos, !.seen = r]
      /\ UNCHANGED <<job, call, queue, wire, batch, lost, moving>>
  BY <1>1 DEF Read
<1>4. r \in {"failed", "complete", "unconfirmed", "partly"}
  BY ReadingIs
<1>5. r = "complete" => ~GoQueued(World, pc.pos)
  BY <1>1, <1>2, CompleteIsSent
<1> HIDE DEF r
<1>6. pc' \in PcType /\ pc'.at = pc.at /\ pc'.pos = pc.pos /\ pc'.seen = r
  BY <1>2, <1>3, <1>4 DEF PcType
<1>7. Target' = Target
  BY <1>6 DEF Target, Here
<1>8. World' = World /\ job' = job /\ call' = call
  BY <1>3 DEF World
<1>9. PcOK'
  BY <1>1, <1>2, <1>5, <1>6, <1>7, <1>8 DEF PcOK, Is
<1> QED BY <1>1, <1>3, <1>9, PcOnly

-----------------------------------------------------------------------------
(* The train is told to stop.                                              *)

\* No command to start is left for the train.
LEMMA NoGoLeft ==
  ASSUME IInv, call = NoCall, NEW s \in Slots, NEW v, OnlyStops(World, v),
         NoGoOf(v, job[s].launch)
  PROVE  ~GoQueued(v, s)
<1>1. SlotOK(World, moving, s, FALSE) /\ Quiet(World)
  BY AtWork
<1>2. \A f \in Members(World.queue) : f.train = s /\ f.speed = "go" => f.token = job[s].launch
  BY <1>1, WorldIs DEF SlotOK, GoOK, Quiet
<1> QED BY <1>2 DEF OnlyStops, NoGoOf, GoQueued

\* Telling the train to stop keeps the invariant, if no command to start is
\* left for it.
LEMMA ZeroOK ==
  ASSUME IInv, call = NoCall, pc.at \in {"cancel", "remove"}, NEW w, Fine(World, w, moving),
         ~GoQueued(w, Target), NEW why \in TakingBack, Zero(w, why)
  PROVE  IInv'
<1>1. Target = pc.pos /\ pc.pos \in Slots /\ pc.at # "receive" /\ pc.pos \in Nat
  <2>1. Target = pc.pos /\ pc.pos \in Slots
    BY DEF IInv, PcOK, Target
  <2> QED BY <2>1, SlotsAreNat
<1>2. why \in Reasons /\ Told(why) = "stop"
  BY DEF Reasons, TakingBack, Told
<1>3. Ask(pc.pos, w, pc.pos, Told(why), Attempts, why)
  BY <1>1, <1>2 DEF Zero
<1>4. Attempts \in Nat \ {0}
  BY AttemptsAre
<1>5. ~GoQueued(w, pc.pos)
  BY <1>1
<1> DEFINE n == pc.pos
<1>6. n \in Nat /\ n \in Slots
  BY <1>1
<1>7. /\ Ask(n, w, n, Told(why), Attempts, why) /\ ~GoQueued(w, n)
  BY <1>3, <1>5
<1> HIDE DEF n
<1> QED BY <1>1, <1>2, <1>4, <1>6, <1>7, Asks

\* Telling a train to stop that is not being launched keeps the invariant.
LEMMA StopFirstOK ==
  ASSUME IInv, StopFirst
  PROVE  IInv'
<1>1. /\ call = NoCall /\ pc.at \in {"cancel", "remove"} /\ Zero(World, pc.at)
      /\ ~(Is(Target, {"launching", "running"}) /\ job[Target].launch # 0)
  BY DEF StopFirst, AtCommand
<1>2. Target \in Slots
  BY <1>1 DEF IInv, PcOK, Target
<1>3. ~GoQueued(World, Target)
  <2>1. SlotOK(World, moving, Target, FALSE) /\ Quiet(World)
    BY <1>1, <1>2, AtWork
  <2>2. \A f \in Members(World.queue) : f.train = Target /\ f.speed = "go" =>
          job[Target].state = "launching" /\ job[Target].launch # 0
    BY <2>1, WorldIs DEF SlotOK, GoOK, Quiet
  <2> QED BY <1>1, <2>2 DEF GoQueued, Is
<1>4. pc.at \in TakingBack
  BY <1>1 DEF TakingBack
<1>5. Fine(World, World, moving)
  BY <1>1, UnchangedIsFine
<1> QED BY <1>1, <1>3, <1>4, <1>5, ZeroOK

\* Taking back a launch keeps the invariant, whatever became of the batch
\* since it was looked at.
LEMMA TakeBackOK ==
  ASSUME IInv, TakeBack
  PROVE  IInv'
<1> DEFINE b == job[Target].launch
           w == WithCancelled(World, b)
           stopped == WithWaveStopped(w, b)
           why == "after wave"
           f == WithFailedWave(World, b)
           r == Rewound(w, b, Target)
<1>1. /\ pc.at \in {"cancel", "remove"} /\ call = NoCall
      /\ \/ Zero(f, pc.at)
         \/ pc.seen = "complete" /\ Zero(World, pc.at)
         \/ Over(f)
         \/ Over(stopped)
         \/ Zero(stopped, why)
         \/ Zero(r, pc.at)
  BY DEF TakeBack
<1>2. /\ Target \in Slots /\ b \in Tokens /\ Target = pc.pos
      /\ Is(Target, {"launching", "running"})
      /\ pc.seen = "complete" => ~GoQueued(World, Target)
  <2>1. pc.seen # "none"
    BY DEF TakeBack
  <2>2. Target \in Slots /\ b \in Tokens
    BY <2>1, TheTarget
  <2>3. Target = pc.pos
    BY <1>1 DEF Target
  <2> QED BY <1>1, <2>1, <2>2, <2>3 DEF IInv, PcOK
<1>3. why \in TakingBack /\ pc.at \in TakingBack
  BY <1>1 DEF TakingBack
<1>4. Fine(World, World, moving) /\ Fine(World, w, moving) /\ NoGoOf(w, b)
  BY <1>1, <1>2, UnchangedIsFine, FineCancelled
<1>5. Fine(World, f, moving) /\ NoGoOf(f, b)
  BY <1>2, <1>4, FineWaveFails
<1>6. Fine(World, r, moving) /\ NoGoOf(r, b)
  <2>1. Target \in Slots => job[Target].state \in {"launching", "running"}
    BY <1>2 DEF Is
  <2> QED BY <1>1, <1>2, <2>1, FineRewound
<1> HIDE DEF why, f, r, w
<1>7. Fine(World, stopped, moving) /\ NoGoOf(stopped, b)
  <2>1. Fine(World, stopped, moving) /\ OnlyStops(w, stopped)
    BY <1>2, <1>4, FineWaveStops
  <2> QED BY <1>4, <2>1, NoGoStays
<1> HIDE DEF stopped
<1>8. ~GoQueued(f, Target) /\ ~GoQueued(r, Target) /\ ~GoQueued(stopped, Target)
  BY <1>1, <1>2, <1>5, <1>6, <1>7, NoGoLeft DEF Fine
<1> QED BY <1>1, <1>2, <1>3, <1>4, <1>5, <1>6, <1>7, <1>8, OverOK, ZeroOK

\* The zero of a command has been answered.
Zeroed(s) ==
  /\ s = Target /\ s = call.train /\ CallAnswered(s)
  /\ \A t \in Slots : SlotOK(World, moving, t, FALSE)
  /\ call.is = "done" => ~Go(World, moving, s)
  /\ pc.at \in {"cancel", "remove"} /\ pc.back \in Nat

\* What is known when the train has been told to stop.
LEMMA ZeroAnswered ==
  ASSUME IInv, call.is \in {"done", "failed"}, call.why \in TakingBack
  PROVE  Zeroed(call.train)
<1> DEFINE s == call.train
<1>1. CallAnswered(s) /\ call # NoCall
  BY CallIsAnswered DEF NoCall
<1>2. call.speed = "stop"
  BY DEF IInv, CallOK, Told, TakingBack
<1>3. GoCall(call, s) = FALSE
  BY <1>2 DEF GoCall
<1>4. \A t \in Slots : SlotOK(World, moving, t, FALSE)
  <2>1. SlotOK(World, moving, s, FALSE)
    BY <1>1, <1>3 DEF CallAnswered
  <2> QED BY <1>1, <2>1 DEF CallAnswered
<1>5. call.is = "done" => ~Go(World, moving, s)
  BY <1>1, <1>2 DEF IInv, CallOK
<1>6. pc.at \in {"cancel", "remove"} /\ pc.pos = s
  BY DEF IInv, CallOK
<1>7. s = Target
  BY <1>6 DEF Target
<1>8. pc.back \in Nat
  BY DEF IInv, PcOK, PcType
<1> QED BY <1>1, <1>4, <1>5, <1>6, <1>7, <1>8 DEF Zeroed

\* A zero that could not be confirmed keeps the invariant.
LEMMA TakeBackRefusedOK ==
  ASSUME IInv, TakeBackRefused
  PROVE  IInv'
<1> DEFINE s == Target
           v == IF call.why = "after wave" THEN WithFailedJob(World, s) ELSE World
<1>1. /\ call.is = "failed" /\ call.why \in TakingBack /\ call' = NoCall /\ Becomes(v)
      /\ pc' = Back /\ lost' = lost /\ moving' = moving
  BY DEF TakeBackRefused, TakingBack
<1>2. Zeroed(s)
  <2>1. Zeroed(call.train)
    BY <1>1, ZeroAnswered
  <2> QED BY <2>1 DEF Zeroed
<1>3. /\ s \in Slots /\ WorldType(World) /\ LineOK(World) /\ OnlyStops(World, World)
      /\ \A t \in Slots : SlotOK(World, moving, t, FALSE)
  BY <1>2 DEF Zeroed, CallAnswered
<1> HIDE DEF s
<1>4. Fine(World, WithFailedJob(World, s), moving) /\ Fine(World, World, moving)
  BY <1>3, FailsOne DEF Fine
<1>5. Fine(World, v, moving)
  BY <1>4
<1>6. pc' \in PcType /\ pc'.seen = "none" /\ pc'.at \notin {"cancel", "remove"}
  BY <1>1, BackIs
<1> HIDE DEF v
<1> QED BY <1>1, <1>5, <1>6, Settles

\* Its outcome is a job that stands.
LEMMA TakenOK ==
  ASSUME IInv, NEW w, NEW next, TakenBack(w, next), Fine(World, w, moving),
         next \in PcType, next.seen = "none", next.at \notin {"cancel", "remove"}
  PROVE  IInv'
<1>1. /\ call.is = "done" /\ call' = NoCall /\ Becomes(w) /\ pc' = next
      /\ lost' = lost /\ moving' = moving
  BY DEF TakenBack
<1> QED BY <1>1, Settles

\* Where a command goes on.
LEMMA Nexts ==
  ASSUME IInv
  PROVE  /\ Stop("cancelled", 0, pc.back) \in PcType
         /\ Stop("cancelled", 0, pc.back).seen = "none"
         /\ Stop("cancelled", 0, pc.back).at = "cancelled"
         /\ Stop("removed", 0, 0) \in PcType
         /\ Stop("removed", 0, 0).seen = "none"
         /\ Stop("removed", 0, 0).at = "removed"
         /\ Receive \in PcType /\ Receive.seen = "none" /\ Receive.at = "receive"
<1>1. pc.back \in Nat
  BY DEF IInv, PcOK, PcType
<1> QED BY <1>1 DEF Stop, Receive, PcType

\* A train that stands may get any job that does not move.
FitsRest(j) ==
  /\ j \in JobType /\ (j.removing => j.state = "stop unconfirmed")
  /\ j.estop = 0 \/ j.state \notin {"braking", "failed"}

\* A train that stands may be given such a job.
LEMMA FineRest ==
  ASSUME NEW x, NEW w, NEW m, NEW s \in Slots, WorldType(w), LineOK(w), OnlyStops(x, w),
         \A t \in Slots : SlotOK(w, m, t, FALSE),
         ~Go(w, m, s), NEW j, FitsRest(j)
  PROVE  Fine(x, With(w, s, j), m)
<1>1. Fits(w, m, s, j)
  BY DEF Fits, FitsRest, Go, GoQueued
<1>2. j \in JobType /\ \A t \in Slots \ {s} : SlotOK(w, m, t, FALSE)
  BY DEF FitsRest
<1>3. Fine(w, With(w, s, j), m)
  BY <1>1, <1>2, FittingJob
<1> QED BY <1>3, FineChain

\* A job that is released is one.
LEMMA ReleasedIs ==
  ASSUME NEW s \in Slots, job[s] \in JobType, NEW state \in {"cancel braking", "stop unconfirmed"}
  PROVE  FitsRest([job[s] EXCEPT !.state = state, !.estop = 0, !.retry = FALSE,
                                !.launch = 0, !.rewound = FALSE, !.removing = FALSE])
<1> DEFINE j == [job[s] EXCEPT !.state = state, !.estop = 0, !.retry = FALSE,
                                !.launch = 0, !.rewound = FALSE, !.removing = FALSE]
<1>1. j \in JobType /\ j.estop = 0 /\ ~j.removing
  BY DEF JobType, StateNames
<1> HIDE DEF j
<1>2. FitsRest(j)
  BY <1>1 DEF FitsRest
<1> QED BY <1>2 DEF j

\* So is no job.
LEMMA NoJobIs == FitsRest(NoJob)
<1>1. NoJob \in JobType /\ NoJob.estop = 0 /\ ~NoJob.removing
  BY DEF NoJob, JobType, StateNames
<1> QED BY <1>1 DEF FitsRest

\* Releasing the job of a train whose zero is confirmed keeps all slots
\* sound.
LEMMA ReleasedOK ==
  ASSUME NEW s, Zeroed(s), call.is = "done", NEW state \in {"cancel braking", "stop unconfirmed"}
  PROVE  Fine(World, Released(s, state), moving)
<1> DEFINE j == [job[s] EXCEPT !.state = state, !.estop = 0, !.retry = FALSE,
                                !.launch = 0, !.rewound = FALSE, !.removing = FALSE]
<1>1. /\ s \in Slots /\ job[s] \in JobType /\ WorldType(World) /\ LineOK(World)
      /\ OnlyStops(World, World)
      /\ \A t \in Slots : SlotOK(World, moving, t, FALSE)
      /\ ~Go(World, moving, s)
  BY DEF Zeroed, CallAnswered
<1>2. FitsRest(j)
  BY <1>1, ReleasedIs
<1>3. Released(s, state) = With(World, s, j)
  BY DEF Released
<1> HIDE DEF j
<1> QED BY <1>1, <1>2, <1>3, FineRest

\* cancel_job, once the zero is confirmed, keeps the invariant.
LEMMA CancelledOK ==
  ASSUME IInv, Cancelled
  PROVE  IInv'
<1> DEFINE s == Target
           next == Stop("cancelled", 0, pc.back)
           j == [job[s] EXCEPT !.estop = 0]
<1>1. /\ call.is = "done" /\ call.why \in TakingBack
      /\ \/ TakenBack(Released(s, "cancel braking"), next)
         \/ TakenBack(Released(s, "stop unconfirmed"), Back)
         \/ TakenBack(With(World, s, j), Back)
  BY DEF Cancelled, TakenBack, TakingBack, Unstopped
<1>2. Zeroed(s)
  <2>1. Zeroed(call.train)
    BY <1>1, ZeroAnswered
  <2> QED BY <2>1 DEF Zeroed
<1>3. next \in PcType /\ next.seen = "none" /\ next.at \notin {"cancel", "remove"}
  BY Nexts
<1>4. Back \in PcType /\ Back.seen = "none" /\ Back.at \notin {"cancel", "remove"}
  BY BackIs
<1> HIDE DEF s, next
<1>5. /\ Fine(World, Released(s, "cancel braking"), moving)
      /\ Fine(World, Released(s, "stop unconfirmed"), moving)
  BY <1>1, <1>2, ReleasedOK
<1>6. Fine(World, With(World, s, j), moving)
  <2>1. /\ s \in Slots /\ job[s] \in JobType /\ WorldType(World) /\ LineOK(World)
        /\ OnlyStops(World, World)
        /\ \A t \in Slots : SlotOK(World, moving, t, FALSE)
        /\ ~Go(World, moving, s)
    BY <1>1, <1>2 DEF Zeroed, CallAnswered
  <2>2. RemovingOK(World, s)
    BY <2>1 DEF SlotOK
  <2>3. j \in JobType /\ j.estop = 0 /\ (j.removing <=> job[s].removing) /\ j.state = job[s].state
    BY <2>1 DEF JobType
  <2> HIDE DEF j
  <2>4. FitsRest(j)
    BY <2>2, <2>3, WorldIs DEF FitsRest, RemovingOK
  <2> QED BY <2>1, <2>4, FineRest
<1> QED BY <1>1, <1>3, <1>4, <1>5, <1>6, TakenOK

\* remove_job, once the zero is confirmed, keeps the invariant.
LEMMA RemovedOK ==
  ASSUME IInv, Removed
  PROVE  IInv'
<1> DEFINE s == Target
           next == Stop("removed", 0, 0)
           w == Released(s, "stop unconfirmed")
           j == [w.job[s] EXCEPT !.removing = TRUE]
<1>1. /\ call.is = "done" /\ call.why \in TakingBack
      /\ TakenBack(With(w, s, j), Receive) \/ TakenBack(With(w, s, NoJob), next)
  BY DEF Removed, TakenBack, TakingBack
<1>2. Zeroed(s)
  <2>1. Zeroed(call.train)
    BY <1>1, ZeroAnswered
  <2> QED BY <2>1 DEF Zeroed
<1>3. next \in PcType /\ next.seen = "none" /\ next.at \notin {"cancel", "remove"}
      /\ Receive \in PcType /\ Receive.seen = "none" /\ Receive.at \notin {"cancel", "remove"}
  BY Nexts
<1> HIDE DEF s, next
<1>4. Fine(World, w, moving)
  BY <1>1, <1>2, ReleasedOK
<1>5. /\ s \in Slots /\ job[s] \in JobType /\ job \in [Slots -> JobType] /\ WorldType(World)
      /\ ~Go(World, moving, s)
  BY <1>1, <1>2 DEF Zeroed, CallAnswered
<1>6. w.queue = World.queue /\ w.wire = World.wire /\ w.job[s].state = "stop unconfirmed"
      /\ w.job[s].estop = 0
  <2> DEFINE i == [job[s] EXCEPT !.state = "stop unconfirmed", !.estop = 0, !.retry = FALSE,
                                !.launch = 0, !.rewound = FALSE, !.removing = FALSE]
  <2>1. w = With(World, s, i)
    BY DEF Released
  <2>2. i \in JobType /\ i.state = "stop unconfirmed" /\ i.estop = 0
    BY <1>5 DEF JobType, StateNames
  <2> HIDE DEF i, w
  <2>3. w.queue = World.queue /\ w.wire = World.wire /\ w.job[s] = i
    BY <1>5, <2>1, <2>2, WorldIs, WithOK
  <2> QED BY <2>2, <2>3
<1> HIDE DEF w
<1>7. /\ WorldType(w) /\ LineOK(w) /\ OnlyStops(World, w) /\ w.job[s] \in JobType
      /\ \A t \in Slots : SlotOK(w, moving, t, FALSE)
  BY <1>4, <1>5 DEF Fine, LineOK, LineType
<1>8. ~Go(w, moving, s)
  BY <1>5, <1>6 DEF Go, GoSent, GoQueued
<1>9. FitsRest(j)
  <2>1. j \in JobType /\ j.state = w.job[s].state /\ j.estop = w.job[s].estop
    BY <1>7 DEF JobType
  <2> HIDE DEF j
  <2> QED BY <1>6, <2>1 DEF FitsRest
<1> HIDE DEF j
<1>10. Fine(World, With(w, s, j), moving) /\ Fine(World, With(w, s, NoJob), moving)
  BY <1>5, <1>7, <1>8, <1>9, NoJobIs, FineRest
<1> QED BY <1>1, <1>3, <1>10, TakenOK

\* A second remove of a tombstone keeps the invariant.
LEMMA RemoveAgainOK ==
  ASSUME IInv, RemoveAgain
  PROVE  IInv'
<1> DEFINE s == Target
<1>1. call = NoCall /\ pc.at = "remove" /\ job[s].removing
  BY DEF RemoveAgain, AtCommand
<1>2. s \in Slots
  BY <1>1 DEF IInv, PcOK, Target
<1>3. \/ Over(World)
      \/ Becomes(With(World, s, NoJob)) /\ pc' = Stop("removed", 0, 0)
         /\ call' = call /\ lost' = lost /\ moving' = moving
  BY DEF RemoveAgain
<1> HIDE DEF s
<1>4. Fine(World, World, moving)
  BY <1>1, UnchangedIsFine
<1>5. CASE Over(World)
  BY <1>1, <1>4, <1>5, OverOK
<1>6. CASE Becomes(With(World, s, NoJob)) /\ pc' = Stop("removed", 0, 0)
         /\ call' = call /\ lost' = lost /\ moving' = moving
  <2>1. /\ WorldType(World) /\ LineOK(World) /\ OnlyStops(World, World)
        /\ \A t \in Slots : SlotOK(World, moving, t, FALSE)
    BY <1>4 DEF Fine
  <2>2. job[s].state = "stop unconfirmed"
    BY <1>1, <1>2, <2>1, WorldIs DEF SlotOK, RemovingOK
  <2>3. ~Go(World, moving, s)
    BY <1>2, <2>1, <2>2, WorldIs, Stands DEF Still, Excused
  <2>4. Fine(World, With(World, s, NoJob), moving)
    BY <1>2, <2>1, <2>3, NoJobIs, FineRest
  <2>5. pc' \in PcType /\ pc'.seen = "none" /\ pc'.at \notin {"cancel", "remove"}
    BY <1>6, Nexts
  <2> QED BY <1>1, <1>6, <2>4, <2>5, EndsOn
<1> QED BY <1>3, <1>5, <1>6

\* Every step of a cancel or a remove keeps the invariant.
LEMMA CommandStepOK ==
  ASSUME IInv, Command
  PROVE  IInv'
BY SurvivorOK, CancelAgainOK, TakeBackReadsOK, TakeBackOK, StopFirstOK, TakeBackRefusedOK,
   CancelledOK, RemovedOK, RemoveAgainOK DEF Command

-----------------------------------------------------------------------------
(* Requests, the tick, and the theorems.                                   *)

\* A request has come.
LEMMA AtReceive ==
  ASSUME IInv, pc = Receive
  PROVE  call = NoCall /\ pc.seen = "none" /\ pc.at = "receive"
<1>1. pc.at = "receive" /\ pc.seen = "none"
  BY DEF Receive
<1> QED BY <1>1 DEF IInv, CallOK

\* The requests to cancel and to remove keep the invariant.
LEMMA CancelRemoveOK ==
  ASSUME IInv, CancelJob \/ RemoveJob
  PROVE  IInv'
<1>1. call = NoCall
  BY AtReceive DEF CancelJob, RemoveJob
<1>2. \E at \in {"cancel", "remove"}, s \in Slots : Enter(at, s, 0)
  BY DEF CancelJob, RemoveJob
<1> DEFINE zero == 0
<1>3. zero \in Nat /\ \E at \in {"cancel", "remove"}, s \in Slots : Enter(at, s, zero)
  BY <1>2
<1> HIDE DEF zero
<1> QED BY <1>1, <1>3, EnterOK

\* Only jobs have changed.
LEMMA JobsChange ==
  ASSUME IInv, pc = Receive, job' \in [Slots -> JobType], FitsOrKeeps(World, moving, job'),
         UNCHANGED <<pc, call, queue, wire, batch, lost, moving>>
  PROVE  IInv'
<1>1. call = NoCall /\ pc.seen = "none" /\ pc.at = "receive"
  BY AtReceive
<1> DEFINE f == job'
           w == [World EXCEPT !.job = f]
<1>2. WorldType(World) /\ LineOK(World)
  BY AtWork
<1>3. Fine(World, w, moving)
  <2>1. f \in [Slots -> JobType] /\ FitsOrKeeps(World, moving, f)
    OBVIOUS
  <2> HIDE DEF f
  <2> QED BY <1>2, <2>1, FittingJobs
<1>4. World' = w
  BY DEF World
<1> HIDE DEF w
<1>5. LineOK(World') /\ \A s \in Slots : SlotOK(World', moving, s, FALSE)
  BY <1>3, <1>4 DEF Fine
<1>6. \A s \in Slots : SlotOK(World', moving', s, GoCall(call', s))
  <2>1. moving' = moving
    OBVIOUS
  <2> QED BY <1>5, <2>1, Weaker
<1>7. CallOK'
  BY <1>1 DEF CallOK, CallType, NoCall, Told, TakingBack
<1>8. CommandOK' /\ WireOK'
  BY DEF IInv, CommandOK, WireOK
<1>9. PcOK'
  <2>1. pc' = pc /\ pc' \in PcType
    BY DEF IInv, PcOK
  <2> QED BY <1>1, <2>1 DEF PcOK
<1> QED BY <1>5, <1>6, <1>7, <1>8, <1>9 DEF IInv

\* stage_job keeps the invariant.
LEMMA StageOK ==
  ASSUME IInv, Stage
  PROVE  IInv'
<1> PICK s \in Slots : Is(s, {"empty", "arrived", "stopped"})
                       /\ job' = [job EXCEPT ![s] = [NoJob EXCEPT !.state = "staged"]]
  BY DEF Stage
<1> DEFINE j == [NoJob EXCEPT !.state = "staged"]
<1>1. pc = Receive /\ UNCHANGED <<pc, call, queue, wire, batch, lost, moving>>
  BY DEF Stage
<1>2. call = NoCall
  BY <1>1, AtReceive
<1>3. /\ job \in [Slots -> JobType] /\ \A t \in Slots : SlotOK(World, moving, t, FALSE)
  BY <1>2, AtWork
<1>4. j \in JobType /\ ~j.removing /\ j.estop = 0
  BY DEF NoJob, JobType, StateNames
<1>5. job' = [job EXCEPT ![s] = j]
  OBVIOUS
<1> HIDE DEF j
<1>6. job' \in [Slots -> JobType] /\ job'[s] = j /\ \A t \in Slots \ {s} : job'[t] = job[t]
  BY <1>3, <1>4, <1>5
<1>7. ~Go(World, moving, s)
  BY <1>3, WorldIs, Stands DEF Is, Still, Excused
<1>8. Fits(World, moving, s, job'[s])
  BY <1>4, <1>6, <1>7, FitsStanding
<1>9. FitsOrKeeps(World, moving, job')
  <2>1. \A t \in Slots \ {s} : KeepsJob(World, moving, t, job')
    BY <1>3, <1>6, WorldIs DEF KeepsJob
  <2> QED BY <1>8, <2>1 DEF FitsOrKeeps
<1> QED BY <1>1, <1>6, <1>9, JobsChange

\* The request to start all staged trains keeps the invariant.
LEMMA StartAllOK ==
  ASSUME IInv, StartAll
  PROVE  IInv'
<1>1. /\ pc = Receive /\ UNCHANGED <<pc, call, queue, wire, batch, lost, moving>>
      /\ job' = [s \in Slots |-> IF job[s].state = "staged"
                                 THEN [job[s] EXCEPT !.state = "waiting"] ELSE job[s]]
  BY DEF StartAll, Is
<1>2. call = NoCall
  BY <1>1, AtReceive
<1>3. /\ job \in [Slots -> JobType] /\ \A t \in Slots : SlotOK(World, moving, t, FALSE)
  BY <1>2, AtWork
<1>4. ASSUME NEW s \in Slots, job[s].state # "staged"
      PROVE  job'[s] \in JobType /\ KeepsJob(World, moving, s, job')
  <2>1. job'[s] = job[s]
    BY <1>1, <1>4
  <2> QED BY <1>3, <2>1, WorldIs DEF KeepsJob
<1>5. ASSUME NEW s \in Slots, job[s].state = "staged"
      PROVE  job'[s] \in JobType /\ Fits(World, moving, s, job'[s])
  <2> DEFINE j == [job[s] EXCEPT !.state = "waiting"]
  <2>1. job'[s] = j
    BY <1>1, <1>5
  <2>2. SlotOK(World, moving, s, FALSE) /\ job[s] \in JobType
    BY <1>3
  <2>3. ~Go(World, moving, s)
    BY <1>5, <2>2, WorldIs, Stands DEF Still, Excused
  <2>4. ~job[s].removing
    BY <1>5, <2>2, WorldIs DEF SlotOK, RemovingOK
  <2>5. j \in JobType /\ (j.removing <=> job[s].removing) /\ j.state = "waiting"
    BY <2>2 DEF JobType, StateNames
  <2> HIDE DEF j
  <2> QED BY <2>1, <2>3, <2>4, <2>5, FitsStanding
<1>6. job' \in [Slots -> JobType]
  BY <1>1, <1>4, <1>5
<1>7. FitsOrKeeps(World, moving, job')
  BY <1>4, <1>5 DEF FitsOrKeeps
<1> QED BY <1>1, <1>6, <1>7, JobsChange

\* A supervisor's intervention keeps the invariant.
LEMMA TripOK ==
  ASSUME IInv, Trip
  PROVE  IInv'
<1> DEFINE S == {s \in Slots : Is(s,
                {"preparing", "ready", "launching", "running", "braking", "reversing",
                 "cancel braking"})}
           w == WithFailedJobs(World, S)
<1>1. /\ pc = Receive /\ Becomes(w) /\ pc' = Stop("tripped", 0, 0)
      /\ call' = call /\ lost' = lost /\ moving' = moving
  BY DEF Trip
<1>2. call = NoCall
  BY <1>1, AtReceive
<1>3. S \subseteq Slots
  OBVIOUS
<1> HIDE DEF S
<1>4. Fine(World, World, moving)
  BY <1>2, UnchangedIsFine
<1>5. Fine(World, w, moving)
  BY <1>3, <1>4, FineFails
<1> HIDE DEF w
<1>6. pc' \in PcType /\ pc'.seen = "none" /\ pc'.at \notin {"cancel", "remove"}
  BY <1>1 DEF Stop, PcType
<1> QED BY <1>1, <1>2, <1>5, <1>6, EndsOn

\* The beginning of a tick keeps the invariant.
LEMMA TickOK ==
  ASSUME IInv, Tick
  PROVE  IInv'
<1>1. /\ pc = Receive /\ pc' = Stop("tick", 0, 0)
      /\ UNCHANGED <<job, call, queue, wire, batch, lost, moving>>
  BY DEF Tick
<1>2. call = NoCall
  BY <1>1, AtReceive
<1>3. pc' \in PcType /\ pc'.seen = "none" /\ pc'.at \notin {"cancel", "remove"}
  BY <1>1 DEF Stop, PcType
<1>4. PcOK'
  BY <1>3 DEF PcOK
<1> QED BY <1>1, <1>2, <1>4, PcOnly

\* The invariant holds at the beginning.
LEMMA InitOK ==
  ASSUME Init
  PROVE  IInv
<1>1. /\ job = [s \in Slots |-> NoJob] /\ pc = Receive /\ call = NoCall
      /\ queue = <<>> /\ wire = NoWire /\ batch = [b \in Tokens |-> NoBatch]
      /\ lost = 0 /\ moving = [s \in Slots |-> FALSE]
  BY DEF Init
<1>2. NoJob \in JobType /\ NoBatch \in BatchType /\ NoWire \in WireType /\ ~NoWire.wanted
      /\ ~NoWire.obeyed /\ NoWire.frame = NoFrame
  BY DEF NoJob, JobType, StateNames, NoBatch, BatchType, NoWire, WireType
<1>3. job \in [Slots -> JobType] /\ batch \in [Tokens -> BatchType] /\ moving \in [Slots -> BOOLEAN]
  BY <1>1, <1>2
<1>4. queue \in Seq(Frames) /\ InjectiveSeq(queue) /\ \A f : f \notin Members(queue)
  BY <1>1 DEF InjectiveSeq, Members
<1>5. LineType(World)
  BY <1>1, <1>2, <1>3, <1>4, WorldIs DEF LineType
<1>6. OneEach(World) /\ NoGoFailed(World)
  BY <1>4, WorldIs DEF OneEach, NoGoFailed
<1>7. Counted(World)
  <2> SUFFICES ASSUME NEW b \in Tokens
               PROVE  Cardinality(Out(World, b)) <= World.batch[b].left
    BY DEF Counted
  <2>1. Out(World, b) = {}
    BY <1>1, <1>2, <1>4, WorldIs DEF Out, IsOut
  <2>2. Cardinality(Out(World, b)) = 0
    BY <2>1, FS_EmptySet
  <2>3. World.batch[b] \in BatchType
    BY <1>3, WorldIs
  <2> QED BY <2>2, <2>3 DEF BatchType
<1>8. ASSUME NEW s \in Slots PROVE SlotOK(World, moving, s, GoCall(call, s))
  <2>1. World.job[s] = NoJob /\ ~moving[s]
    BY <1>1, WorldIs
  <2>2. ~Go(World, moving, s)
    <3>1. ~GoSent(World, s)
      BY <1>1, WorldIs DEF GoSent, NoWire, NoFrame
    <3> QED BY <1>4, <2>1, <3>1, WorldIs DEF Go, GoQueued
  <2> QED BY <1>4, <2>1, <2>2, WorldIs DEF SlotOK, StillOK, StopOK, GoOK, RemovingOK, NoJob
<1>9. CallOK
  BY <1>1 DEF CallOK, CallType, NoCall, Told, TakingBack
<1>10. CommandOK
  BY <1>1, <1>2, <1>4 DEF CommandOK
<1>11. WireOK
  BY <1>1, <1>2 DEF WireOK
<1>12. PcOK
  BY <1>1 DEF PcOK, PcType, Receive
<1> QED BY <1>1, <1>3, <1>5, <1>6, <1>7, <1>8, <1>9, <1>10, <1>11, <1>12 DEF IInv, LineOK

\* It holds on when nothing happens.
LEMMA StutterOK ==
  ASSUME IInv, UNCHANGED vars
  PROVE  IInv'
<1>1. /\ job' = job /\ pc' = pc /\ call' = call /\ queue' = queue /\ wire' = wire
      /\ batch' = batch /\ lost' = lost /\ moving' = moving
  BY DEF vars
<1>2. World' = World /\ Target' = Target
  BY <1>1 DEF World, Target, Here
<1>3. CallOK' /\ CommandOK' /\ WireOK' /\ PcOK'
  BY <1>1, <1>2 DEF IInv, CallOK, CommandOK, WireOK, PcOK, Is
<1> QED BY <1>1, <1>2, <1>3 DEF IInv

\* Every step keeps it.
LEMMA NextOK ==
  ASSUME IInv, [Next]_vars
  PROVE  IInv'
<1>1. CASE Work
  BY <1>1, PassOK, EndPassOK, AnsweredOK, CommandStepOK DEF Work
<1>2. CASE Requests
  BY <1>2, CancelRemoveOK, StageOK, StartAllOK, TripOK DEF Requests
<1>3. CASE Tick
  BY <1>3, TickOK
<1>4. CASE Line
  BY <1>4, SendOK, AnswerOK, TimeoutOK, SendAgainOK DEF Line
<1>5. CASE UNCHANGED vars
  BY <1>5, StutterOK
<1> QED BY <1>1, <1>2, <1>3, <1>4, <1>5 DEF Next

\* The inductive invariant holds in every state: the line is sound, each
\* job's state says no more of its train than the commands that are under
\* way allow, and what the dispatcher waits for or has looked at is what it
\* takes it for.
THEOREM JobInvariant == Spec => []IInv
<1>1. Init => IInv
  BY InitOK
<1>2. IInv /\ [Next]_vars => IInv'
  BY NextOK
<1> QED BY <1>1, <1>2, PTL DEF Spec

\* A train that may start has a go that the invariant speaks of.
LEMMA MayStartIs ==
  ASSUME NEW s, MayStart(s)
  PROVE  Go(World, moving, s)
<1>1. \A i \in DOMAIN queue : queue[i] \in Members(queue)
  BY DEF Members
<1> QED BY <1>1, WorldIs DEF MayStart, Go, GoSent, GoQueued

\* The invariant implies that what moves is watched.
LEMMA InvIsWatched ==
  ASSUME IInv
  PROVE  MovingMeansWatched
<1> SUFFICES ASSUME NEW s \in Slots, MayStart(s), ~Watched(s), ~job[s].rewound, call.train # s
             PROVE  FALSE
  BY DEF MovingMeansWatched
<1>1. SlotOK(World, moving, s, FALSE) /\ job[s] \in JobType
  BY AtWork
<1>2. job[s].state \in StateNames
  BY <1>1 DEF JobType
<1>3. Still(job[s])
  BY <1>2 DEF Watched, Is, Still, StateNames
<1>4. ~Go(World, moving, s)
  BY <1>1, <1>3, WorldIs, Stands DEF Excused
<1> QED BY <1>4, MayStartIs

\* The invariant implies that what rests stands.
LEMMA InvRests ==
  ASSUME IInv
  PROVE  RestingTrainsStand
<1> SUFFICES ASSUME NEW s \in Slots, call = NoCall,
                    Is(s, {"traffic hold", "arrived", "stopped", "stop unconfirmed"})
             PROVE  ~MayStart(s)
  BY DEF RestingTrainsStand
<1>1. SlotOK(World, moving, s, FALSE)
  BY AtWork
<1>2. ~Go(World, moving, s)
  BY <1>1, WorldIs, Stands DEF Is, Still, Excused
<1> QED BY <1>2, MayStartIs

\* A train that moves, or that a command on its way may yet set in motion,
\* has a job that the supervisor watches (has_active_motion_job), or is the
\* one the dispatcher is just giving a command to; the exception are trains
\* whose launch has been taken back.
THEOREM MovingIsWatched == Spec => []MovingMeansWatched
<1>1. IInv => MovingMeansWatched
  BY InvIsWatched
<1> QED BY <1>1, JobInvariant, PTL

\* A job that is held for traffic, has arrived or has settled after a cancel
\* stands: no command to start is on its way, and the stop has been carried
\* out.
THEOREM RestingStands == Spec => []RestingTrainsStand
<1>1. IInv => RestingTrainsStand
  BY InvRests
<1> QED BY <1>1, JobInvariant, PTL
=============================================================================
