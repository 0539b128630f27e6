------------------------- MODULE ConflictZoneProofs -------------------------
(***************************************************************************)
(* Proofs about ConflictZone, for every set of zones, stages, trains and   *)
(* programs and for every width of tickets and generations.                *)
(*                                                                         *)
(* Two facts make StagesSound inductive.  No ticket that is still held is  *)
(* the next one to be handed out, so that a new claim is told apart from   *)
(* every older one; and what a train owns under one ticket is a stage.     *)
(* Every step changes one train's lines, grants one train its stage, or    *)
(* moves zones on that belong together; the lemmas say what each of these  *)
(* keeps.                                                                  *)
(*                                                                         *)
(* The last two parts are about the table of ZoneRests: what a zone still  *)
(* has to rest makes up for what it has not rested yet, and every claim in *)
(* it is of its train's latest route.                                      *)
(***************************************************************************)
EXTENDS ZoneRests, FiniteSetTheorems, SequenceTheorems, TLAPS

Types ==
  /\ TypeOK
  /\ IsFiniteSet(registered)

\* Who owns a zone has a claim to it, and its delay has not begun to run.
ZoneStates ==
  \A z \in Zones :
    /\ owner[z] = NoTrain <=> grant[z] = NoClaim
    /\ phase[z] = "FREE" => owner[z] = NoTrain
    /\ phase[z] \in Unentered \cup {"OCCUPIED"} => owner[z] # NoTrain /\ releaseIn[z] = 0

\* What a train owns under one ticket is a stage.
Together(S) ==
  /\ S \in Stages
  /\ \A y, z \in S : /\ grant[y] = grant[z]
                     /\ phase[y] \notin Unentered =>
                          phase[z] = phase[y] /\ releaseIn[z] = releaseIn[y]

WholeCohorts == \A t \in Trains : \A x \in OwnedBy(t) : Together(Cohort(t, grant[x]))

ZoneInv == ZoneStates /\ WholeCohorts

Held(t, z) == {hard[t][z], soft[t][z]} \ {NoClaim}

WholeLines == \A t \in Trains : WholeClaim(hard[t]) /\ WholeClaim(soft[t])

\* No ticket is held twice by a train, or by two trains in one line.
TicketsApart ==
  /\ \A t \in Trains : \A y \in Zones :
       /\ hard[t][y] # NoClaim => \A z \in Zones : soft[t][z] # NoClaim =>
            soft[t][z].ticket # hard[t][y].ticket
       /\ \A c \in Held(t, y) : \A z \in OwnedBy(t) : grant[z].ticket # c.ticket
  /\ \A z \in Zones : \A t, u \in Trains : t # u =>
       \A c \in Held(t, z), d \in Held(u, z) : c.ticket # d.ticket

\* The next ticket is nobody's.
NextUnused ==
  \A z \in Zones :
    /\ \A t \in Trains : \A c \in Held(t, z) : c.ticket # nextTicket
    /\ owner[z] # NoTrain => grant[z].ticket # nextTicket

LineInv == WholeLines /\ OneRole /\ TicketsApart /\ NextUnused

IInv == Types /\ ZoneInv /\ LineInv /\ HoldersRegistered

-----------------------------------------------------------------------------
(* Tickets.                                                                *)

\* The ticket after the next one is held by nobody who is young enough.
LEMMA SuccessorUnused ==
  ASSUME nextTicket \in Tickets, NEW k \in Tickets, Age(k) < TicketSpace - 2
  PROVE  /\ Successor(nextTicket) \in Tickets
         /\ Successor(nextTicket) # nextTicket
         /\ k # Successor(nextTicket)
<1>1. TicketSpace \in Nat /\ TicketSpace >= 4 /\ nextTicket \in Int /\ k \in Int
  BY ZoneAssumption DEF Tickets
<1>2. (nextTicket - k) % TicketSpace =
        IF nextTicket >= k THEN nextTicket - k ELSE nextTicket - k + TicketSpace
  BY <1>1, SMT DEF Tickets
<1> QED BY <1>1, <1>2 DEF Age, Successor, Tickets

\* Of two tickets one is before the other.
LEMMA TicketsOrdered ==
  ASSUME NEW j \in Tickets, NEW k \in Tickets, j # k
  PROVE  Before(j, k) \/ Before(k, j)
<1>1. TicketSpace \in Nat /\ TicketSpace >= 4 /\ j \in Int /\ k \in Int
  BY ZoneAssumption DEF Tickets
<1>2. /\ (j - k) % TicketSpace = IF j >= k THEN j - k ELSE j - k + TicketSpace
      /\ (k - j) % TicketSpace = IF k >= j THEN k - j ELSE k - j + TicketSpace
  BY <1>1, SMT DEF Tickets
<1>3. TicketSpace \div 2 \in Nat /\ 2 * (TicketSpace \div 2) <= TicketSpace
  BY <1>1, SMT
<1> QED BY <1>1, <1>2, <1>3 DEF Before

\* What the guard of TakeTicket is for.
LEMMA TakenTicket ==
  ASSUME Types, ZoneStates, NextUnused, TakeTicket
  PROVE  /\ nextTicket' \in Tickets
         /\ nextTicket' # nextTicket
         /\ \A z \in Zones :
              /\ \A t \in Trains : \A c \in Held(t, z) : c.ticket # nextTicket'
              /\ owner[z] # NoTrain => grant[z].ticket # nextTicket'
<1>1. nextTicket' = Successor(nextTicket) /\ nextTicket \in Tickets /\ TicketsFresh
  BY DEF TakeTicket, Types, TypeOK
<1>2. TicketSpace \div 2 - 1 <= TicketSpace - 2
  <2>1. TicketSpace \in Nat /\ TicketSpace >= 4 BY ZoneAssumption
  <2>2. TicketSpace \div 2 \in Nat /\ 2 * (TicketSpace \div 2) <= TicketSpace BY <2>1, SMT
  <2> QED BY <2>1, <2>2
<1>3. \A k \in Tickets : Age(k) \in Nat
  <2>1. TicketSpace \in Nat \ {0} BY ZoneAssumption
  <2>2. ASSUME NEW k \in Tickets PROVE nextTicket - k \in Int BY <1>1 DEF Tickets
  <2> QED BY <2>1, <2>2 DEF Age
<1>4. Successor(nextTicket) \in Tickets /\ Successor(nextTicket) # nextTicket
  BY <1>1, ZoneAssumption DEF Successor, Tickets
<1>5. ASSUME NEW z \in Zones, NEW t \in Trains, NEW c \in Held(t, z)
      PROVE  c.ticket # nextTicket'
  <2>1. c \in ClaimsOf(z) /\ c \in Claims
    <3>1. c \in Claims
      BY <1>5 DEF Held, Types, TypeOK
    <3>2. c \in {hard[t][z], soft[t][z]} /\ c # NoClaim
      BY <1>5 DEF Held
    <3>3. {hard[t][z], soft[t][z]} \in {{hard[u][z], soft[u][z]} : u \in Trains}
      OBVIOUS
    <3>4. c \in UNION {{hard[u][z], soft[u][z]} : u \in Trains}
      BY <3>2, <3>3
    <3> QED BY <3>1, <3>2, <3>4 DEF ClaimsOf
  <2>2. c.ticket \in Tickets /\ Age(c.ticket) < TicketSpace \div 2 - 1
    BY <1>1, <2>1 DEF TicketsFresh, Claims
  <2>3. Age(c.ticket) < TicketSpace - 2
    <3>1. TicketSpace \div 2 - 1 \in Int /\ TicketSpace - 2 \in Int
      BY ZoneAssumption
    <3> QED BY <3>1, <2>2, <1>2, <1>3
  <2> QED BY <1>1, <2>2, <2>3, SuccessorUnused
<1>6. ASSUME NEW z \in Zones, owner[z] # NoTrain
      PROVE  grant[z].ticket # nextTicket'
  <2>1. grant[z] \in Claims /\ grant[z] # NoClaim
    BY <1>6, ZoneAssumption DEF ZoneStates, Types, TypeOK
  <2>2. grant[z].ticket \in Tickets /\ Age(grant[z].ticket) < TicketSpace - 2
    BY <1>1, <2>1 DEF TicketsFresh, Claims
  <2> QED BY <1>1, <2>2, SuccessorUnused
<1> QED BY <1>1, <1>4, <1>5, <1>6

-----------------------------------------------------------------------------
(* What a step may do.                                                     *)

\* A train's lines: kept or given up, after which it may queue for a stage
\* anew, hard or soft, or turn its soft claims into hard ones.
LineStep(t) ==
  \E h \in {hard[t], NoClaims}, q \in {soft[t], NoClaims} :
    \/ Queue(t, h, q) /\ UNCHANGED nextTicket
    \/ h = NoClaims /\ MayQueue(t, ZonesOf(q), h) /\ Queue(t, q, NoClaims) /\ UNCHANGED nextTicket
    \/ \E S \in Stages, g \in Generations, s \in Settings :
         /\ MayQueue(t, S, h) /\ TakeTicket
         /\ \/ /\ h = NoClaims /\ \A z \in S : q[z] = NoClaim
               /\ Queue(t, With(NoClaims, S, NewClaim(g, s)), q)
            \/ Queue(t, h, With(NoClaims, S, NewClaim(g, s)))

\* What is given up belongs to nobody, or is all a train has under a ticket.
Complete(S) ==
  \A z \in S : z \in Zones /\ (owner[z] # NoTrain => Cohort(owner[z], grant[z]) \subseteq S)

\* Nobody gets a zone.
Shrinks == \A z \in Zones : owner'[z] # NoTrain => owner'[z] = owner[z] /\ grant'[z] = grant[z]

\* A route generation leaves all of a whole claim, or nothing.
LEMMA PrunedWhole ==
  ASSUME NEW claims \in [Zones -> Claims \cup {NoClaim}], NEW g, WholeClaim(claims)
  PROVE  Pruned(claims, g) \in {claims, NoClaims}
<1>1. CASE \A z \in Zones : claims[z] = NoClaim \/ claims[z].generation = g
  <2>1. Pruned(claims, g) = claims
    BY <1>1 DEF Pruned
  <2> QED BY <2>1
<1>2. CASE \E z \in Zones : claims[z] # NoClaim /\ claims[z].generation # g
  <2>1. \A z \in Zones : claims[z] # NoClaim => claims[z].generation # g
    BY <1>2 DEF WholeClaim, ZonesOf
  <2>2. Pruned(claims, g) = NoClaims
    BY <2>1 DEF Pruned, NoClaims
  <2> QED BY <2>2
<1> QED BY <1>1, <1>2

\* What a train relinquishes belongs to nobody.
LEMMA RelinquishedFree ==
  ASSUME NEW t \in Trains
  PROVE  Relinquished(t) \subseteq Zones /\ \A z \in Relinquished(t) : owner[z] = NoTrain
BY DEF Relinquished, IsHead

\* A request is one of the changes of the train's lines.
LEMMA RequestIsLineStep ==
  ASSUME Types, WholeLines, NEW t \in Trains, NEW S \in Stages, NEW g \in Generations,
         NEW s \in Settings, RequestStage(t, S, g, s)
  PROVE  LineStep(t)
<1> DEFINE h == Pruned(hard[t], g)
           q == Pruned(soft[t], g)
<1>1. /\ h \in {hard[t], NoClaims} /\ q \in {soft[t], NoClaims}
      /\ h \in [Zones -> Claims \cup {NoClaim}] /\ q \in [Zones -> Claims \cup {NoClaim}]
  <2>1. hard[t] \in [Zones -> Claims \cup {NoClaim}] /\ soft[t] \in [Zones -> Claims \cup {NoClaim}]
    BY DEF Types, TypeOK
  <2>2. NoClaims \in [Zones -> Claims \cup {NoClaim}]
    BY DEF NoClaims
  <2> QED BY <2>1, <2>2, PrunedWhole DEF WholeLines
<1>2. QueueHard(t, S, g, s, h, q) \/ QueueSoft(t, S, g, s, h, q)
  BY DEF RequestStage
<1>3. ZonesOf(h) = {} => h = NoClaims
  BY <1>1 DEF ZonesOf, NoClaims
<1> HIDE DEF h, q
<1>4. ASSUME Queue(t, h, q) /\ UNCHANGED nextTicket PROVE LineStep(t)
  BY <1>1, <1>4 DEF LineStep
<1>5. ASSUME ZonesOf(h) = {}, MayQueue(t, S, h), \A z \in S : q[z] = NoClaim,
             Queue(t, With(h, S, NewClaim(g, s)), q), TakeTicket
      PROVE  LineStep(t)
  BY <1>1, <1>3, <1>5 DEF LineStep
<1>6. ASSUME ZonesOf(h) = {}, MayQueue(t, S, h), SoftIs(q, S, s),
             Queue(t, q, NoClaims), UNCHANGED nextTicket
      PROVE  LineStep(t)
  BY <1>1, <1>3, <1>6 DEF LineStep, SoftIs
<1>7. ASSUME MayQueue(t, S, h), Queue(t, h, With(NoClaims, S, NewClaim(g, s))), TakeTicket
      PROVE  LineStep(t)
  BY <1>1, <1>7 DEF LineStep
<1>8. CASE QueueHard(t, S, g, s, h, q)
  BY <1>8, <1>4, <1>5, <1>6 DEF QueueHard
<1>9. CASE QueueSoft(t, S, g, s, h, q)
  BY <1>9, <1>4, <1>7 DEF QueueSoft
<1> QED BY <1>2, <1>8, <1>9

-----------------------------------------------------------------------------
(* The lines.                                                              *)

\* A train that keeps or gives up its claims, or turns soft ones into hard
\* ones, holds nothing new.
LEMMA OldClaims ==
  ASSUME Types, ZoneStates, LineInv, Shrinks, NEW t \in Trains,
         NEW h \in {hard[t], NoClaims}, NEW q \in {soft[t], NoClaims}, UNCHANGED nextTicket,
         \/ Queue(t, h, q)
         \/ h = NoClaims /\ MayQueue(t, ZonesOf(q), h) /\ Queue(t, q, NoClaims)
  PROVE  LineInv'
<1>1. \A u \in Trains, z \in Zones : Held(u, z)' \subseteq Held(u, z)
  BY DEF Held, Queue, NoClaims, Types, TypeOK
<1>2. \A u \in Trains :
        \/ hard'[u] \in {hard[u], NoClaims} /\ soft'[u] \in {soft[u], NoClaims}
        \/ /\ hard'[u] \in {soft[u], NoClaims} /\ soft'[u] = NoClaims
  BY DEF Queue, Types, TypeOK
<1>3. WholeClaim(NoClaims)
  BY DEF WholeClaim, ZonesOf, NoClaims
<1>4. WholeLines'
  <2>1. \A u \in Trains : WholeClaim(hard'[u]) /\ WholeClaim(soft'[u])
    BY <1>2, <1>3 DEF WholeLines, LineInv
  <2> QED BY <2>1 DEF WholeLines, WholeClaim, ZonesOf
<1>5. OneRole'
  <2>1. \A u \in Trains : OwnedBy(u)' \subseteq OwnedBy(u)
    BY ZoneAssumption DEF Shrinks, OwnedBy
  <2>2. \A u \in Trains : /\ ZonesOf(hard'[u]) \cap ZonesOf(soft'[u]) = {}
                          /\ ZonesOf(hard'[u]) \cup ZonesOf(soft'[u]) \subseteq
                               ZonesOf(hard[u]) \cup ZonesOf(soft[u])
    BY <1>2 DEF LineInv, OneRole, ZonesOf, NoClaims
  <2>3. \A u \in Trains : (ZonesOf(hard[u]) \cup ZonesOf(soft[u])) \cap OwnedBy(u) = {}
    BY DEF LineInv, OneRole
  <2>4. \A u \in Trains : /\ ZonesOf(hard[u])' = ZonesOf(hard'[u])
                          /\ ZonesOf(soft[u])' = ZonesOf(soft'[u])
    BY DEF ZonesOf
  <2> QED BY <2>1, <2>2, <2>3, <2>4 DEF OneRole
<1>6. TicketsApart'
  <2>1. ASSUME NEW u \in Trains, NEW y \in Zones, NEW z \in Zones,
               hard'[u][y] # NoClaim, soft'[u][z] # NoClaim
        PROVE  soft'[u][z].ticket # hard'[u][y].ticket
    <3>1. hard'[u] = hard[u] /\ soft'[u] = soft[u]
      BY <1>2, <2>1 DEF NoClaims
    <3> QED BY <2>1, <3>1 DEF LineInv, TicketsApart
  <2>2. ASSUME NEW u \in Trains, NEW y \in Zones, NEW c \in Held(u, y)', NEW z \in OwnedBy(u)'
        PROVE  grant'[z].ticket # c.ticket
    <3>1. c \in Held(u, y) /\ z \in OwnedBy(u) /\ grant'[z] = grant[z]
      BY <1>1, <2>2, ZoneAssumption DEF OwnedBy, Shrinks
    <3> QED BY <3>1 DEF LineInv, TicketsApart
  <2>3. ASSUME NEW z \in Zones, NEW u \in Trains, NEW v \in Trains, u # v,
               NEW c \in Held(u, z)', NEW d \in Held(v, z)'
        PROVE  c.ticket # d.ticket
    BY <1>1, <2>3 DEF LineInv, TicketsApart
  <2> QED BY <2>1, <2>2, <2>3 DEF TicketsApart
<1>7. NextUnused'
  BY <1>1 DEF LineInv, NextUnused, Shrinks
<1> QED BY <1>4, <1>5, <1>6, <1>7 DEF LineInv

\* A train that queues anew has a ticket nobody holds.
LEMMA NewClaimApart ==
  ASSUME Types, ZoneStates, LineInv, Shrinks, TakeTicket, NEW t \in Trains,
         NEW h \in {hard[t], NoClaims}, NEW q \in {soft[t], NoClaims},
         NEW S \in Stages, NEW g \in Generations, NEW s \in Settings, MayQueue(t, S, h),
         \/ /\ h = NoClaims /\ \A z \in S : q[z] = NoClaim
            /\ Queue(t, With(NoClaims, S, NewClaim(g, s)), q)
         \/ Queue(t, h, With(NoClaims, S, NewClaim(g, s)))
  PROVE  LineInv'
<1> DEFINE new == NewClaim(g, s)
           added == With(NoClaims, S, new)
<1>1. /\ S \in SUBSET Zones /\ S # {} /\ new # NoClaim /\ new.ticket = nextTicket
      /\ \A z \in Zones : added[z] = IF z \in S THEN new ELSE NoClaim
  <2>1. new \in Claims
    BY DEF Claims, NewClaim, Types, TypeOK
  <2>2. S \in SUBSET Zones /\ S # {}
    BY ZoneAssumption
  <2>3. new # NoClaim
    BY <2>1, ClaimAssumption
  <2>4. \A z \in Zones : added[z] = IF z \in S THEN new ELSE NoClaim
    BY DEF With, NoClaims
  <2> QED BY <2>2, <2>3, <2>4 DEF NewClaim
<1>2. \A u \in Trains :
        \/ hard'[u] \in {hard[u], NoClaims} /\ soft'[u] \in {soft[u], NoClaims}
        \/ /\ u = t /\ hard'[u] = added /\ soft'[u] \in {soft[u], NoClaims}
           /\ \A z \in S : soft'[u][z] = NoClaim
        \/ /\ u = t /\ soft'[u] = added /\ hard'[u] \in {hard[u], NoClaims}
           /\ \A z \in S : hard'[u][z] = NoClaim
  BY DEF Queue, Types, TypeOK, MayQueue
<1>3. \A z \in S : owner[z] # t
  BY DEF MayQueue
<1> HIDE DEF new, added
<1>4. \A u \in Trains, z \in Zones : \A c \in Held(u, z)' :
        c \in Held(u, z) \/ (u = t /\ c = new)
  BY <1>1, <1>2 DEF Held, NoClaims
<1>5. \A u \in Trains, z \in Zones : \A c \in Held(u, z) : c.ticket # nextTicket
  BY DEF LineInv, NextUnused
<1>6. WholeClaim(NoClaims) /\ WholeClaim(added)
  BY <1>1 DEF WholeClaim, ZonesOf, NoClaims
<1>7. WholeLines'
  <2>1. \A u \in Trains : WholeClaim(hard'[u]) /\ WholeClaim(soft'[u])
    BY <1>2, <1>6 DEF WholeLines, LineInv
  <2> QED BY <2>1 DEF WholeLines, WholeClaim, ZonesOf
<1>8. OneRole'
  <2>1. \A u \in Trains, z \in Zones : owner'[z] = u => owner[z] = u
    BY ZoneAssumption DEF Shrinks
  <2>2. \A u \in Trains, z \in Zones :
          /\ ~(hard[u][z] # NoClaim /\ soft[u][z] # NoClaim)
          /\ owner[z] = u => hard[u][z] = NoClaim /\ soft[u][z] = NoClaim
    BY DEF LineInv, OneRole, ZonesOf, OwnedBy
  <2>3. \A u \in Trains, z \in Zones :
          /\ ~(hard'[u][z] # NoClaim /\ soft'[u][z] # NoClaim)
          /\ owner[z] = u => hard'[u][z] = NoClaim /\ soft'[u][z] = NoClaim
    BY <1>1, <1>2, <1>3, <2>2 DEF NoClaims
  <2> QED BY <2>1, <2>3 DEF OneRole, ZonesOf, OwnedBy
<1>9. TicketsApart'
  <2>1. ASSUME NEW u \in Trains, NEW y \in Zones, NEW z \in Zones,
               hard'[u][y] # NoClaim, soft'[u][z] # NoClaim
        PROVE  soft'[u][z].ticket # hard'[u][y].ticket
    <3>1. CASE hard'[u] = hard[u] /\ soft'[u] = soft[u]
      BY <2>1, <3>1 DEF LineInv, TicketsApart
    <3>2. CASE hard'[u] = added /\ soft'[u] = soft[u] /\ u = t
      <4>1. soft[u][z] \in Held(u, z)
        BY <2>1, <3>2 DEF Held
      <4> QED BY <1>1, <1>5, <2>1, <3>2, <4>1
    <3>3. CASE soft'[u] = added /\ hard'[u] = hard[u] /\ u = t
      <4>1. hard[u][y] \in Held(u, y)
        BY <2>1, <3>3 DEF Held
      <4> QED BY <1>1, <1>5, <2>1, <3>3, <4>1
    <3> QED BY <1>2, <2>1, <3>1, <3>2, <3>3 DEF NoClaims
  <2>2. ASSUME NEW u \in Trains, NEW y \in Zones, NEW c \in Held(u, y)', NEW z \in OwnedBy(u)'
        PROVE  grant'[z].ticket # c.ticket
    <3>1. z \in OwnedBy(u) /\ grant'[z] = grant[z] /\ grant[z].ticket # nextTicket
      BY <2>2, ZoneAssumption DEF OwnedBy, Shrinks, LineInv, NextUnused
    <3> QED BY <1>1, <1>4, <2>2, <3>1 DEF LineInv, TicketsApart
  <2>3. ASSUME NEW z \in Zones, NEW u \in Trains, NEW v \in Trains, u # v,
               NEW c \in Held(u, z)', NEW d \in Held(v, z)'
        PROVE  c.ticket # d.ticket
    BY <1>1, <1>4, <1>5, <2>3 DEF LineInv, TicketsApart
  <2> QED BY <2>1, <2>2, <2>3 DEF TicketsApart
<1>10. NextUnused'
  <2>1. /\ nextTicket' # nextTicket
        /\ \A z \in Zones :
              /\ \A u \in Trains : \A c \in Held(u, z) : c.ticket # nextTicket'
              /\ owner[z] # NoTrain => grant[z].ticket # nextTicket'
    BY TakenTicket DEF LineInv
  <2> QED BY <1>1, <1>4, <2>1 DEF NextUnused, Shrinks
<1> QED BY <1>7, <1>8, <1>9, <1>10 DEF LineInv

-----------------------------------------------------------------------------
(* The zones.                                                              *)

\* When all that is given up is complete, the other cohorts stay as they are.
LEMMA CohortKept ==
  ASSUME Types, NEW S \in SUBSET Zones, Complete(S),
         \A z \in Zones : IF z \in S THEN owner'[z] = NoTrain
                          ELSE owner'[z] = owner[z] /\ grant'[z] = grant[z],
         NEW t \in Trains, NEW x \in OwnedBy(t)'
  PROVE  /\ x \in OwnedBy(t) /\ grant'[x] = grant[x]
         /\ Cohort(t, grant[x])' = Cohort(t, grant[x])
         /\ Cohort(t, grant[x]) \cap S = {}
<1>1. x \in Zones /\ x \notin S /\ owner[x] = t /\ grant'[x] = grant[x]
  BY ZoneAssumption DEF OwnedBy
<1>2. \A z \in Cohort(t, grant[x]) : z \notin S
  <2> SUFFICES ASSUME NEW z \in Cohort(t, grant[x]), z \in S PROVE FALSE
    OBVIOUS
  <2>1. owner[z] = t /\ x \in Cohort(t, grant[z])
    BY <1>1 DEF Cohort, OwnedBy
  <2> QED BY <1>1, <2>1, ZoneAssumption DEF Complete
<1>3. \A z \in Zones : z \in Cohort(t, grant[x])' <=> z \in Cohort(t, grant[x])
  BY <1>1, <1>2, ZoneAssumption DEF Cohort, OwnedBy
<1> QED BY <1>1, <1>2, <1>3 DEF Cohort, OwnedBy

LEMMA CohortOwn ==
  ASSUME NEW t \in Trains, NEW x \in OwnedBy(t)
  PROVE  x \in Cohort(t, grant[x]) /\ Cohort(t, grant[x]) \in SUBSET Zones
BY DEF Cohort, OwnedBy

LEMMA WholeCohortsKept ==
  ASSUME Types, WholeCohorts, NEW S \in SUBSET Zones, Complete(S),
         \A z \in Zones : IF z \in S THEN owner'[z] = NoTrain
                          ELSE /\ owner'[z] = owner[z] /\ grant'[z] = grant[z]
                               /\ phase'[z] = phase[z] /\ releaseIn'[z] = releaseIn[z]
  PROVE  WholeCohorts'
<1> SUFFICES ASSUME NEW t \in Trains, NEW x \in OwnedBy(t)'
             PROVE  Together(Cohort(t, grant[x]))'
  BY DEF WholeCohorts
<1> DEFINE C == Cohort(t, grant[x])
<1>1. x \in OwnedBy(t) /\ C' = C /\ C \cap S = {}
  BY CohortKept
<1>2. Together(C) /\ C \in SUBSET Zones
  BY <1>1, CohortOwn DEF WholeCohorts
<1>3. \A z \in C : phase'[z] = phase[z] /\ grant'[z] = grant[z] /\ releaseIn'[z] = releaseIn[z]
  BY <1>1, <1>2
<1>4. \A y, z \in C : grant'[y] = grant'[z] /\ (phase'[y] \notin Unentered =>
        phase'[z] = phase'[y] /\ releaseIn'[z] = releaseIn'[y])
  BY <1>2, <1>3 DEF Together
<1> QED BY <1>1, <1>2, <1>4 DEF Together

\* Handing over what is complete.
LEMMA HandOverKeepsZones ==
  ASSUME Types, ZoneInv, NEW S \in SUBSET Zones, Complete(S), HandOver(S)
  PROVE  ZoneInv' /\ Shrinks
<1>1. \A z \in Zones :
        IF z \in S
        THEN owner'[z] = NoTrain /\ grant'[z] = NoClaim /\ phase'[z] = "RELEASE_DELAY"
        ELSE /\ owner'[z] = owner[z] /\ grant'[z] = grant[z]
             /\ phase'[z] = phase[z] /\ releaseIn'[z] = releaseIn[z]
  BY DEF HandOver
<1>2. ZoneStates'
  BY <1>1 DEF ZoneInv, ZoneStates, Unentered
<1>3. WholeCohorts'
  BY <1>1, WholeCohortsKept DEF ZoneInv
<1> QED BY <1>1, <1>2, <1>3 DEF ZoneInv, Shrinks

\* The zones that open again.
LEMMA TickKeepsZones ==
  ASSUME Types, ZoneInv, Tick
  PROVE  ZoneInv' /\ Shrinks
<1> DEFINE S == {z \in Zones : Expired(z)}
<1>1. \A z \in Zones :
        /\ releaseIn'[z] = releaseIn[z]
        /\ IF z \in S
           THEN owner'[z] = NoTrain /\ grant'[z] = NoClaim /\ phase'[z] = "FREE"
           ELSE owner'[z] = owner[z] /\ grant'[z] = grant[z] /\ phase'[z] = phase[z]
  BY DEF Tick
<1>2. Complete(S)
  <2> SUFFICES ASSUME NEW z \in S, owner[z] # NoTrain, NEW y \in Cohort(owner[z], grant[z])
               PROVE  Expired(y) /\ y \in Zones
    BY DEF Complete
  <2>1. owner[z] \in Trains /\ z \in OwnedBy(owner[z])
    BY DEF Types, TypeOK, OwnedBy
  <2>2. Together(Cohort(owner[z], grant[z])) /\ z \in Cohort(owner[z], grant[z])
    BY <2>1, CohortOwn DEF ZoneInv, WholeCohorts
  <2>3. phase[z] \notin Unentered
    BY DEF Expired, Unentered
  <2>4. phase[y] = phase[z] /\ releaseIn[y] = releaseIn[z]
    BY <2>2, <2>3 DEF Together
  <2> QED BY <2>1, <2>4, CohortOwn DEF Expired
<1> HIDE DEF S
<1>3. S \in SUBSET Zones
  BY DEF S
<1>4. ZoneStates'
  BY <1>1 DEF ZoneInv, ZoneStates, Unentered
<1>5. WholeCohorts'
  BY <1>1, <1>2, <1>3, WholeCohortsKept DEF ZoneInv
<1> QED BY <1>1, <1>4, <1>5 DEF ZoneInv, Shrinks

\* A granted stage is what the train owns under its ticket.
LEMMA GrantKeepsZones ==
  ASSUME Types, ZoneInv, LineInv, NEW t \in Trains, TryGrantStage(t)
  PROVE  ZoneInv'
<1> DEFINE S == ZonesOf(hard[t])
<1>1. /\ S # {} /\ S \in SUBSET Zones
      /\ \A z \in S : owner[z] = NoTrain /\ hard[t][z] # NoClaim
  BY DEF TryGrantStage, WantedZones, IsHead, ZonesOf
<1>2. \A z \in Zones :
        IF z \in S
        THEN owner'[z] = t /\ grant'[z] = hard[t][z] /\ phase'[z] = "GRANTED" /\ releaseIn'[z] = 0
        ELSE /\ owner'[z] = owner[z] /\ grant'[z] = grant[z]
             /\ phase'[z] = phase[z] /\ releaseIn'[z] = releaseIn[z]
  BY DEF TryGrantStage, WantedZones
<1>3. S \in Stages /\ \A y, z \in S : hard[t][y] = hard[t][z]
  BY <1>1 DEF LineInv, WholeLines, WholeClaim
<1>4. \A x \in S, z \in OwnedBy(t) : grant[z].ticket # hard[t][x].ticket
  BY <1>1 DEF LineInv, TicketsApart, Held
<1> HIDE DEF S
<1>5. ZoneStates'
  BY <1>1, <1>2, ZoneAssumption DEF ZoneInv, ZoneStates, Unentered
<1>6. WholeCohorts'
  <2> SUFFICES ASSUME NEW u \in Trains, NEW x \in OwnedBy(u)'
               PROVE  Together(Cohort(u, grant[x]))'
    BY DEF WholeCohorts
  <2> DEFINE C == Cohort(u, grant[x])
  <2>1. CASE x \in S
    <3>1. u = t
      BY <1>2, <2>1 DEF OwnedBy
    <3>2. C' = S
      <4>1. \A z \in S : z \in C'
        BY <1>1, <1>2, <1>3, <2>1, <3>1 DEF Cohort, OwnedBy
      <4>2. \A z \in Zones \ S : z \notin C'
        BY <1>1, <1>2, <1>4, <2>1, <3>1 DEF Cohort, OwnedBy
      <4>3. C' \in SUBSET Zones
        BY DEF Cohort, OwnedBy
      <4> QED BY <4>1, <4>2, <4>3, <1>1
    <3>3. \A y, z \in S : grant'[y] = grant'[z] /\ phase'[y] \in Unentered
      BY <1>1, <1>2, <1>3 DEF Unentered
    <3> QED BY <1>3, <3>2, <3>3 DEF Together
  <2>2. CASE x \notin S
    <3>1. x \in OwnedBy(u) /\ x \in Zones /\ grant'[x] = grant[x]
      BY <1>2, <2>2 DEF OwnedBy
    <3>2. C' = C
      <4>1. \A z \in S : z \notin C /\ z \notin C'
        BY <1>1, <1>2, <1>4, <3>1, ZoneAssumption DEF Cohort, OwnedBy
      <4>2. \A z \in Zones \ S : z \in C <=> z \in C'
        BY <1>2, <3>1 DEF Cohort, OwnedBy
      <4>3. C' \in SUBSET Zones /\ C \in SUBSET Zones
        BY DEF Cohort, OwnedBy
      <4> QED BY <4>1, <4>2, <4>3
    <3>3. C \cap S = {}
      BY <1>1, <3>1, ZoneAssumption DEF Cohort, OwnedBy
    <3>4. Together(C) /\ C \in SUBSET Zones
      BY <3>1, CohortOwn DEF ZoneInv, WholeCohorts
    <3>5. \A y, z \in C : grant'[y] = grant'[z] /\ (phase'[y] \notin Unentered =>
            phase'[z] = phase'[y] /\ releaseIn'[z] = releaseIn'[y])
      BY <1>2, <3>3, <3>4 DEF Together
    <3> QED BY <3>2, <3>4, <3>5 DEF Together
  <2> QED BY <2>1, <2>2
<1> QED BY <1>5, <1>6 DEF ZoneInv

\* A change of states that treats the zones of a cohort alike.
LEMMA AlikeKeepsZones ==
  ASSUME Types, ZoneInv, UNCHANGED <<owner, grant>>, ZoneStates',
         \A t \in Trains : \A x \in OwnedBy(t) :
           LET C == Cohort(t, grant[x])
           IN  \/ \A z \in C : phase'[z] = phase[z] /\ releaseIn'[z] = releaseIn[z]
               \/ \A y, z \in C : phase'[y] = phase'[z] /\ releaseIn'[y] = releaseIn'[z]
               \/ \A z \in C : phase'[z] \in Unentered
               \/ \A y, z \in C : phase'[z] = phase[z] /\
                    (releaseIn[y] = releaseIn[z] => releaseIn'[y] = releaseIn'[z])
  PROVE  ZoneInv' /\ Shrinks
<1>1. WholeCohorts'
  <2> SUFFICES ASSUME NEW t \in Trains, NEW x \in OwnedBy(t)'
               PROVE  Together(Cohort(t, grant[x]))'
    BY DEF WholeCohorts
  <2> DEFINE C == Cohort(t, grant[x])
  <2>1. x \in OwnedBy(t) /\ C' = C
    BY DEF OwnedBy, Cohort
  <2>2. Together(C)
    BY <2>1 DEF ZoneInv, WholeCohorts
  <2>3. \/ \A z \in C : phase'[z] = phase[z] /\ releaseIn'[z] = releaseIn[z]
        \/ \A y, z \in C : phase'[y] = phase'[z] /\ releaseIn'[y] = releaseIn'[z]
        \/ \A z \in C : phase'[z] \in Unentered
        \/ \A y, z \in C : phase'[z] = phase[z] /\
              (releaseIn[y] = releaseIn[z] => releaseIn'[y] = releaseIn'[z])
    BY <2>1
  <2> HIDE DEF C
  <2>4. \A y, z \in C : grant'[y] = grant'[z] /\ (phase'[y] \notin Unentered =>
          phase'[z] = phase'[y] /\ releaseIn'[z] = releaseIn'[y])
    BY <2>2, <2>3 DEF Together
  <2> QED BY <2>1, <2>2, <2>4 DEF Together, C
<1> QED BY <1>1 DEF ZoneInv, Shrinks

\* Two cohorts of trains are the same or have no zone in common.
LEMMA CohortsDisjoint ==
  ASSUME Types, NEW t \in Trains, NEW x \in OwnedBy(t), NEW u \in Trains, NEW y \in OwnedBy(u)
  PROVE  \/ Cohort(t, grant[x]) = Cohort(u, grant[y])
         \/ Cohort(t, grant[x]) \cap Cohort(u, grant[y]) = {}
BY DEF Cohort, OwnedBy

\* The steps of an owned stage that keep it owned.
LEMMA StageStepKeepsZones ==
  ASSUME Types, ZoneInv, NEW t \in Trains, MarkOccupiedStage(t) \/ MarkTailClearStage(t)
  PROVE  ZoneInv' /\ Shrinks
<1>1. PICK x \in OwnedBy(t), late \in 0 .. lag :
        LET S == Cohort(t, grant[x])
        IN  \/ /\ \A z \in S : phase[z] = "SETTLED"
               /\ Become(S, "OCCUPIED") /\ UNCHANGED releaseIn
            \/ /\ \A z \in S : phase[z] = "OCCUPIED"
               /\ Become(S, "RELEASE_DELAY")
               /\ releaseIn' = [z \in Zones |-> IF z \in S THEN Delay - late ELSE releaseIn[z]]
  <2>1. 0 \in 0 .. lag
    BY ZoneAssumption DEF Types, TypeOK
  <2> QED BY <2>1 DEF MarkOccupiedStage, MarkTailClearStage, Cohorts
<1> DEFINE S == Cohort(t, grant[x])
<1>2. S \in SUBSET Zones /\ \A z \in S : owner[z] = t
  BY DEF Cohort, OwnedBy
<1>3. UNCHANGED <<owner, grant>>
  BY <1>1 DEF Become
<1>4. /\ \A z \in Zones \ S : phase'[z] = phase[z] /\ releaseIn'[z] = releaseIn[z]
      /\ \/ \A z \in S : phase'[z] = "OCCUPIED" /\ releaseIn'[z] = 0
         \/ \A z \in S : phase'[z] = "RELEASE_DELAY" /\ releaseIn'[z] = Delay - late
  BY <1>1, <1>2 DEF Become, ZoneInv, ZoneStates, Unentered
<1>5. ZoneStates'
  BY <1>2, <1>3, <1>4, ZoneAssumption DEF ZoneInv, ZoneStates, Unentered
<1>6. ASSUME NEW u \in Trains, NEW y \in OwnedBy(u)
      PROVE  \/ \A z \in Cohort(u, grant[y]) : phase'[z] = phase[z] /\ releaseIn'[z] = releaseIn[z]
             \/ \A v, z \in Cohort(u, grant[y]) :
                  phase'[v] = phase'[z] /\ releaseIn'[v] = releaseIn'[z]
  <2>1. S = Cohort(u, grant[y]) \/ S \cap Cohort(u, grant[y]) = {}
    BY CohortsDisjoint
  <2>2. Cohort(u, grant[y]) \in SUBSET Zones
    BY CohortOwn
  <2> HIDE DEF S
  <2> QED BY <1>4, <2>1, <2>2
<1> QED BY <1>3, <1>5, <1>6, AlikeKeepsZones

LEMMA SettingKeepsZones ==
  ASSUME Types, ZoneInv, NEW z \in Zones, Set(z)
  PROVE  ZoneInv' /\ Shrinks
<1>1. /\ UNCHANGED <<owner, grant, releaseIn>>
      /\ owner[z] # NoTrain /\ phase[z] \in Unentered /\ phase'[z] \in Unentered
      /\ \A y \in Zones \ {z} : phase'[y] = phase[y]
  BY DEF Set, MarkSetting, RetrySetting, MarkSettled, Become, Unentered
<1>2. ZoneStates'
  BY <1>1 DEF ZoneInv, ZoneStates, Unentered
<1>3. ASSUME NEW u \in Trains, NEW y \in OwnedBy(u)
      PROVE  \/ \A v \in Cohort(u, grant[y]) : phase'[v] = phase[v] /\ releaseIn'[v] = releaseIn[v]
             \/ \A v \in Cohort(u, grant[y]) : phase'[v] \in Unentered
  <2> DEFINE C == Cohort(u, grant[y])
  <2>1. Together(C) /\ C \in SUBSET Zones
    BY CohortOwn DEF ZoneInv, WholeCohorts
  <2> HIDE DEF C
  <2>2. CASE z \in C
    <3>1. \A v \in C : phase[v] \in Unentered
      BY <1>1, <2>1, <2>2 DEF Together
    <3> QED BY <1>1, <2>1, <3>1 DEF C
  <2>3. CASE z \notin C
    BY <1>1, <2>1, <2>3 DEF C
  <2> QED BY <2>2, <2>3
<1> QED BY <1>1, <1>2, <1>3, AlikeKeepsZones

LEMMA ElapseKeepsZones ==
  ASSUME Types, ZoneInv, Elapse
  PROVE  ZoneInv' /\ Shrinks
<1>1. /\ UNCHANGED <<owner, grant, phase>>
      /\ \A z \in Zones : releaseIn'[z] = IF releaseIn[z] > 0 THEN releaseIn[z] - 1 ELSE 0
  BY DEF Elapse
<1>2. ZoneStates'
  BY <1>1 DEF ZoneInv, ZoneStates
<1>3. ASSUME NEW u \in Trains, NEW x \in OwnedBy(u), NEW y \in Cohort(u, grant[x]),
             NEW z \in Cohort(u, grant[x])
      PROVE  phase'[z] = phase[z] /\ (releaseIn[y] = releaseIn[z] => releaseIn'[y] = releaseIn'[z])
  BY <1>1, CohortOwn
<1> QED BY <1>1, <1>2, <1>3, AlikeKeepsZones

-----------------------------------------------------------------------------
(* What the lines keep when the zones change.                              *)

LEMMA LinesUntouched ==
  ASSUME LineInv, Shrinks, UNCHANGED <<hard, soft, nextTicket>>
  PROVE  LineInv'
<1>1. WholeLines'
  <2>1. \A t \in Trains : WholeClaim(hard'[t]) /\ WholeClaim(soft'[t])
    BY DEF LineInv, WholeLines
  <2> QED BY <2>1 DEF WholeLines, WholeClaim, ZonesOf
<1>2. \A t \in Trains : OwnedBy(t)' \subseteq OwnedBy(t) /\ \A z \in OwnedBy(t)' : grant'[z] = grant[z]
  BY ZoneAssumption DEF Shrinks, OwnedBy
<1>3. OneRole'
  BY <1>2 DEF LineInv, OneRole, ZonesOf
<1>4. TicketsApart'
  BY <1>2 DEF LineInv, TicketsApart, Held
<1>5. NextUnused'
  BY DEF LineInv, NextUnused, Held, Shrinks
<1> QED BY <1>1, <1>3, <1>4, <1>5 DEF LineInv

\* A grant moves a train's hard claims from the lines to the zones.
LEMMA LinesGranted ==
  ASSUME Types, ZoneInv, LineInv, NEW t \in Trains, TryGrantStage(t)
  PROVE  LineInv'
<1> DEFINE S == ZonesOf(hard[t])
<1>1. /\ \A z \in Zones : hard'[t][z] = NoClaim
      /\ \A u \in Trains \ {t} : hard'[u] = hard[u]
      /\ soft' = soft /\ nextTicket' = nextTicket
  BY DEF TryGrantStage, WantedZones, With, ZonesOf, Types, TypeOK
<1>2. \A z \in Zones :
        IF z \in S THEN owner'[z] = t /\ grant'[z] = hard[t][z]
                   ELSE owner'[z] = owner[z] /\ grant'[z] = grant[z]
  BY DEF TryGrantStage, WantedZones
<1>3. \A z \in S : hard[t][z] # NoClaim /\ hard[t][z] \in Held(t, z) /\ z \in Zones
  BY DEF ZonesOf, Held
<1>4. \A u \in Trains, z \in Zones : Held(u, z)' \subseteq Held(u, z)
  BY <1>1 DEF Held
<1> HIDE DEF S
<1>5. WholeLines'
  <2>1. \A u \in Trains : WholeClaim(hard'[u]) /\ WholeClaim(soft'[u])
    <3>1. ZonesOf(hard'[t]) = {}
      BY <1>1 DEF ZonesOf
    <3>2. WholeClaim(hard'[t])
      BY <3>1 DEF WholeClaim
    <3> QED BY <1>1, <3>2 DEF LineInv, WholeLines
  <2> QED BY <2>1 DEF WholeLines, WholeClaim, ZonesOf
<1>6. OneRole'
  <2>1. \A u \in Trains, z \in Zones :
          /\ ~(hard[u][z] # NoClaim /\ soft[u][z] # NoClaim)
          /\ owner[z] = u => hard[u][z] = NoClaim /\ soft[u][z] = NoClaim
    BY DEF LineInv, OneRole, ZonesOf, OwnedBy
  <2>2. \A u \in Trains, z \in Zones :
          /\ ~(hard'[u][z] # NoClaim /\ soft'[u][z] # NoClaim)
          /\ owner'[z] = u => hard'[u][z] = NoClaim /\ soft'[u][z] = NoClaim
    BY <1>1, <1>2, <1>3, <2>1
  <2> QED BY <2>2 DEF OneRole, ZonesOf, OwnedBy
<1>7. TicketsApart'
  <2>1. ASSUME NEW u \in Trains, NEW y \in Zones, NEW z \in Zones,
               hard'[u][y] # NoClaim, soft'[u][z] # NoClaim
        PROVE  soft'[u][z].ticket # hard'[u][y].ticket
    BY <1>1, <2>1 DEF LineInv, TicketsApart
  <2>2. ASSUME NEW u \in Trains, NEW y \in Zones, NEW c \in Held(u, y)', NEW z \in OwnedBy(u)'
        PROVE  grant'[z].ticket # c.ticket
    <3>1. z \in Zones /\ owner'[z] = u /\ c \in Held(u, y)
      BY <1>4, <2>2 DEF OwnedBy
    <3>2. CASE z \in S
      <4>1. u = t /\ grant'[z] = hard[t][z] /\ hard[t][z] # NoClaim
        BY <1>2, <1>3, <3>1, <3>2
      <4>2. c = soft[t][y] /\ c # NoClaim
        BY <1>1, <2>2, <4>1 DEF Held
      <4> QED BY <3>1, <4>1, <4>2 DEF LineInv, TicketsApart
    <3>3. CASE z \notin S
      BY <1>2, <3>1, <3>3 DEF LineInv, TicketsApart, OwnedBy
    <3> QED BY <3>2, <3>3
  <2>3. ASSUME NEW z \in Zones, NEW u \in Trains, NEW v \in Trains, u # v,
               NEW c \in Held(u, z)', NEW d \in Held(v, z)'
        PROVE  c.ticket # d.ticket
    BY <1>4, <2>3 DEF LineInv, TicketsApart
  <2> QED BY <2>1, <2>2, <2>3 DEF TicketsApart
<1>8. NextUnused'
  BY <1>1, <1>2, <1>3, <1>4 DEF LineInv, NextUnused
<1> QED BY <1>5, <1>6, <1>7, <1>8 DEF LineInv

-----------------------------------------------------------------------------
(* The steps.                                                              *)

\* Every step changes one train's lines and hands over what is complete,
\* grants a train its stage, or leaves the lines alone.
LEMMA StepKinds ==
  ASSUME IInv, Next
  PROVE  \/ \E t \in Trains : /\ LineStep(t)
                              /\ \E S \in SUBSET Zones : Complete(S) /\ HandOver(S)
         \/ \E t \in Trains : TryGrantStage(t)
         \/ UNCHANGED <<queues, nextTicket>> /\ ZoneInv' /\ Shrinks
<1> DEFINE Goal ==
      \/ \E t \in Trains : /\ LineStep(t)
                           /\ \E S \in SUBSET Zones : Complete(S) /\ HandOver(S)
      \/ \E t \in Trains : TryGrantStage(t)
      \/ UNCHANGED <<queues, nextTicket>> /\ ZoneInv' /\ Shrinks
<1> USE DEF IInv
<1>1. \A t \in Trains : Relinquished(t) \in SUBSET Zones /\ Complete(Relinquished(t))
  BY RelinquishedFree DEF Complete
<1>2. \A t \in Trains : LET S == Relinquished(t) \cup OwnedBy(t)
                        IN  S \in SUBSET Zones /\ Complete(S)
  BY RelinquishedFree, ZoneAssumption DEF Complete, Cohort, OwnedBy
<1>3. \A t \in Trains : \A S \in Cohorts(t) : S \in SUBSET Zones /\ Complete(S)
  BY ZoneAssumption DEF Complete, Cohorts, Cohort, OwnedBy
<1>4. ASSUME UNCHANGED <<zones, queues, nextTicket>> PROVE Goal
  <2>1. ZoneInv'
    BY <1>4 DEF zones, ZoneInv, ZoneStates, WholeCohorts, OwnedBy, Cohort, Together
  <2> QED BY <1>4, <2>1 DEF zones, Shrinks
<1>5. ASSUME NEW t \in Trains, Ask(t) PROVE Goal
  <2>1. CASE \E g \in Generations : StaleRequest(t, g)
    BY <1>4, <2>1 DEF StaleRequest
  <2>2. CASE \E g \in Generations : PruneStaleRequests(t, g)
    <3>1. PICK g \in Generations : PruneStaleRequests(t, g)
      BY <2>2
    <3>2. /\ Pruned(hard[t], g) \in {hard[t], NoClaims}
          /\ Pruned(soft[t], g) \in {soft[t], NoClaims}
      BY PrunedWhole DEF Types, TypeOK, LineInv, WholeLines
    <3> QED BY <1>1, <3>1, <3>2 DEF PruneStaleRequests, LineStep
  <2>3. CASE \E g \in Generations : \E S \in Stages, s \in Settings : RequestStage(t, S, g, s)
    <3>1. PICK g \in Generations, S \in Stages, s \in Settings : RequestStage(t, S, g, s)
      BY <2>3
    <3>2. LineStep(t) /\ HandOver(Relinquished(t))
      BY <3>1, RequestIsLineStep DEF LineInv, RequestStage
    <3> QED BY <1>1, <3>2
  <2> QED BY <1>5, <2>1, <2>2, <2>3 DEF Ask
<1>6. ASSUME NEW t \in Trains, Withdraw(t) PROVE Goal
  <2>1. LineStep(t)
    BY <1>6 DEF Withdraw, CancelHard, CancelSoft, CancelTrain, RemoveTrain, Forget, LineStep
  <2>2. HandOver(Relinquished(t)) \/ HandOver(Relinquished(t) \cup OwnedBy(t))
    BY <1>6 DEF Withdraw, CancelHard, CancelSoft, CancelTrain, RemoveTrain
  <2> QED BY <1>1, <1>2, <2>1, <2>2
<1>7. ASSUME NEW t \in Trains, Run(t) PROVE Goal
  <2>1. CASE MarkOccupiedStage(t) \/ MarkTailClearStage(t)
    BY <2>1, StageStepKeepsZones DEF MarkOccupiedStage, MarkTailClearStage, Become
  <2>2. CASE YieldUnenteredStage(t) \/ RollbackFalseEntryStage(t)
    BY <1>3, <2>2, HandOverKeepsZones DEF YieldUnenteredStage, RollbackFalseEntryStage
  <2> QED BY <1>7, <2>1, <2>2 DEF Run
<1>8. ASSUME NEW z \in Zones, Set(z) PROVE Goal
  BY <1>8, SettingKeepsZones DEF Set, MarkSetting, RetrySetting, MarkSettled, Become
<1>9. ASSUME Elapse PROVE Goal
  BY <1>9, ElapseKeepsZones DEF Elapse
<1>10. ASSUME Tick PROVE Goal
  BY <1>10, TickKeepsZones DEF Tick
<1>11. ASSUME NEW t \in Trains, RegisterTrain(t) PROVE Goal
  BY <1>4, <1>11 DEF RegisterTrain
<1> QED BY <1>5, <1>6, <1>7, <1>8, <1>9, <1>10, <1>11 DEF Next

LEMMA ZonesAndLinesKept ==
  ASSUME IInv, Next
  PROVE  ZoneInv' /\ LineInv'
<1> USE DEF IInv
<1>1. ASSUME NEW t \in Trains, LineStep(t), NEW S \in SUBSET Zones, Complete(S), HandOver(S)
      PROVE  ZoneInv' /\ LineInv'
  <2>1. ZoneInv' /\ Shrinks
    BY <1>1, HandOverKeepsZones
  <2>2. PICK h \in {hard[t], NoClaims}, q \in {soft[t], NoClaims} :
          \/ Queue(t, h, q) /\ UNCHANGED nextTicket
          \/ h = NoClaims /\ MayQueue(t, ZonesOf(q), h) /\ Queue(t, q, NoClaims) /\ UNCHANGED nextTicket
          \/ \E R \in Stages, g \in Generations, s \in Settings :
               /\ MayQueue(t, R, h) /\ TakeTicket
               /\ \/ /\ h = NoClaims /\ \A z \in R : q[z] = NoClaim
                     /\ Queue(t, With(NoClaims, R, NewClaim(g, s)), q)
                  \/ Queue(t, h, With(NoClaims, R, NewClaim(g, s)))
    BY <1>1 DEF LineStep
  <2>3. LineInv'
    BY <2>1, <2>2, OldClaims, NewClaimApart DEF ZoneInv
  <2> QED BY <2>1, <2>3
<1>2. ASSUME NEW t \in Trains, TryGrantStage(t) PROVE ZoneInv' /\ LineInv'
  BY <1>2, GrantKeepsZones, LinesGranted
<1>3. ASSUME UNCHANGED <<queues, nextTicket>>, ZoneInv', Shrinks PROVE ZoneInv' /\ LineInv'
  BY <1>3, LinesUntouched DEF queues
<1> QED BY <1>1, <1>2, <1>3, StepKinds

\* Only what a train queues or is granted makes it need its place.
LEMMA RegistryKept ==
  ASSUME Types, HoldersRegistered, NEW t \in Trains,
         \A u \in Trains \ {t} :
           /\ hard'[u] = hard[u] /\ soft'[u] = soft[u]
           /\ OwnedBy(u)' \subseteq OwnedBy(u),
         \/ registered' = registered \cup {t} /\ Cardinality(registered') <= MaxTrains
         \/ /\ registered' = registered
            /\ ZonesOf(hard[t])' \cup ZonesOf(soft[t])' \cup OwnedBy(t)' # {} =>
                 ZonesOf(hard[t]) \cup ZonesOf(soft[t]) \cup OwnedBy(t) # {}
         \/ /\ registered' = registered \ {t}
            /\ ZonesOf(hard[t])' \cup ZonesOf(soft[t])' \cup OwnedBy(t)' = {}
  PROVE  HoldersRegistered' /\ IsFiniteSet(registered') /\ registered' \subseteq Trains
<1>1. IsFiniteSet(registered) /\ registered \subseteq Trains /\ Cardinality(registered) <= MaxTrains
  BY DEF Types, TypeOK, HoldersRegistered
<1>2. MaxTrains \in Nat /\ Cardinality(registered) \in Nat
  BY <1>1, FS_CardinalityType, ZoneAssumption
<1>3. IsFiniteSet(registered') /\ registered' \subseteq Trains
  BY <1>1, FS_AddElement, FS_RemoveElement
<1>4. Cardinality(registered') <= MaxTrains
  <2>1. /\ Cardinality(registered \ {t}) \in Nat
        /\ Cardinality(registered \ {t}) <= Cardinality(registered)
    <3>1. IsFiniteSet(registered \ {t})
      BY <1>1, FS_RemoveElement
    <3>2. Cardinality(registered \ {t}) =
            IF t \in registered THEN Cardinality(registered) - 1 ELSE Cardinality(registered)
      BY <1>1, FS_RemoveElement
    <3>3. Cardinality(registered \ {t}) \in Nat
      BY <3>1, FS_CardinalityType
    <3> QED BY <1>2, <3>2, <3>3
  <2> QED BY <1>1, <1>2, <2>1
<1>5. ASSUME NEW u \in Trains, ZonesOf(hard[u])' \cup ZonesOf(soft[u])' \cup OwnedBy(u)' # {}
      PROVE  u \in registered'
  <2>1. CASE u = t
    BY <1>5, <2>1 DEF HoldersRegistered
  <2>2. CASE u # t
    <3>1. ZonesOf(hard[u])' = ZonesOf(hard[u]) /\ ZonesOf(soft[u])' = ZonesOf(soft[u])
      BY <2>2 DEF ZonesOf
    <3>2. u \in registered
      BY <1>5, <2>2, <3>1 DEF HoldersRegistered
    <3> QED BY <2>2, <3>2
  <2> QED BY <2>1, <2>2
<1> QED BY <1>3, <1>4, <1>5 DEF HoldersRegistered

\* The registry holds every train in a line or in control, and no more than
\* there is room for.
LEMMA RegistryStep ==
  ASSUME IInv, Next
  PROVE  HoldersRegistered' /\ IsFiniteSet(registered') /\ registered' \subseteq Trains
<1> DEFINE Goal == HoldersRegistered' /\ IsFiniteSet(registered') /\ registered' \subseteq Trains
           Holds(u) == ZonesOf(hard[u]) \cup ZonesOf(soft[u]) \cup OwnedBy(u)
<1> USE DEF IInv
<1>1. \A u \in Trains : hard'[u] = hard[u] => ZonesOf(hard[u])' = ZonesOf(hard[u])
  BY DEF ZonesOf
<1>2. \A u \in Trains : soft'[u] = soft[u] => ZonesOf(soft[u])' = ZonesOf(soft[u])
  BY DEF ZonesOf
<1>3. ASSUME UNCHANGED <<registered, queues>>, \A u \in Trains : OwnedBy(u)' \subseteq OwnedBy(u)
      PROVE  Goal
  <2>1. \A u \in Trains : Holds(u)' \subseteq Holds(u)
    BY <1>1, <1>2, <1>3 DEF queues
  <2> QED BY <1>3, <2>1 DEF HoldersRegistered, Types, TypeOK
<1>4. ASSUME NEW S \in SUBSET Zones, HandOver(S), NEW u \in Trains
      PROVE  OwnedBy(u)' = OwnedBy(u) \ S
  BY <1>4, ZoneAssumption DEF HandOver, OwnedBy
<1>5. ASSUME NEW t \in Trains, NEW h, NEW q, Queue(t, h, q), NEW u \in Trains \ {t}
      PROVE  hard'[u] = hard[u] /\ soft'[u] = soft[u]
  BY <1>5 DEF Queue, Types, TypeOK
<1>6. ASSUME NEW t \in Trains, RegisterTrain(t) \/ Ask(t) PROVE Goal
  <2>1. CASE RegisterTrain(t) \/ \E g \in Generations : StaleRequest(t, g)
    <3>1. /\ registered' = registered \cup {t} /\ Cardinality(registered') <= MaxTrains
          /\ UNCHANGED <<zones, queues>>
      BY <2>1 DEF RegisterTrain, StaleRequest, Register
    <3>2. \A u \in Trains : OwnedBy(u)' \subseteq OwnedBy(u)
      BY <3>1 DEF OwnedBy, zones
    <3> QED BY <3>1, <3>2, RegistryKept DEF queues
  <2>2. CASE \E g \in Generations : PruneStaleRequests(t, g)
    <3>1. PICK g \in Generations : PruneStaleRequests(t, g)
      BY <2>2
    <3>2. t \in registered /\ registered' = registered \cup {t}
      BY <3>1 DEF PruneStaleRequests
    <3>3. \A u \in Trains \ {t} :
            hard'[u] = hard[u] /\ soft'[u] = soft[u] /\ OwnedBy(u)' \subseteq OwnedBy(u)
      BY <1>4, <1>5, <3>1, RelinquishedFree DEF PruneStaleRequests
    <3>4. Cardinality(registered') <= MaxTrains
      BY <3>2 DEF HoldersRegistered
    <3> QED BY <3>2, <3>3, <3>4, RegistryKept
  <2>3. CASE \E g \in Generations : \E S \in Stages, s \in Settings : RequestStage(t, S, g, s)
    <3>1. PICK g \in Generations, S \in Stages, s \in Settings : RequestStage(t, S, g, s)
      BY <2>3
    <3>2. /\ registered' = registered \cup {t} /\ Cardinality(registered') <= MaxTrains
          /\ HandOver(Relinquished(t))
      BY <3>1 DEF RequestStage, Register
    <3>3. \E h, q : Queue(t, h, q)
      BY <3>1 DEF RequestStage, QueueHard, QueueSoft
    <3>4. \A u \in Trains \ {t} :
            hard'[u] = hard[u] /\ soft'[u] = soft[u] /\ OwnedBy(u)' \subseteq OwnedBy(u)
      BY <1>4, <1>5, <3>2, <3>3, RelinquishedFree
    <3> QED BY <3>2, <3>4, RegistryKept
  <2> QED BY <1>6, <2>1, <2>2, <2>3 DEF Ask
<1>7. ASSUME NEW t \in Trains, Withdraw(t) PROVE Goal
  <2>1. PICK h \in {hard[t], NoClaims}, q \in {soft[t], NoClaims} : Queue(t, h, q)
    BY <1>7 DEF Withdraw, CancelHard, CancelSoft, CancelTrain, RemoveTrain, Forget
  <2>2. \A u \in Trains : OwnedBy(u)' \subseteq OwnedBy(u)
    <3>1. Relinquished(t) \in SUBSET Zones /\ Relinquished(t) \cup OwnedBy(t) \in SUBSET Zones
      BY RelinquishedFree DEF OwnedBy
    <3>2. HandOver(Relinquished(t)) \/ HandOver(Relinquished(t) \cup OwnedBy(t))
      BY <1>7 DEF Withdraw, CancelHard, CancelSoft, CancelTrain, RemoveTrain
    <3> QED BY <1>4, <3>1, <3>2
  <2>3. \A u \in Trains \ {t} : hard'[u] = hard[u] /\ soft'[u] = soft[u]
    BY <1>5, <2>1
  <2>4. ZonesOf(hard[t])' \subseteq ZonesOf(hard[t]) /\ ZonesOf(soft[t])' \subseteq ZonesOf(soft[t])
    BY <2>1 DEF Queue, ZonesOf, NoClaims, Types, TypeOK
  <2>5. CASE CancelHard(t) \/ CancelSoft(t)
    BY <2>2, <2>3, <2>4, <2>5, RegistryKept DEF CancelHard, CancelSoft
  <2>6. CASE CancelTrain(t) \/ RemoveTrain(t)
    <3>1. UnregisterUnlessOwner(t) /\ Queue(t, NoClaims, NoClaims)
      BY <2>6 DEF CancelTrain, RemoveTrain, Forget
    <3>2. ZonesOf(hard[t])' = {} /\ ZonesOf(soft[t])' = {}
      BY <3>1 DEF Queue, ZonesOf, NoClaims, Types, TypeOK
    <3>3. OwnedBy(t)' = {} <=> ~\E z \in Zones : owner'[z] = t
      BY DEF OwnedBy
    <3> QED BY <2>2, <2>3, <2>4, <3>1, <3>2, <3>3, RegistryKept DEF UnregisterUnlessOwner
  <2> QED BY <1>7, <2>5, <2>6 DEF Withdraw
<1>8. ASSUME NEW t \in Trains, TryGrantStage(t) PROVE Goal
  <2>1. /\ registered' = registered /\ soft' = soft
        /\ \A u \in Trains \ {t} : hard'[u] = hard[u]
        /\ ZonesOf(hard[t]) # {}
    BY <1>8 DEF TryGrantStage, WantedZones, Types, TypeOK
  <2>2. \A u \in Trains \ {t} : OwnedBy(u)' \subseteq OwnedBy(u)
    BY <1>8 DEF TryGrantStage, OwnedBy
  <2> QED BY <2>1, <2>2, RegistryKept
<1>9. ASSUME NEW t \in Trains, Run(t) PROVE Goal
  <2>1. UNCHANGED <<registered, queues>>
    BY <1>9 DEF Run, MarkOccupiedStage, MarkTailClearStage, YieldUnenteredStage,
                RollbackFalseEntryStage, Become
  <2>2. \/ UNCHANGED owner
        \/ \E S \in Cohorts(t) : HandOver(S)
    BY <1>9 DEF Run, MarkOccupiedStage, MarkTailClearStage, YieldUnenteredStage,
                RollbackFalseEntryStage, Become
  <2>3. \A S \in Cohorts(t) : S \in SUBSET Zones
    BY DEF Cohorts, Cohort, OwnedBy
  <2>4. \A u \in Trains : OwnedBy(u)' \subseteq OwnedBy(u)
    <3>1. CASE UNCHANGED owner
      BY <3>1 DEF OwnedBy
    <3>2. CASE \E S \in Cohorts(t) : HandOver(S)
      BY <1>4, <2>3, <3>2
    <3> QED BY <2>2, <3>1, <3>2
  <2> QED BY <1>3, <2>1, <2>4
<1>10. ASSUME (\E z \in Zones : Set(z)) \/ Elapse \/ Tick PROVE Goal
  <2>1. UNCHANGED <<registered, queues>>
    BY <1>10 DEF Set, MarkSetting, RetrySetting, MarkSettled, Become, Elapse, Tick
  <2>2. \A z \in Zones : owner'[z] \in {owner[z], NoTrain}
    BY <1>10 DEF Set, MarkSetting, RetrySetting, MarkSettled, Become, Elapse, Tick
  <2>3. \A u \in Trains : OwnedBy(u)' \subseteq OwnedBy(u)
    BY <2>2, ZoneAssumption DEF OwnedBy
  <2> QED BY <1>3, <2>1, <2>3
<1> HIDE DEF Goal
<1>11. Goal
  BY <1>6, <1>7, <1>8, <1>9, <1>10 DEF Next
<1> QED BY <1>11 DEF Goal

\* Claims have the types of claims.
LEMMA NewClaimType ==
  ASSUME nextTicket \in Tickets, NEW g \in Generations, NEW s \in Settings
  PROVE  NewClaim(g, s) \in Claims
BY DEF NewClaim, Claims

LEMMA TypesKept ==
  ASSUME IInv, Next
  PROVE  TypeOK'
<1> USE DEF IInv
<1>1. /\ phase \in [Zones -> Phases] /\ owner \in [Zones -> Trains \cup {NoTrain}]
      /\ grant \in [Zones -> Claims \cup {NoClaim}] /\ releaseIn \in [Zones -> 0 .. Delay]
      /\ hard \in [Trains -> [Zones -> Claims \cup {NoClaim}]]
      /\ soft \in [Trains -> [Zones -> Claims \cup {NoClaim}]]
      /\ latest \in [Trains -> 0 .. (GenerationSpace - 1)]
      /\ nextTicket \in Tickets /\ lag \in 0 .. MaxLag
  BY DEF Types, TypeOK
<1>2. /\ Delay \in Nat /\ MaxLag \in 0 .. Delay /\ TicketSpace \in Nat /\ TicketSpace >= 4
      /\ \A g \in Generations : g \in 0 .. (GenerationSpace - 1)
  BY ZoneAssumption
<1>3. registered' \subseteq Trains
  BY RegistryStep
<1>4. /\ hard' \in [Trains -> [Zones -> Claims \cup {NoClaim}]]
      /\ soft' \in [Trains -> [Zones -> Claims \cup {NoClaim}]]
      /\ nextTicket' \in Tickets
  <2>1. ASSUME NEW t \in Trains, LineStep(t)
        PROVE  /\ hard' \in [Trains -> [Zones -> Claims \cup {NoClaim}]]
               /\ soft' \in [Trains -> [Zones -> Claims \cup {NoClaim}]]
               /\ nextTicket' \in Tickets
    <3>1. NoClaims \in [Zones -> Claims \cup {NoClaim}]
      BY DEF NoClaims
    <3>2. \A S \in Stages, g \in Generations, s \in Settings :
            With(NoClaims, S, NewClaim(g, s)) \in [Zones -> Claims \cup {NoClaim}]
      BY <1>1, NewClaimType DEF With, NoClaims
    <3>3. \E h, q \in [Zones -> Claims \cup {NoClaim}] : Queue(t, h, q)
      <4>1. hard[t] \in [Zones -> Claims \cup {NoClaim}] /\ soft[t] \in [Zones -> Claims \cup {NoClaim}]
        BY <1>1
      <4>2. PICK h \in {hard[t], NoClaims}, q \in {soft[t], NoClaims} :
              \/ Queue(t, h, q)
              \/ Queue(t, q, NoClaims)
              \/ \E S \in Stages, g \in Generations, s \in Settings :
                   \/ Queue(t, With(NoClaims, S, NewClaim(g, s)), q)
                   \/ Queue(t, h, With(NoClaims, S, NewClaim(g, s)))
        BY <2>1 DEF LineStep
      <4>3. h \in [Zones -> Claims \cup {NoClaim}] /\ q \in [Zones -> Claims \cup {NoClaim}]
        BY <3>1, <4>1
      <4>4. ASSUME NEW S \in Stages, NEW g \in Generations, NEW s \in Settings
            PROVE  With(NoClaims, S, NewClaim(g, s)) \in [Zones -> Claims \cup {NoClaim}]
        BY <3>2
      <4> QED BY <3>1, <4>2, <4>3, <4>4
    <3>4. nextTicket' = nextTicket \/ TakeTicket
      BY <2>1 DEF LineStep
    <3>5. nextTicket' \in Tickets
      BY <1>1, <1>2, <3>4 DEF TakeTicket, Successor, Tickets
    <3> QED BY <1>1, <3>3, <3>5 DEF Queue
  <2>2. ASSUME NEW t \in Trains, TryGrantStage(t)
        PROVE  /\ hard' \in [Trains -> [Zones -> Claims \cup {NoClaim}]]
               /\ soft' \in [Trains -> [Zones -> Claims \cup {NoClaim}]]
               /\ nextTicket' \in Tickets
    BY <1>1, <2>2 DEF TryGrantStage, With
  <2> QED BY <1>1, <2>1, <2>2, StepKinds DEF queues
<1>5. /\ latest' \in [Trains -> 0 .. (GenerationSpace - 1)]
      /\ lag' \in 0 .. MaxLag
  <2>1. ASSUME NEW t \in Trains, Ask(t)
        PROVE  UNCHANGED lag /\ latest' \in [Trains -> 0 .. (GenerationSpace - 1)]
    <3>1. UNCHANGED lag /\ \E g \in Generations : latest' \in {latest, [latest EXCEPT ![t] = g]}
      BY <2>1 DEF Ask, StaleRequest, PruneStaleRequests, RequestStage
    <3> QED BY <1>1, <1>2, <3>1
  <2>2. ASSUME NEW t \in Trains, RegisterTrain(t) \/ TryGrantStage(t) \/ Withdraw(t) \/ Run(t)
        PROVE  UNCHANGED <<latest, lag>>
    BY <2>2 DEF RegisterTrain, TryGrantStage, Withdraw, CancelHard, CancelSoft, CancelTrain,
                RemoveTrain, Forget, Run, MarkOccupiedStage, MarkTailClearStage,
                YieldUnenteredStage, RollbackFalseEntryStage, Become
  <2>3. ASSUME NEW z \in Zones, Set(z)
        PROVE  UNCHANGED <<latest, lag>>
    BY <2>3 DEF Set, MarkSetting, RetrySetting, MarkSettled, Become
  <2>4. ASSUME Elapse \/ Tick
        PROVE  UNCHANGED latest /\ lag' \in 0 .. MaxLag
    BY <1>1, <1>2, <2>4 DEF Elapse, Tick
  <2> QED BY <1>1, <2>1, <2>2, <2>3, <2>4 DEF Next
<1> DEFINE ZoneTypes ==
      /\ phase' \in [Zones -> Phases] /\ owner' \in [Zones -> Trains \cup {NoTrain}]
      /\ grant' \in [Zones -> Claims \cup {NoClaim}] /\ releaseIn' \in [Zones -> 0 .. Delay]
<1>6. ASSUME NEW S, HandOver(S) PROVE ZoneTypes
  <2>1. Delay - lag \in 0 .. Delay
    BY <1>1, <1>2
  <2> QED BY <1>1, <1>6, <2>1 DEF HandOver, Phases
<1>7. ASSUME NEW S, NEW p \in Phases, Become(S, p), releaseIn' \in [Zones -> 0 .. Delay]
      PROVE  ZoneTypes
  BY <1>1, <1>7 DEF Become
<1>8. ASSUME NEW t \in Trains, TryGrantStage(t) PROVE ZoneTypes
  <2>1. 0 \in 0 .. Delay /\ hard[t] \in [Zones -> Claims \cup {NoClaim}]
    BY <1>1, <1>2
  <2> QED BY <1>1, <1>8, <2>1 DEF TryGrantStage, Phases, Unentered
<1>9. ASSUME NEW t \in Trains, Run(t) PROVE ZoneTypes
  <2>1. CASE MarkOccupiedStage(t)
    BY <1>1, <1>7, <2>1 DEF MarkOccupiedStage, Phases
  <2>2. CASE MarkTailClearStage(t)
    <3>1. PICK S \in Cohorts(t), late \in 0 .. lag :
            /\ Become(S, "RELEASE_DELAY")
            /\ releaseIn' = [z \in Zones |-> IF z \in S THEN Delay - late ELSE releaseIn[z]]
      BY <2>2 DEF MarkTailClearStage
    <3>2. Delay - late \in 0 .. Delay
      BY <1>1, <1>2
    <3>3. releaseIn' \in [Zones -> 0 .. Delay]
      BY <1>1, <3>1, <3>2
    <3> QED BY <1>7, <3>1, <3>3 DEF Phases
  <2>3. CASE YieldUnenteredStage(t) \/ RollbackFalseEntryStage(t)
    BY <1>6, <2>3 DEF YieldUnenteredStage, RollbackFalseEntryStage
  <2> QED BY <1>9, <2>1, <2>2, <2>3 DEF Run
<1>10. ASSUME NEW z \in Zones, Set(z) PROVE ZoneTypes
  BY <1>1, <1>7, <1>10 DEF Set, MarkSetting, RetrySetting, MarkSettled, Phases, Unentered
<1>11. ASSUME Elapse PROVE ZoneTypes
  BY <1>1, <1>2, <1>11 DEF Elapse
<1>12. ASSUME Tick PROVE ZoneTypes
  BY <1>1, <1>12 DEF Tick, Phases
<1>13. ASSUME UNCHANGED zones PROVE ZoneTypes
  BY <1>1, <1>13 DEF zones
<1> HIDE DEF ZoneTypes
<1>14. ZoneTypes
  BY <1>6, <1>8, <1>9, <1>10, <1>11, <1>12, <1>13
     DEF Next, RegisterTrain, Ask, StaleRequest, PruneStaleRequests, RequestStage,
         Withdraw, CancelHard, CancelSoft, CancelTrain, RemoveTrain
<1> QED BY <1>3, <1>4, <1>5, <1>14 DEF TypeOK, ZoneTypes

LEMMA InitEstablishes == Init => IInv
<1> SUFFICES ASSUME Init PROVE IInv
  OBVIOUS
<1>1. TypeOK
  BY ZoneAssumption DEF Init, TypeOK, Tickets, Phases
<1>2. IsFiniteSet(registered) /\ Cardinality(registered) = 0
  BY FS_EmptySet DEF Init
<1>3. \A z \in Zones : /\ phase[z] = "FREE" /\ owner[z] = NoTrain /\ grant[z] = NoClaim
                       /\ \A t \in Trains : hard[t][z] = NoClaim /\ soft[t][z] = NoClaim
  BY DEF Init
<1>4. \A t \in Trains : ZonesOf(hard[t]) = {} /\ ZonesOf(soft[t]) = {} /\ OwnedBy(t) = {}
  BY <1>3, ZoneAssumption DEF ZonesOf, OwnedBy
<1>5. ZoneInv
  BY <1>3, <1>4 DEF ZoneInv, ZoneStates, WholeCohorts, Unentered
<1>6. LineInv
  BY <1>3, <1>4 DEF LineInv, WholeLines, WholeClaim, OneRole, TicketsApart, NextUnused, Held
<1>7. HoldersRegistered
  BY <1>2, <1>4, ZoneAssumption DEF HoldersRegistered
<1> QED BY <1>1, <1>2, <1>5, <1>6, <1>7 DEF IInv, Types

LEMMA StepPreserves == IInv /\ [Next]_vars => IInv'
<1>1. ASSUME IInv, Next PROVE IInv'
  BY <1>1, TypesKept, RegistryStep, ZonesAndLinesKept DEF IInv, Types
<1>2. ASSUME IInv, UNCHANGED vars PROVE IInv'
  <2>1. UNCHANGED <<phase, owner, grant, releaseIn, hard, soft, registered, latest, nextTicket, lag>>
    BY <1>2 DEF vars, zones, queues
  <2>2. Types' /\ HoldersRegistered'
    BY <1>2, <2>1 DEF IInv, Types, TypeOK, HoldersRegistered, ZonesOf, OwnedBy
  <2>3. ZoneInv' /\ Shrinks
    BY <1>2, <2>1 DEF IInv, ZoneInv, ZoneStates, WholeCohorts, OwnedBy, Cohort, Together, Shrinks
  <2>4. LineInv'
    BY <1>2, <2>1, <2>3, LinesUntouched DEF IInv
  <2> QED BY <2>2, <2>3, <2>4 DEF IInv
<1> QED BY <1>1, <1>2

\* The invariant of the zones: types, whole stages, lines without doubles,
\* tickets that are told apart, and a registry that holds everybody.
THEOREM ZoneInvariant == Spec => []IInv
BY InitEstablishes, StepPreserves, PTL DEF Spec

-----------------------------------------------------------------------------
(* What follows.                                                           *)

\* A set without two different elements has at most one.
LEMMA AtMostOne ==
  ASSUME NEW S, \A x, y \in S : x = y
  PROVE  Cardinality(S) <= 1
<1>1. CASE S = {}
  BY <1>1, FS_EmptySet
<1>2. CASE S # {}
  <2>1. PICK x \in S : TRUE
    BY <1>2
  <2>2. S = {x}
    BY <2>1
  <2> QED BY <2>2, FS_Singleton
<1> QED BY <1>1, <1>2

LEMMA InvImplies == IInv => StagesSound
<1> SUFFICES ASSUME IInv PROVE StagesSound
  OBVIOUS
<1> USE DEF IInv
<1>1. OneController
  <2> SUFFICES ASSUME NEW z \in Zones, NEW t \in InControl(z), NEW u \in InControl(z), t # u
               PROVE  FALSE
    BY AtMostOne DEF OneController
  <2>1. t \in Trains /\ u \in Trains
    BY DEF InControl
  <2>2. \A v \in {t, u} : owner[z] = v \/ \E c \in Held(v, z) : IsHead(z, c)
    BY DEF InControl, Held
  <2>3. PICK c \in Held(t, z), d \in Held(u, z) : IsHead(z, c) /\ IsHead(z, d)
    BY <2>1, <2>2, ZoneAssumption DEF IsHead
  <2>4. c \in ClaimsOf(z) /\ d \in ClaimsOf(z)
    <3>1. c \in {hard[t][z], soft[t][z]} /\ d \in {hard[u][z], soft[u][z]} /\ c # NoClaim /\ d # NoClaim
      BY <2>3 DEF Held
    <3>2. /\ {hard[t][z], soft[t][z]} \in {{hard[v][z], soft[v][z]} : v \in Trains}
          /\ {hard[u][z], soft[u][z]} \in {{hard[v][z], soft[v][z]} : v \in Trains}
      BY <2>1
    <3> QED BY <3>1, <3>2 DEF ClaimsOf
  <2>5. c.ticket \in Tickets /\ d.ticket \in Tickets
    <3>1. c \in Claims /\ d \in Claims
      BY <2>1, <2>3 DEF Held, Types, TypeOK
    <3> QED BY <3>1 DEF Claims
  <2>6. c.ticket # d.ticket
    BY <2>1, <2>3 DEF LineInv, TicketsApart
  <2>7. ~Before(c.ticket, d.ticket) /\ ~Before(d.ticket, c.ticket)
    BY <2>3, <2>4 DEF IsHead
  <2> QED BY <2>5, <2>6, <2>7, TicketsOrdered
<1>2. StagesWhole
  <2>1. ASSUME NEW t \in Trains, NEW z \in ZonesOf(hard[t])
        PROVE  /\ \A y \in ZonesOf(soft[t]) : soft[t][y].ticket # hard[t][z].ticket
               /\ \A y \in OwnedBy(t) : grant[y].ticket # hard[t][z].ticket
    <3>1. z \in Zones /\ hard[t][z] # NoClaim /\ hard[t][z] \in Held(t, z)
      BY <2>1 DEF ZonesOf, Held
    <3> QED BY <3>1 DEF LineInv, TicketsApart, ZonesOf
  <2>2. ASSUME NEW t \in Trains, NEW S \in Cohorts(t)
        PROVE  Together(S)
    BY <2>2 DEF Cohorts, ZoneInv, WholeCohorts
  <2> QED BY <2>1, <2>2 DEF StagesWhole, LineInv, WholeLines, Together
<1> QED BY <1>1, <1>2 DEF StagesSound, QueuesSound, LineInv, Types

\* Whatever trains request, withdraw and run through, stages are asked for,
\* granted and released as wholes, no train is doubly in a line, everybody in
\* a line or in control has a place, and no zone ever has two controllers.
THEOREM StagesAlwaysSound == Spec => []StagesSound
BY ZoneInvariant, InvImplies, PTL

\* All claims of two queues carry one generation.
AllOf(h, q, g) == \A z \in Zones : \A c \in {h[z], q[z]} \ {NoClaim} : c.generation = g

LEMMA CurrentKept ==
  ASSUME IInv, Next, \A t \in Trains, z \in Zones : \A c \in Held(t, z) : c.generation = latest[t]
  PROVE  \A t \in Trains, z \in Zones : \A c \in Held(t, z)' : c.generation = latest'[t]
<1> DEFINE Goal == \A t \in Trains, z \in Zones : \A c \in Held(t, z)' : c.generation = latest'[t]
<1> USE DEF IInv, Types
<1>1. ASSUME UNCHANGED latest,
             \A u \in Trains, z \in Zones : Held(u, z)' \subseteq Held(u, z)
      PROVE  Goal
  BY <1>1
<1>2. ASSUME UNCHANGED <<latest, queues>> PROVE Goal
  BY <1>2 DEF queues, Held
<1>3. ASSUME NEW t \in Trains, NEW g \in Generations, NEW h, NEW q, Queue(t, h, q),
             latest' = [latest EXCEPT ![t] = g], AllOf(h, q, g)
      PROVE  Goal
  <2> SUFFICES ASSUME NEW u \in Trains, NEW z \in Zones, NEW c \in Held(u, z)'
               PROVE  c.generation = latest'[u]
    OBVIOUS
  <2>1. CASE u = t
    <3>1. c \in {h[z], q[z]} \ {NoClaim} /\ latest'[u] = g
      BY <1>3, <2>1 DEF Queue, Held, TypeOK
    <3> QED BY <1>3, <3>1 DEF AllOf
  <2>2. CASE u # t
    BY <1>3, <2>2 DEF Queue, Held, TypeOK
  <2> QED BY <2>1, <2>2
<1> HIDE DEF Goal, IInv, Types
<1>4. ASSUME NEW t \in Trains, NEW g \in Generations, PruneStaleRequests(t, g) PROVE Goal
  <2> DEFINE h == Pruned(hard[t], g)
             q == Pruned(soft[t], g)
  <2>1. AllOf(h, q, g)
    BY DEF Pruned, AllOf
  <2>2. Queue(t, h, q) /\ latest' = [latest EXCEPT ![t] = g]
    BY <1>4 DEF PruneStaleRequests
  <2> HIDE DEF h, q
  <2> QED BY <1>3, <2>1, <2>2
<1>5. ASSUME NEW t \in Trains, NEW g \in Generations, NEW S \in Stages, NEW s \in Settings,
             RequestStage(t, S, g, s)
      PROVE  Goal
  <2> DEFINE h == Pruned(hard[t], g)
             q == Pruned(soft[t], g)
             new == NewClaim(g, s)
  <2>1. AllOf(h, q, g)
    BY DEF Pruned, AllOf
  <2>2. \A z \in Zones : /\ With(h, S, new)[z] \in {h[z], new}
                         /\ With(NoClaims, S, new)[z] \in {NoClaim, new}
                         /\ NoClaims[z] = NoClaim
    BY DEF With, NoClaims
  <2>3. new.generation = g
    BY DEF NewClaim
  <2> HIDE DEF h, q, new
  <2>4. \/ Queue(t, h, q)
        \/ Queue(t, With(h, S, new), q)
        \/ Queue(t, q, NoClaims)
        \/ Queue(t, h, With(NoClaims, S, new))
    BY <1>5 DEF RequestStage, QueueHard, QueueSoft, h, q, new
  <2>5. latest' = [latest EXCEPT ![t] = g]
    BY <1>5 DEF RequestStage
  <2>6. /\ AllOf(With(h, S, new), q, g) /\ AllOf(q, NoClaims, g)
        /\ AllOf(h, With(NoClaims, S, new), g)
    BY <2>1, <2>2, <2>3 DEF AllOf
  <2>7. CASE Queue(t, h, q)
    BY <1>3, <2>1, <2>5, <2>7
  <2>8. CASE Queue(t, With(h, S, new), q)
    BY <1>3, <2>5, <2>6, <2>8
  <2>9. CASE Queue(t, q, NoClaims)
    BY <1>3, <2>5, <2>6, <2>9
  <2>10. CASE Queue(t, h, With(NoClaims, S, new))
    BY <1>3, <2>5, <2>6, <2>10
  <2> QED BY <2>4, <2>7, <2>8, <2>9, <2>10
<1>6. ASSUME NEW t \in Trains, Ask(t) PROVE Goal
  BY <1>2, <1>4, <1>5, <1>6 DEF Ask, StaleRequest
<1>7. ASSUME NEW t \in Trains, Withdraw(t) PROVE Goal
  <2>1. PICK h \in {hard[t], NoClaims}, q \in {soft[t], NoClaims} : Queue(t, h, q)
    BY <1>7 DEF Withdraw, CancelHard, CancelSoft, CancelTrain, RemoveTrain, Forget
  <2>2. UNCHANGED latest
    BY <1>7 DEF Withdraw, CancelHard, CancelSoft, CancelTrain, RemoveTrain, Forget
  <2>3. \A u \in Trains, z \in Zones : Held(u, z)' \subseteq Held(u, z)
    BY <2>1 DEF Queue, Held, NoClaims, IInv, Types, TypeOK
  <2> QED BY <1>1, <2>2, <2>3
<1>8. ASSUME NEW t \in Trains, TryGrantStage(t) PROVE Goal
  <2>1. UNCHANGED latest
    BY <1>8 DEF TryGrantStage
  <2>2. \A u \in Trains, z \in Zones : Held(u, z)' \subseteq Held(u, z)
    BY <1>8 DEF TryGrantStage, With, Held, IInv, Types, TypeOK
  <2> QED BY <1>1, <2>1, <2>2
<1>9. ASSUME NEW t \in Trains, RegisterTrain(t) \/ Run(t) PROVE Goal
  <2>1. UNCHANGED <<latest, queues>>
    BY <1>9 DEF RegisterTrain, Run, MarkOccupiedStage, MarkTailClearStage, YieldUnenteredStage,
                RollbackFalseEntryStage, Become
  <2> QED BY <1>2, <2>1
<1>10. ASSUME (\E z \in Zones : Set(z)) \/ Elapse \/ Tick PROVE Goal
  <2>1. UNCHANGED <<latest, queues>>
    BY <1>10 DEF Set, MarkSetting, RetrySetting, MarkSettled, Become, Elapse, Tick
  <2> QED BY <1>2, <2>1
<1>11. Goal
  BY <1>6, <1>7, <1>8, <1>9, <1>10 DEF Next
<1> QED BY <1>11 DEF Goal

\* After any request or pruning no claim of an older route is left in a queue
\* of the train (Tc2ConflictZonePruneStaleRequests).
THEOREM ClaimsAlwaysCurrent == Spec => []ClaimsCurrent
<1> DEFINE Now == \A t \in Trains, z \in Zones : \A c \in Held(t, z) : c.generation = latest[t]
<1>1. Init => Now
  BY DEF Init, Held
<1>2. IInv /\ Now /\ [Next]_vars => Now'
  <2>1. ASSUME IInv, Now, Next PROVE Now'
    BY <2>1, CurrentKept
  <2>2. ASSUME Now, UNCHANGED vars PROVE Now'
    BY <2>2 DEF vars, queues, Held
  <2> QED BY <2>1, <2>2
<1>3. Now => ClaimsCurrent
  <2> SUFFICES ASSUME Now, NEW t \in Trains,
                      NEW c \in (UNION {{hard[t][z], soft[t][z]} : z \in Zones}) \ {NoClaim}
               PROVE  c.generation = latest[t]
    BY DEF ClaimsCurrent
  <2>1. PICK z \in Zones : c \in Held(t, z)
    BY DEF Held
  <2> QED BY <2>1
<1> HIDE DEF Now
<1> QED BY <1>1, <1>2, <1>3, ZoneInvariant, PTL DEF Spec

-----------------------------------------------------------------------------
(***************************************************************************)
(* ConflictZone implements TurnoutQueues: whatever the tickets do, a zone  *)
(* has one waiting line, trains join it at its end, and only its front is  *)
(* let in.                                                                 *)
(*                                                                         *)
(* A line is the trains that wait, ordered by the age of their tickets,    *)
(* and there is only one such sequence.  So it is enough to know what a    *)
(* step does to the set of waiting trains and to the order of their ages.  *)
(***************************************************************************)
(* Sequences in descending order of a key.                                 *)

Older(W, key, t) == {u \in W : key[u] > key[t]}

LineUp(W, key) ==
  [i \in 1 .. Cardinality(W) |-> CHOOSE t \in W : Cardinality(Older(W, key, t)) = i - 1]

Keyed(W, key) ==
  /\ IsFiniteSet(W) /\ key \in [W -> Int]
  /\ \A t, u \in W : key[t] = key[u] => t = u

InOrder(s, W, key) ==
  /\ s \in Seq(W)
  /\ \A t \in W : \E i \in 1 .. Len(s) : s[i] = t
  /\ \A i, j \in 1 .. Len(s) : i < j => key[s[i]] > key[s[j]]

LEMMA RankApart ==
  ASSUME NEW W, NEW key, Keyed(W, key), NEW t \in W, NEW u \in W,
         Cardinality(Older(W, key, t)) = Cardinality(Older(W, key, u))
  PROVE  t = u
<1>1. \A v, w \in W : key[v] > key[w] =>
        Cardinality(Older(W, key, v)) # Cardinality(Older(W, key, w))
  <2> SUFFICES ASSUME NEW v \in W, NEW w \in W, key[v] > key[w]
               PROVE  Cardinality(Older(W, key, v)) # Cardinality(Older(W, key, w))
    OBVIOUS
  <2>1. Older(W, key, v) \in SUBSET Older(W, key, w)
    BY DEF Older, Keyed
  <2>2. v \in Older(W, key, w) /\ v \notin Older(W, key, v)
    BY DEF Older, Keyed
  <2>3. IsFiniteSet(Older(W, key, w))
    BY FS_Subset DEF Older, Keyed
  <2> QED BY <2>1, <2>2, <2>3, FS_Subset
<1> QED BY <1>1 DEF Keyed

LEMMA RankBound ==
  ASSUME NEW W, NEW key, Keyed(W, key), NEW t \in W
  PROVE  Cardinality(Older(W, key, t)) \in 0 .. (Cardinality(W) - 1)
<1>1. Older(W, key, t) \in SUBSET (W \ {t}) /\ t \in W
  BY DEF Older, Keyed
<1>2. IsFiniteSet(W \ {t}) /\ Cardinality(W \ {t}) = Cardinality(W) - 1
  BY FS_RemoveElement DEF Keyed
<1>3. IsFiniteSet(Older(W, key, t)) /\ Cardinality(Older(W, key, t)) <= Cardinality(W \ {t})
  BY <1>1, <1>2, FS_Subset
<1>4. Cardinality(Older(W, key, t)) \in Nat /\ Cardinality(W) \in Nat
  BY <1>3, FS_CardinalityType DEF Keyed
<1> QED BY <1>2, <1>3, <1>4

\* Every place of the line has its train.
LEMMA RankTaken ==
  ASSUME NEW W, NEW key, Keyed(W, key), NEW i \in 1 .. Cardinality(W)
  PROVE  \E t \in W : Cardinality(Older(W, key, t)) = i - 1
<1> DEFINE n == Cardinality(W)
           rank == [t \in W |-> Cardinality(Older(W, key, t))]
<1>1. n \in Nat /\ IsFiniteSet(W)
  BY FS_CardinalityType DEF Keyed
<1>2. IsFiniteSet(0 .. (n - 1)) /\ Cardinality(0 .. (n - 1)) = n
  <2>1. 0 \in Int /\ n - 1 \in Int
    BY <1>1
  <2> QED BY <1>1, <2>1, FS_Interval
<1>3. rank \in Injection(W, 0 .. (n - 1))
  <2>1. rank \in [W -> 0 .. (n - 1)]
    BY RankBound
  <2>2. \A t, u \in W : rank[t] = rank[u] => t = u
    BY RankApart
  <2> HIDE DEF rank
  <2> QED BY <2>1, <2>2 DEF Injection, IsInjective
<1>4. rank \in Surjection(W, 0 .. (n - 1))
  <2> HIDE DEF rank
  <2> QED BY <1>2, <1>3, FS_Injection
<1>5. i - 1 \in 0 .. (n - 1)
  BY <1>1
<1>6. PICK t \in W : rank[t] = i - 1
  <2> HIDE DEF rank
  <2> QED BY <1>4, <1>5 DEF Surjection
<1> QED BY <1>6

LEMMA LineUpInOrder ==
  ASSUME NEW W, NEW key, Keyed(W, key)
  PROVE  InOrder(LineUp(W, key), W, key)
<1> DEFINE s == LineUp(W, key)
           n == Cardinality(W)
<1>1. n \in Nat
  BY FS_CardinalityType DEF Keyed
<1>2. \A i \in 1 .. n : s[i] \in W /\ Cardinality(Older(W, key, s[i])) = i - 1
  BY RankTaken DEF LineUp
<1>3. s \in Seq(W) /\ Len(s) = n
  <2>1. s = [i \in 1 .. n |-> s[i]]
    BY DEF LineUp
  <2>2. s \in [1 .. n -> W]
    BY <1>2, <2>1
  <2> HIDE DEF s
  <2> QED BY <1>1, <2>2, LenProperties, SeqDef
<1> HIDE DEF s
<1>4. ASSUME NEW t \in W PROVE \E i \in 1 .. Len(s) : s[i] = t
  <2> DEFINE r == Cardinality(Older(W, key, t))
  <2>1. r \in 0 .. (n - 1)
    BY RankBound
  <2>2. r + 1 \in 1 .. n /\ s[r + 1] \in W /\ Cardinality(Older(W, key, s[r + 1])) = r
    BY <1>1, <1>2, <2>1
  <2>3. s[r + 1] = t
    BY <2>2, RankApart
  <2> QED BY <1>3, <2>2, <2>3
<1>5. ASSUME NEW i \in 1 .. n, NEW j \in 1 .. n, i < j
      PROVE  key[s[i]] > key[s[j]]
  <2>1. s[i] \in W /\ s[j] \in W /\ key[s[i]] \in Int /\ key[s[j]] \in Int
    BY <1>2 DEF Keyed
  <2>2. CASE key[s[i]] <= key[s[j]]
    <3>1. Older(W, key, s[j]) \in SUBSET Older(W, key, s[i])
      BY <2>1, <2>2 DEF Older, Keyed
    <3>2. IsFiniteSet(Older(W, key, s[i]))
      BY FS_Subset DEF Older, Keyed
    <3>3. Cardinality(Older(W, key, s[j])) <= Cardinality(Older(W, key, s[i]))
      BY <3>1, <3>2, FS_Subset
    <3> QED BY <1>1, <1>2, <1>5, <3>3
  <2> QED BY <2>1, <2>2
<1>6. InOrder(s, W, key)
  BY <1>3, <1>4, <1>5 DEF InOrder
<1> QED BY <1>6 DEF s

\* The place of a train tells how many are older.
LEMMA PlaceIsRank ==
  ASSUME NEW W, NEW key, Keyed(W, key), NEW s, InOrder(s, W, key), NEW i \in 1 .. Len(s)
  PROVE  s[i] \in W /\ Cardinality(Older(W, key, s[i])) = i - 1
<1>1. Len(s) \in Nat /\ \A j \in 1 .. Len(s) : s[j] \in W /\ key[s[j]] \in Int
  BY LenProperties, ElementOfSeq DEF InOrder, Keyed
<1> DEFINE S == 1 .. (i - 1)
           T == Older(W, key, s[i])
           f == [j \in S |-> s[j]]
<1>2. \A j \in S : j \in 1 .. Len(s) /\ j < i
  BY <1>1
<1>3. \A j, k \in 1 .. Len(s) : j < k => key[s[j]] > key[s[k]]
  BY DEF InOrder
<1>4. f \in [S -> T]
  <2>1. \A j \in S : s[j] \in T
    BY <1>1, <1>2, <1>3 DEF Older
  <2> QED BY <2>1
<1>5. \A j, k \in S : f[j] = f[k] => j = k
  <2>1. \A j, k \in S : j < k => key[s[j]] > key[s[k]]
    BY <1>2, <1>3
  <2>2. \A j, k \in S : j < k => s[j] # s[k]
    BY <1>1, <1>2, <2>1
  <2> QED BY <1>1, <1>2, <2>2
<1>6. \A t \in T : \E j \in S : f[j] = t
  <2> SUFFICES ASSUME NEW t \in T PROVE \E j \in S : f[j] = t
    OBVIOUS
  <2>1. PICK j \in 1 .. Len(s) : s[j] = t
    BY DEF InOrder, Older
  <2>2. key[s[j]] > key[s[i]]
    BY <2>1 DEF Older
  <2>3. j < i
    <3>1. j \in Int /\ i \in Int /\ key[s[j]] \in Int /\ key[s[i]] \in Int
      BY <1>1
    <3>2. ~(i < j) /\ i # j
      BY <1>3, <2>2, <3>1
    <3> QED BY <3>1, <3>2
  <2> QED BY <2>1, <2>3
<1>7. ExistsBijection(S, T)
  <2>1. /\ f \in [S -> T]
        /\ \A j, k \in S : f[j] = f[k] => j = k
        /\ \A t \in T : \E j \in S : f[j] = t
    BY <1>4, <1>5, <1>6
  <2> HIDE DEF f, S, T
  <2> QED BY <2>1 DEF ExistsBijection, Bijection, Injection, IsInjective, Surjection
<1>8. IsFiniteSet(S) /\ Cardinality(S) = i - 1
  BY FS_Interval
<1>9. Cardinality(T) = i - 1
  <2> HIDE DEF S, T
  <2> QED BY <1>7, <1>8, FS_Bijection
<1> QED BY <1>1, <1>9

\* There is one sequence in order.
LEMMA OneOrder ==
  ASSUME NEW W, NEW key, Keyed(W, key), NEW s, InOrder(s, W, key)
  PROVE  s = LineUp(W, key)
<1> DEFINE r == LineUp(W, key)
<1>1. InOrder(r, W, key)
  BY LineUpInOrder
<1> HIDE DEF r
<1>2. s \in Seq(W) /\ r \in Seq(W) /\ Len(s) \in Nat /\ Len(r) \in Nat
  BY <1>1, LenProperties DEF InOrder
<1>3. ASSUME NEW a, NEW b, InOrder(a, W, key), InOrder(b, W, key), NEW i \in 1 .. Len(a)
      PROVE  i \in 1 .. Len(b) /\ a[i] = b[i]
  <2>1. a[i] \in W /\ Cardinality(Older(W, key, a[i])) = i - 1
    BY <1>3, PlaceIsRank
  <2>2. PICK j \in 1 .. Len(b) : b[j] = a[i]
    BY <1>3, <2>1 DEF InOrder
  <2>3. Cardinality(Older(W, key, b[j])) = j - 1
    BY <1>3, PlaceIsRank
  <2> QED BY <2>1, <2>2, <2>3
<1>4. \A i \in 1 .. Len(s) : i \in 1 .. Len(r) /\ s[i] = r[i]
  BY <1>1, <1>3
<1>5. \A i \in 1 .. Len(r) : i \in 1 .. Len(s)
  BY <1>1, <1>3
<1>6. Len(s) = Len(r)
  BY <1>2, <1>4, <1>5
<1>7. s = r
  BY <1>2, <1>4, <1>6, SeqEqual
<1> QED BY <1>7 DEF r

-----------------------------------------------------------------------------
(* What joining, leaving and being let in do to a line.                    *)

\* The order of those who are in both lines is the same.
SameOrder(W, key, V, new) ==
  \A t, u \in W \cap V : key[t] > key[u] => new[t] > new[u]

LEMMA OrderKept ==
  ASSUME NEW s, NEW W, NEW key, NEW new, InOrder(s, W, key), SameOrder(W, key, W, new)
  PROVE  InOrder(s, W, new)
<1>1. \A i \in 1 .. Len(s) : s[i] \in W
  BY ElementOfSeq DEF InOrder
<1> QED BY <1>1 DEF InOrder, SameOrder

LEMMA NobodyLeaves ==
  ASSUME NEW s, NEW W, NEW key, InOrder(s, W, key), NEW t, t \notin W
  PROVE  Queues!Without(s, t) = s
<1>1. \A i \in 1 .. Len(s) : s[i] \in W
  BY ElementOfSeq DEF InOrder
<1> QED BY <1>1 DEF Queues!Without

LEMMA OneLeaves ==
  ASSUME NEW W, NEW key, Keyed(W, key), NEW s, InOrder(s, W, key), NEW t \in W, NEW new,
         SameOrder(W, key, W \ {t}, new)
  PROVE  InOrder(Queues!Without(s, t), W \ {t}, new)
<1>1. /\ Len(s) \in Nat
      /\ \A i \in 1 .. Len(s) : s[i] \in W /\ key[s[i]] \in Int
      /\ \A i, j \in 1 .. Len(s) : i < j => key[s[i]] > key[s[j]]
      /\ \A u \in W : \E i \in 1 .. Len(s) : s[i] = u
  BY LenProperties, ElementOfSeq DEF InOrder, Keyed
<1> DEFINE at == CHOOSE i \in 1 .. Len(s) : s[i] = t
           n == Len(s) - 1
           r == [i \in 1 .. n |-> s[IF i < at THEN i ELSE i + 1]]
<1>2. at \in 1 .. Len(s) /\ s[at] = t
  BY <1>1
<1>3. Queues!Without(s, t) = r
  BY <1>2 DEF Queues!Without
<1>4. n \in Nat
  BY <1>1, <1>2
<1> HIDE DEF at
<1> DEFINE p(i) == IF i < at THEN i ELSE i + 1
<1>5. \A i \in 1 .. n : p(i) \in 1 .. Len(s) /\ p(i) # at /\ r[i] = s[p(i)]
  BY <1>1, <1>2, <1>4
<1>6. \A i, j \in 1 .. n : i < j => p(i) < p(j)
  BY <1>1, <1>2, <1>4
<1>7. \A k \in 1 .. Len(s) : k # at => \E i \in 1 .. n : p(i) = k
  <2> SUFFICES ASSUME NEW k \in 1 .. Len(s), k # at PROVE \E i \in 1 .. n : p(i) = k
    OBVIOUS
  <2>1. CASE k < at
    <3>1. k \in 1 .. n /\ p(k) = k
      BY <1>1, <1>2, <2>1
    <3> QED BY <3>1
  <2>2. CASE k > at
    <3>1. k - 1 \in 1 .. n /\ p(k - 1) = k
      BY <1>1, <1>2, <2>2
    <3> QED BY <3>1
  <2> QED BY <1>1, <1>2, <2>1, <2>2
<1>8. \A i \in 1 .. Len(s) : i # at => s[i] # t
  <2>1. \A i, j \in 1 .. Len(s) : i < j => s[i] # s[j]
    BY <1>1
  <2> QED BY <1>1, <1>2, <2>1
<1>9. Len(r) = n /\ r \in Seq(W \ {t})
  <2>1. \A i \in 1 .. n : s[p(i)] \in W \ {t}
    BY <1>1, <1>5, <1>8
  <2>2. r \in [1 .. n -> W \ {t}]
    BY <1>5, <2>1
  <2> HIDE DEF r
  <2> QED BY <1>4, <2>2, SeqDef, LenProperties
<1> HIDE DEF r, p
<1>10. ASSUME NEW u \in W \ {t} PROVE \E i \in 1 .. n : r[i] = u
  <2>1. PICK k \in 1 .. Len(s) : s[k] = u
    BY <1>1
  <2>2. k # at
    BY <1>2, <2>1
  <2> QED BY <1>5, <1>7, <2>1, <2>2
<1>11. ASSUME NEW i \in 1 .. n, NEW j \in 1 .. n, i < j PROVE new[r[i]] > new[r[j]]
  <2>1. key[r[i]] > key[r[j]]
    BY <1>1, <1>5, <1>6, <1>11
  <2>2. r[i] \in W \ {t} /\ r[j] \in W \ {t}
    BY <1>1, <1>5, <1>8
  <2> QED BY <2>1, <2>2 DEF SameOrder
<1>12. InOrder(r, W \ {t}, new)
  BY <1>9, <1>10, <1>11 DEF InOrder
<1> QED BY <1>3, <1>12

LEMMA OneJoins ==
  ASSUME NEW W, NEW key, NEW s, InOrder(s, W, key), NEW t, t \notin W, NEW new,
         SameOrder(W, key, W, new), \A u \in W : new[u] > new[t]
  PROVE  InOrder(Append(s, t), W \cup {t}, new)
<1> DEFINE V == W \cup {t}
           r == Append(s, t)
<1>1. /\ Len(s) \in Nat
      /\ \A i \in 1 .. Len(s) : s[i] \in W
      /\ \A i, j \in 1 .. Len(s) : i < j => key[s[i]] > key[s[j]]
      /\ \A u \in W : \E i \in 1 .. Len(s) : s[i] = u
  BY LenProperties, ElementOfSeq DEF InOrder
<1>2. s \in Seq(V) /\ t \in V
  BY SeqMonotonic DEF InOrder
<1>3. /\ r \in Seq(V) /\ Len(r) = Len(s) + 1
      /\ \A i \in 1 .. Len(s) : r[i] = s[i]
      /\ r[Len(s) + 1] = t
  BY <1>2, AppendProperties
<1> HIDE DEF r
<1>4. ASSUME NEW u \in V PROVE \E i \in 1 .. Len(r) : r[i] = u
  <2>1. CASE u = t
    BY <1>1, <1>3, <2>1
  <2>2. CASE u \in W
    <3>1. PICK i \in 1 .. Len(s) : s[i] = u
      BY <1>1, <2>2
    <3> QED BY <1>1, <1>3, <3>1
  <2> QED BY <2>1, <2>2
<1>5. ASSUME NEW i \in 1 .. Len(r), NEW j \in 1 .. Len(r), i < j
      PROVE  new[r[i]] > new[r[j]]
  <2>1. i \in 1 .. Len(s) /\ r[i] = s[i] /\ s[i] \in W
    BY <1>1, <1>3, <1>5
  <2>2. CASE j \in 1 .. Len(s)
    <3>1. r[j] = s[j] /\ s[j] \in W /\ key[s[i]] > key[s[j]]
      BY <1>1, <1>3, <1>5, <2>1, <2>2
    <3> QED BY <2>1, <3>1 DEF SameOrder
  <2>3. CASE j = Len(s) + 1
    BY <1>3, <2>1, <2>3
  <2> QED BY <1>1, <1>3, <2>2, <2>3
<1>6. InOrder(r, V, new)
  BY <1>3, <1>4, <1>5 DEF InOrder
<1> QED BY <1>6 DEF r

\* Without its front a line is the tail.
LEMMA HeadLeaves ==
  ASSUME NEW W, NEW key, Keyed(W, key), NEW s, InOrder(s, W, key), s # <<>>
  PROVE  Tail(s) = Queues!Without(s, Head(s))
<1> DEFINE t == Head(s)
<1>1. /\ Len(s) \in Nat /\ s \in Seq(W)
      /\ \A i \in 1 .. Len(s) : s[i] \in W /\ key[s[i]] \in Int
      /\ \A i, j \in 1 .. Len(s) : i < j => key[s[i]] > key[s[j]]
  BY LenProperties, ElementOfSeq DEF InOrder, Keyed
<1>2. 1 \in 1 .. Len(s) /\ s[1] = t
  BY <1>1, EmptySeq
<1> HIDE DEF t
<1>3. /\ Tail(s) \in Seq(W) /\ Len(Tail(s)) = Len(s) - 1
      /\ \A i \in 1 .. Len(Tail(s)) : Tail(s)[i] = s[i + 1]
  BY <1>1, HeadTailProperties
<1> DEFINE at == CHOOSE i \in 1 .. Len(s) : s[i] = t
           n == Len(s) - 1
           r == [i \in 1 .. n |-> s[IF i < at THEN i ELSE i + 1]]
<1>4. at = 1
  <2>1. at \in 1 .. Len(s) /\ s[at] = t
    BY <1>2
  <2> HIDE DEF at
  <2>2. 1 < at => key[s[1]] > key[s[at]]
    BY <1>1, <1>2, <2>1
  <2>3. ~(1 < at)
    BY <1>1, <1>2, <2>1, <2>2
  <2> QED BY <1>1, <2>1, <2>3
<1>5. Queues!Without(s, t) = r
  BY <1>2 DEF Queues!Without
<1> HIDE DEF at
<1>6. \A i \in 1 .. n : r[i] = s[i + 1]
  BY <1>1, <1>4
<1>7. r \in Seq(W) /\ Len(r) = n
  <2>1. n \in Nat
    BY <1>1, <1>2
  <2>2. \A i \in 1 .. n : s[i + 1] \in W
    BY <1>1
  <2>3. r \in [1 .. n -> W]
    BY <1>6, <2>2
  <2> HIDE DEF r
  <2> QED BY <2>1, <2>3, SeqDef, LenProperties
<1> HIDE DEF r
<1>8. Tail(s) = r
  BY <1>3, <1>6, <1>7, SeqEqual
<1> QED BY <1>5, <1>8 DEF t

\* The front of a line is its oldest train.
LEMMA FrontOfLine ==
  ASSUME NEW W, NEW key, Keyed(W, key), NEW s, InOrder(s, W, key), NEW t \in W,
         \A u \in W : key[u] <= key[t]
  PROVE  s # <<>> /\ Head(s) = t
<1>1. /\ Len(s) \in Nat /\ s \in Seq(W)
      /\ \A i \in 1 .. Len(s) : s[i] \in W /\ key[s[i]] \in Int
      /\ \A i, j \in 1 .. Len(s) : i < j => key[s[i]] > key[s[j]]
      /\ \A u \in W : \E i \in 1 .. Len(s) : s[i] = u
  BY LenProperties, ElementOfSeq DEF InOrder, Keyed
<1>2. PICK k \in 1 .. Len(s) : s[k] = t
  BY <1>1
<1>3. 1 \in 1 .. Len(s) /\ k = 1
  <2>1. 1 \in 1 .. Len(s)
    BY <1>1
  <2>2. s[1] \in W /\ key[s[1]] <= key[t] /\ key[s[1]] \in Int /\ key[t] \in Int
    BY <1>1, <2>1 DEF Keyed
  <2>3. ~(1 < k)
    <3>1. 1 < k => key[s[1]] > key[s[k]]
      BY <1>1, <2>1
    <3> QED BY <1>2, <2>2, <3>1
  <2> QED BY <1>1, <2>1, <2>3
<1> QED BY <1>1, <1>2, <1>3

-----------------------------------------------------------------------------
(* Ages of tickets.                                                        *)

\* Nobody waits while half of the tickets are handed out.
Young ==
  \A z \in Zones, t \in Trains : \A c \in Held(t, z) :
    Age(c.ticket) \in 1 .. (TicketSpace \div 2)

QInv == IInv /\ Young

AgeUnder(n, k) == (n - k) % TicketSpace

LEMMA AgeIs ==
  ASSUME NEW n \in Tickets, NEW k \in Tickets
  PROVE  AgeUnder(n, k) = IF n >= k THEN n - k ELSE n - k + TicketSpace
<1>1. TicketSpace \in Nat /\ TicketSpace >= 4 /\ n \in Int /\ k \in Int
  BY ZoneAssumption DEF Tickets
<1> QED BY <1>1, SMT DEF Tickets, AgeUnder

LEMMA HalfIs == TicketSpace \in Nat /\ TicketSpace >= 4 /\ TicketSpace \div 2 \in Nat
                /\ TicketSpace \div 2 >= 2 /\ 2 * (TicketSpace \div 2) <= TicketSpace
<1>1. TicketSpace \in Nat /\ TicketSpace >= 4
  BY ZoneAssumption
<1> QED BY <1>1, SMT

LEMMA AgesApart ==
  ASSUME NEW n \in Tickets, NEW j \in Tickets, NEW k \in Tickets, AgeUnder(n, j) = AgeUnder(n, k)
  PROVE  j = k
BY AgeIs, HalfIs DEF Tickets

\* Among young tickets the order of the code is the order of age.
LEMMA BeforeIsOlder ==
  ASSUME NEW n \in Tickets, NEW j \in Tickets, NEW k \in Tickets,
         AgeUnder(n, j) \in 1 .. (TicketSpace \div 2), AgeUnder(n, k) \in 1 .. (TicketSpace \div 2)
  PROVE  Before(j, k) <=> AgeUnder(n, j) > AgeUnder(n, k)
<1>1. /\ AgeUnder(n, j) = IF n >= j THEN n - j ELSE n - j + TicketSpace
      /\ AgeUnder(n, k) = IF n >= k THEN n - k ELSE n - k + TicketSpace
      /\ (j - k) % TicketSpace = IF j >= k THEN j - k ELSE j - k + TicketSpace
  BY AgeIs DEF AgeUnder
<1> QED BY <1>1, HalfIs DEF Before, Tickets

\* A ticket that is handed out makes all others older by as much.
LEMMA AllGrowOlder ==
  ASSUME NEW n \in Tickets
  PROVE  /\ Successor(n) \in Tickets
         /\ AgeUnder(Successor(n), n) \in 1 .. 2
         /\ \A k \in Tickets : AgeUnder(n, k) \in 1 .. (TicketSpace \div 2 - 2) =>
              AgeUnder(Successor(n), k) = AgeUnder(n, k) + AgeUnder(Successor(n), n)
<1>1. Successor(n) \in Tickets
  BY HalfIs DEF Successor, Tickets
<1>2. AgeUnder(Successor(n), n) =
        IF Successor(n) >= n THEN Successor(n) - n ELSE Successor(n) - n + TicketSpace
  BY <1>1, AgeIs
<1>3. AgeUnder(Successor(n), n) = IF n = TicketSpace - 1 THEN 2 ELSE 1
  BY <1>1, <1>2, HalfIs DEF Successor, Tickets
<1>4. ASSUME NEW k \in Tickets, AgeUnder(n, k) \in 1 .. (TicketSpace \div 2 - 2)
      PROVE  AgeUnder(Successor(n), k) = AgeUnder(n, k) + AgeUnder(Successor(n), n)
  <2>1. /\ AgeUnder(n, k) = IF n >= k THEN n - k ELSE n - k + TicketSpace
        /\ AgeUnder(Successor(n), k) =
             IF Successor(n) >= k THEN Successor(n) - k ELSE Successor(n) - k + TicketSpace
    BY <1>1, AgeIs
  <2> QED BY <1>3, <1>4, <2>1, HalfIs DEF Successor, Tickets
<1> QED BY <1>1, <1>3, <1>4

\* The age of a claim is that of its ticket.
LEMMA ClaimHeld ==
  ASSUME Types, NEW t \in Trains, NEW z \in Zones, NEW c \in Held(t, z)
  PROVE  c \in Claims /\ c.ticket \in Tickets /\ c \in ClaimsOf(z)
<1>1. c \in Claims /\ c \in {hard[t][z], soft[t][z]} /\ c # NoClaim
  BY DEF Held, Types, TypeOK
<1>2. {hard[t][z], soft[t][z]} \in {{hard[u][z], soft[u][z]} : u \in Trains}
  OBVIOUS
<1>3. c \in UNION {{hard[u][z], soft[u][z]} : u \in Trains}
  BY <1>1, <1>2
<1> QED BY <1>1, <1>3 DEF Claims, ClaimsOf

LEMMA ClaimsOfHeld ==
  ASSUME NEW z \in Zones, NEW c \in ClaimsOf(z)
  PROVE  \E t \in Trains : c \in Held(t, z)
BY DEF ClaimsOf, Held

\* What a step that hands out at most one ticket does to the ages.
LEMMA AgesShift ==
  ASSUME Types, Young, UNCHANGED nextTicket \/ TakeTicket
  PROVE  \E d \in 0 .. 2 :
           /\ TakeTicket => d = AgeUnder(nextTicket', nextTicket) /\ d > 0
           /\ \A z \in Zones, t \in Trains : \A c \in Held(t, z) :
                AgeUnder(nextTicket', c.ticket) = Age(c.ticket) + d
                /\ AgeUnder(nextTicket', c.ticket) \in 1 .. (TicketSpace \div 2)
<1>1. nextTicket \in Tickets
  BY DEF Types, TypeOK
<1>2. CASE TakeTicket
  <2> DEFINE d == AgeUnder(nextTicket', nextTicket)
  <2>1. nextTicket' = Successor(nextTicket) /\ TicketsFresh
    BY <1>2 DEF TakeTicket
  <2>2. d \in 1 .. 2
    BY <1>1, <2>1, AllGrowOlder
  <2>3. ASSUME NEW z \in Zones, NEW t \in Trains, NEW c \in Held(t, z)
        PROVE  AgeUnder(nextTicket', c.ticket) = Age(c.ticket) + d
               /\ AgeUnder(nextTicket', c.ticket) \in 1 .. (TicketSpace \div 2)
    <3>1. c.ticket \in Tickets /\ c \in ClaimsOf(z)
      BY <2>3, ClaimHeld
    <3>2. Age(c.ticket) < TicketSpace \div 2 - 1 /\ Age(c.ticket) \in 1 .. (TicketSpace \div 2)
      BY <2>1, <2>3, <3>1 DEF TicketsFresh, Young
    <3>3. /\ Age(c.ticket) \in 1 .. (TicketSpace \div 2 - 2)
          /\ Age(c.ticket) = AgeUnder(nextTicket, c.ticket)
      BY <3>2, HalfIs DEF Age, AgeUnder
    <3>4. AgeUnder(nextTicket', c.ticket) = Age(c.ticket) + d
      BY <1>1, <2>1, <3>1, <3>3, AllGrowOlder
    <3> QED BY <2>2, <3>3, <3>4, HalfIs
  <2> HIDE DEF d
  <2>4. d \in 0 .. 2 /\ d > 0
    BY <2>2
  <2> QED BY <2>3, <2>4 DEF d
<1>3. CASE UNCHANGED nextTicket /\ ~TakeTicket
  <2>1. ASSUME NEW z \in Zones, NEW t \in Trains, NEW c \in Held(t, z)
        PROVE  AgeUnder(nextTicket', c.ticket) = Age(c.ticket) + 0
               /\ AgeUnder(nextTicket', c.ticket) \in 1 .. (TicketSpace \div 2)
    <3>1. Age(c.ticket) \in 1 .. (TicketSpace \div 2)
      BY <2>1 DEF Young
    <3>2. AgeUnder(nextTicket', c.ticket) = Age(c.ticket)
      BY <1>3 DEF AgeUnder, Age
    <3> QED BY <3>1, <3>2, HalfIs
  <2> QED BY <1>3, <2>1
<1> QED BY <1>2, <1>3

-----------------------------------------------------------------------------
(* The line of a zone.                                                     *)

AgeAt(z) == [t \in WaitingAt(z) |-> Age(TicketAt(z, t))]

\* A train in a line is there with one claim.
OneClaim ==
  \A z \in Zones, t \in Trains :
    /\ t \in WaitingAt(z) <=> Held(t, z) # {}
    /\ \A c \in Held(t, z) : Held(t, z) = {c} /\ AgeAt(z)[t] = Age(c.ticket)

LEMMA WaitsWith == QInv => OneClaim
<1> SUFFICES ASSUME QInv, NEW z \in Zones, NEW t \in Trains
             PROVE  /\ t \in WaitingAt(z) <=> Held(t, z) # {}
                    /\ \A c \in Held(t, z) : Held(t, z) = {c} /\ AgeAt(z)[t] = Age(c.ticket)
  BY DEF OneClaim
<1>1. t \in WaitingAt(z) <=> Held(t, z) # {}
  BY DEF WaitingAt, Held
<1>2. ~(hard[t][z] # NoClaim /\ soft[t][z] # NoClaim)
  BY DEF QInv, IInv, LineInv, OneRole, ZonesOf
<1>3. ASSUME NEW c \in Held(t, z) PROVE Held(t, z) = {c} /\ TicketAt(z, t) = c.ticket
  BY <1>2 DEF Held, TicketAt
<1> QED BY <1>1, <1>3 DEF AgeAt

\* Everybody in a line has a ticket of another age, and the line is in the
\* order of these ages.
ByAge ==
  \A z \in Zones : /\ Keyed(WaitingAt(z), AgeAt(z))
                   /\ LineAt(z) = LineUp(WaitingAt(z), AgeAt(z))

LEMMA LinesOrdered == QInv => ByAge
<1> SUFFICES ASSUME QInv, NEW z \in Zones
             PROVE  /\ Keyed(WaitingAt(z), AgeAt(z))
                    /\ LineAt(z) = LineUp(WaitingAt(z), AgeAt(z))
  BY DEF ByAge
<1> DEFINE W == WaitingAt(z)
           key == AgeAt(z)
<1>1. W \subseteq Trains /\ nextTicket \in Tickets
  BY DEF WaitingAt, QInv, IInv, Types, TypeOK
<1>2. IsFiniteSet(W)
  <2>1. \A t \in W : z \in ZonesOf(hard[t]) \cup ZonesOf(soft[t]) /\ t \in Trains
    BY DEF WaitingAt, ZonesOf
  <2>2. W \in SUBSET registered
    BY <2>1 DEF QInv, IInv, HoldersRegistered
  <2> QED BY <2>2, FS_Subset DEF QInv, IInv, Types
<1>3. \A t \in W : \E c \in Held(t, z) : key[t] = Age(c.ticket) /\ c.ticket \in Tickets
  <2> SUFFICES ASSUME NEW t \in W
               PROVE  \E c \in Held(t, z) : key[t] = Age(c.ticket) /\ c.ticket \in Tickets
    OBVIOUS
  <2>1. PICK c \in Held(t, z) : key[t] = Age(c.ticket)
    BY <1>1, WaitsWith DEF OneClaim
  <2> QED BY <1>1, <2>1, ClaimHeld DEF QInv, IInv
<1>4. \A t \in W : key[t] \in Int
  BY <1>1, <1>3, AgeIs, HalfIs DEF Age, AgeUnder, Tickets
<1>5. key \in [W -> Int]
  <2>1. key = [t \in W |-> key[t]]
    BY DEF AgeAt
  <2> HIDE DEF key, W
  <2> QED BY <1>4, <2>1
<1>6. ASSUME NEW t \in W, NEW u \in W, key[t] = key[u] PROVE t = u
  <2>1. PICK c \in Held(t, z) : key[t] = Age(c.ticket) /\ c.ticket \in Tickets
    BY <1>3
  <2>2. PICK e \in Held(u, z) : key[u] = Age(e.ticket) /\ e.ticket \in Tickets
    BY <1>3
  <2>3. c.ticket = e.ticket
    BY <1>1, <1>6, <2>1, <2>2, AgesApart DEF Age, AgeUnder
  <2> QED BY <1>1, <2>3 DEF QInv, IInv, LineInv, TicketsApart
<1>7. Keyed(W, key)
  BY <1>2, <1>5, <1>6 DEF Keyed
<1>8. \A t \in W : Older(W, key, t) = {u \in W : Age(TicketAt(z, u)) > Age(TicketAt(z, t))}
  BY DEF Older, AgeAt
<1> DEFINE place(i) == CHOOSE t \in W :
             Cardinality({u \in W : Age(TicketAt(z, u)) > Age(TicketAt(z, t))}) = i - 1
           rank(i) == CHOOSE t \in W : Cardinality(Older(W, key, t)) = i - 1
<1>9. LineAt(z) = [i \in 1 .. Cardinality(W) |-> place(i)]
  BY DEF LineAt
<1>10. LineUp(W, key) = [i \in 1 .. Cardinality(W) |-> rank(i)]
  BY DEF LineUp
<1>11. ASSUME NEW i \in 1 .. Cardinality(W) PROVE place(i) = rank(i)
  <2>1. PICK t \in W : Cardinality(Older(W, key, t)) = i - 1
    BY <1>7, RankTaken
  <2>2. rank(i) \in W /\ Cardinality(Older(W, key, rank(i))) = i - 1
    BY <2>1
  <2>3. /\ place(i) \in W
        /\ Cardinality({u \in W : Age(TicketAt(z, u)) > Age(TicketAt(z, place(i)))}) = i - 1
    <3>1. Cardinality({u \in W : Age(TicketAt(z, u)) > Age(TicketAt(z, t))}) = i - 1
      BY <1>8, <2>1
    <3> QED BY <3>1
  <2> HIDE DEF place, rank
  <2>4. Cardinality(Older(W, key, place(i))) = i - 1
    BY <1>8, <2>3
  <2> HIDE DEF W, key
  <2> QED BY <1>7, <2>2, <2>3, <2>4, RankApart
<1>12. LineAt(z) = LineUp(W, key)
  <2> HIDE DEF place, rank, W, key
  <2> QED BY <1>9, <1>10, <1>11
<1> QED BY <1>7, <1>12

\* One train moves in the lines: what it holds it held before, or it was
\* given a new ticket for it.
Moves(t) ==
  /\ UNCHANGED nextTicket \/ TakeTicket
  /\ \A u \in Trains \ {t} : hard'[u] = hard[u] /\ soft'[u] = soft[u]
  /\ \A z \in Zones : \A c \in Held(t, z)' :
       c \in Held(t, z) \/ (TakeTicket /\ c.ticket = nextTicket)

LEMMA MovesKeepYoung ==
  ASSUME QInv, NEW t \in Trains, Moves(t)
  PROVE  Young'
<1>1. Types /\ Young /\ nextTicket \in Tickets
  BY DEF QInv, IInv, Types, TypeOK
<1>2. PICK d \in 0 .. 2 :
        /\ TakeTicket => d = AgeUnder(nextTicket', nextTicket) /\ d > 0
        /\ \A z \in Zones, u \in Trains : \A c \in Held(u, z) :
             AgeUnder(nextTicket', c.ticket) = Age(c.ticket) + d
             /\ AgeUnder(nextTicket', c.ticket) \in 1 .. (TicketSpace \div 2)
  BY <1>1, AgesShift DEF Moves
<1>3. ASSUME NEW z \in Zones, NEW u \in Trains, NEW c \in Held(u, z)'
      PROVE  AgeUnder(nextTicket', c.ticket) \in 1 .. (TicketSpace \div 2)
  <2>1. u # t => Held(u, z)' = Held(u, z)
    BY DEF Moves, Held
  <2>2. c \in Held(u, z) \/ (TakeTicket /\ c.ticket = nextTicket)
    BY <2>1, <1>3 DEF Moves
  <2>3. CASE c \in Held(u, z)
    BY <1>2, <2>3
  <2>4. CASE TakeTicket /\ c.ticket = nextTicket
    BY <1>2, <2>4, HalfIs
  <2> QED BY <2>2, <2>3, <2>4
<1> QED BY <1>3 DEF Young, Age, AgeUnder

\* What that does to a line: the train keeps its place, leaves, or leaves
\* and joins at the end.
LEMMA LineMoves ==
  ASSUME QInv, QInv', NEW t \in Trains, Moves(t), NEW z \in Zones
  PROVE  \/ Held(t, z)' = Held(t, z) /\ LineAt(z)' = LineAt(z)
         \/ /\ Held(t, z)' \cap Held(t, z) = {}
            /\ LineAt(z)' = IF Held(t, z)' = {} THEN Queues!Without(LineAt(z), t)
                            ELSE Append(Queues!Without(LineAt(z), t), t)
<1> DEFINE W == WaitingAt(z)
           K == AgeAt(z)
           s == LineAt(z)
           H(u) == Held(u, z)
           V == W'
           L == K'
<1>1. /\ Keyed(W, K) /\ s = LineUp(W, K)
      /\ Keyed(V, L) /\ s' = LineUp(V, L)
  <2>1. ByAge /\ ByAge'
    BY LinesOrdered, PTL
  <2> QED BY <2>1 DEF ByAge
<1>2. \A u \in Trains : /\ u \in W <=> H(u) # {}
                        /\ \A c \in H(u) : H(u) = {c} /\ K[u] = Age(c.ticket)
  BY WaitsWith DEF OneClaim
<1>3. \A u \in Trains : /\ u \in V <=> H(u)' # {}
                        /\ \A c \in H(u)' : H(u)' = {c} /\ L[u] = AgeUnder(nextTicket', c.ticket)
  <2>1. OneClaim'
    BY WaitsWith, PTL
  <2> QED BY <2>1 DEF OneClaim, Age, AgeUnder
<1>4. W \subseteq Trains /\ V \subseteq Trains
  BY DEF WaitingAt
<1>5. \A u \in Trains : u # t => H(u)' = H(u)
  BY DEF Moves, Held
<1>6. InOrder(s, W, K)
  BY <1>1, LineUpInOrder
<1>7. PICK d \in 0 .. 2 :
        /\ TakeTicket => d = AgeUnder(nextTicket', nextTicket) /\ d > 0
        /\ \A u \in Trains : \A c \in Held(u, z) :
             AgeUnder(nextTicket', c.ticket) = Age(c.ticket) + d
  BY AgesShift DEF Moves, QInv, IInv
<1>8. \A u \in Trains : \A c \in Held(u, z) : Age(c.ticket) \in Int /\ Age(c.ticket) >= 1
  BY HalfIs DEF QInv, Young
<1> HIDE DEF W, K, s, H, V, L
<1>9. \A u \in Trains : u # t => (u \in V <=> u \in W)
  BY <1>2, <1>3, <1>5
<1>10. ASSUME NEW u \in W \cap V, H(u)' = H(u)
       PROVE  K[u] \in Int /\ K[u] >= 1 /\ L[u] = K[u] + d
  <2>1. PICK c : c \in H(u)
    BY <1>2, <1>4, <1>10
  <2> QED BY <1>2, <1>3, <1>4, <1>7, <1>8, <1>10, <2>1 DEF H
<1>11. \A u \in W \cap V : u # t => K[u] \in Int /\ K[u] >= 1 /\ L[u] = K[u] + d
  BY <1>4, <1>5, <1>10
<1>12. CASE H(t)' = H(t)
  <2>1. V = W
    <3>1. t \in V <=> t \in W
      BY <1>2, <1>3, <1>12
    <3> QED BY <1>4, <1>9, <3>1
  <2>2. \A u \in W : K[u] \in Int /\ L[u] = K[u] + d
    BY <1>10, <1>11, <1>12, <2>1
  <2>3. SameOrder(W, K, W, L)
    BY <2>2 DEF SameOrder
  <2>4. InOrder(s, V, L)
    BY <1>6, <2>1, <2>3, OrderKept
  <2>5. s' = s
    BY <1>1, <2>4, OneOrder
  <2> QED BY <1>12, <2>5 DEF H, s
<1>13. CASE H(t)' # H(t)
  <2> DEFINE R == W \ {t}
             r == Queues!Without(s, t)
  <2>1. H(t)' \cap H(t) = {}
    <3>1. \A c \in H(t)' \cap H(t) : H(t)' = {c} /\ H(t) = {c}
      BY <1>2, <1>3
    <3> QED BY <1>13, <3>1
  <2>2. V \ {t} = R
    BY <1>4, <1>9
  <2>3. \A u \in R : K[u] \in Int /\ K[u] >= 1 /\ L[u] = K[u] + d
    BY <1>11, <2>2
  <2>4. SameOrder(W, K, R, L)
    BY <2>3 DEF SameOrder
  <2>5. InOrder(r, R, L)
    <3>1. CASE t \in W
      BY <1>1, <1>6, <2>4, <3>1, OneLeaves
    <3>2. CASE t \notin W
      <4>1. R = W /\ r = s
        BY <1>6, <3>2, NobodyLeaves
      <4> QED BY <1>6, <2>4, <4>1, OrderKept
    <3> QED BY <3>1, <3>2
  <2> HIDE DEF r, R
  <2>6. CASE H(t)' = {}
    <3>1. V = R
      BY <1>3, <2>2, <2>6
    <3>2. s' = r
      BY <1>1, <2>5, <3>1, OneOrder
    <3> QED BY <2>1, <2>6, <3>2 DEF H, s, r
  <2>7. CASE H(t)' # {}
    <3>1. PICK c : c \in H(t)'
      BY <2>7
    <3>2. TakeTicket /\ c.ticket = nextTicket
      BY <2>1, <3>1 DEF Moves, H
    <3>3. L[t] = d /\ t \in V
      BY <1>3, <1>7, <3>1, <3>2
    <3>4. V = R \cup {t} /\ t \notin R
      BY <2>2, <3>3 DEF R
    <3>5. \A u \in R : L[u] > L[t]
      BY <2>3, <3>3
    <3>6. InOrder(Append(r, t), V, L)
      <4>1. SameOrder(R, L, R, L)
        BY DEF SameOrder
      <4> QED BY <2>5, <3>4, <3>5, <4>1, OneJoins
    <3>7. s' = Append(r, t)
      BY <1>1, <3>6, OneOrder
    <3> QED BY <2>1, <2>7, <3>7 DEF H, s, r
  <2> QED BY <2>6, <2>7
<1> QED BY <1>12, <1>13

-----------------------------------------------------------------------------
(* The steps.                                                              *)

LEMMA LineStepMoves ==
  ASSUME Types, NEW t \in Trains, LineStep(t)
  PROVE  Moves(t)
<1>1. PICK h \in {hard[t], NoClaims}, q \in {soft[t], NoClaims} :
        \/ Queue(t, h, q) /\ UNCHANGED nextTicket
        \/ /\ h = NoClaims
           /\ MayQueue(t, ZonesOf(q), h)
           /\ Queue(t, q, NoClaims)
           /\ UNCHANGED nextTicket
        \/ \E S \in Stages, g \in Generations, s \in Settings :
             /\ MayQueue(t, S, h) /\ TakeTicket
             /\ \/ /\ h = NoClaims /\ \A z \in S : q[z] = NoClaim
                   /\ Queue(t, With(NoClaims, S, NewClaim(g, s)), q)
                \/ Queue(t, h, With(NoClaims, S, NewClaim(g, s)))
  BY DEF LineStep
<1>2. \A z \in Zones : h[z] \in {hard[t][z], NoClaim} /\ q[z] \in {soft[t][z], NoClaim}
                       /\ NoClaims[z] = NoClaim
  BY DEF NoClaims
<1>3. ASSUME NEW a, NEW b, Queue(t, a, b)
      PROVE  /\ \A u \in Trains \ {t} : hard'[u] = hard[u] /\ soft'[u] = soft[u]
             /\ hard'[t] = a /\ soft'[t] = b
  BY <1>3 DEF Queue, Types, TypeOK
<1>4. CASE \/ Queue(t, h, q) /\ UNCHANGED nextTicket
           \/ Queue(t, q, NoClaims) /\ UNCHANGED nextTicket
  <2>1. \A z \in Zones : Held(t, z)' \subseteq Held(t, z)
    BY <1>2, <1>3, <1>4 DEF Held
  <2> QED BY <1>3, <1>4, <2>1 DEF Moves
<1>5. ASSUME NEW S \in Stages, NEW g \in Generations, NEW s \in Settings, TakeTicket,
             \/ Queue(t, With(NoClaims, S, NewClaim(g, s)), q)
             \/ Queue(t, h, With(NoClaims, S, NewClaim(g, s)))
      PROVE  Moves(t)
  <2> DEFINE added == With(NoClaims, S, NewClaim(g, s))
  <2>1. \A z \in Zones : added[z] = NoClaim \/ added[z].ticket = nextTicket
    BY DEF With, NoClaims, NewClaim
  <2> HIDE DEF added
  <2>2. \A z \in Zones : \A c \in Held(t, z)' : c \in Held(t, z) \/ c.ticket = nextTicket
    BY <1>2, <1>3, <1>5, <2>1 DEF Held, added
  <2>3. \A u \in Trains \ {t} : hard'[u] = hard[u] /\ soft'[u] = soft[u]
    BY <1>3, <1>5
  <2> QED BY <1>5, <2>2, <2>3 DEF Moves
<1> QED BY <1>1, <1>4, <1>5

LEMMA GrantMoves ==
  ASSUME Types, NEW t \in Trains, TryGrantStage(t)
  PROVE  Moves(t)
<1>1. /\ hard' = [hard EXCEPT ![t] = With(hard[t], WantedZones(t), NoClaim)]
      /\ UNCHANGED <<soft, nextTicket>>
  BY DEF TryGrantStage
<1>2. \A u \in Trains \ {t} : hard'[u] = hard[u] /\ soft'[u] = soft[u]
  BY <1>1 DEF Types, TypeOK
<1>3. \A z \in Zones : Held(t, z)' \subseteq Held(t, z)
  BY <1>1 DEF Held, With, Types, TypeOK
<1> QED BY <1>1, <1>2, <1>3 DEF Moves

\* A train gives control up: as the front of a line, and as an owner.
GivesUp(t, S) ==
  /\ HandOver(S)
  /\ Relinquished(t) \subseteq S /\ S \subseteq Relinquished(t) \cup OwnedBy(t)

Unclosed == \A z \in Zones : phase'[z] = "RELEASE_DELAY" <=> phase[z] = "RELEASE_DELAY"

LEMMA LinesAndControl ==
  ASSUME IInv, Next
  PROVE  \/ \E t \in Trains : LineStep(t) /\ \E S \in SUBSET Zones : GivesUp(t, S)
         \/ \E t \in Trains : TryGrantStage(t) \/ MarkTailClearStage(t)
         \/ Tick
         \/ UNCHANGED <<queues, nextTicket, owner>> /\ Unclosed
<1> DEFINE Goal ==
      \/ \E t \in Trains : LineStep(t) /\ \E S \in SUBSET Zones : GivesUp(t, S)
      \/ \E t \in Trains : TryGrantStage(t) \/ MarkTailClearStage(t)
      \/ Tick
      \/ UNCHANGED <<queues, nextTicket, owner>> /\ Unclosed
<1> USE DEF IInv
<1>1. \A t \in Trains : /\ Relinquished(t) \in SUBSET Zones
                        /\ Relinquished(t) \cup OwnedBy(t) \in SUBSET Zones
                        /\ HandOver(Relinquished(t)) => GivesUp(t, Relinquished(t))
                        /\ HandOver(Relinquished(t) \cup OwnedBy(t)) =>
                             GivesUp(t, Relinquished(t) \cup OwnedBy(t))
  BY RelinquishedFree DEF GivesUp, OwnedBy
<1>2. ASSUME UNCHANGED <<zones, queues, nextTicket>> PROVE Goal
  BY <1>2 DEF zones, Unclosed
<1>3. ASSUME NEW t \in Trains, Ask(t) PROVE Goal
  <2>1. CASE \E g \in Generations : StaleRequest(t, g)
    BY <1>2, <2>1 DEF StaleRequest
  <2>2. CASE \E g \in Generations : PruneStaleRequests(t, g)
    <3>1. PICK g \in Generations : PruneStaleRequests(t, g)
      BY <2>2
    <3>2. /\ Pruned(hard[t], g) \in {hard[t], NoClaims}
          /\ Pruned(soft[t], g) \in {soft[t], NoClaims}
      BY PrunedWhole DEF Types, TypeOK, LineInv, WholeLines
    <3> QED BY <1>1, <3>1, <3>2 DEF PruneStaleRequests, LineStep
  <2>3. CASE \E g \in Generations : \E S \in Stages, s \in Settings : RequestStage(t, S, g, s)
    <3>1. PICK g \in Generations, S \in Stages, s \in Settings : RequestStage(t, S, g, s)
      BY <2>3
    <3>2. LineStep(t) /\ HandOver(Relinquished(t))
      BY <3>1, RequestIsLineStep DEF LineInv, RequestStage
    <3> QED BY <1>1, <3>2
  <2> QED BY <1>3, <2>1, <2>2, <2>3 DEF Ask
<1>4. ASSUME NEW t \in Trains, Withdraw(t) PROVE Goal
  <2>1. LineStep(t)
    BY <1>4 DEF Withdraw, CancelHard, CancelSoft, CancelTrain, RemoveTrain, Forget, LineStep
  <2>2. HandOver(Relinquished(t)) \/ HandOver(Relinquished(t) \cup OwnedBy(t))
    BY <1>4 DEF Withdraw, CancelHard, CancelSoft, CancelTrain, RemoveTrain
  <2> QED BY <1>1, <2>1, <2>2
<1>5. ASSUME NEW t \in Trains, YieldUnenteredStage(t) \/ RollbackFalseEntryStage(t) PROVE Goal
  <2>1. PICK S \in Cohorts(t) : HandOver(S) /\ UNCHANGED <<queues, nextTicket>>
    BY <1>5 DEF YieldUnenteredStage, RollbackFalseEntryStage
  <2>2. Relinquished(t) = {}
    BY <2>1 DEF Relinquished, queues
  <2>3. S \in SUBSET Zones /\ GivesUp(t, S)
    BY <2>1, <2>2 DEF GivesUp, Cohorts, Cohort, OwnedBy
  <2>4. Queue(t, hard[t], soft[t])
    BY <2>1 DEF Queue, queues, Types, TypeOK
  <2>5. LineStep(t)
    BY <2>1, <2>4 DEF LineStep
  <2> QED BY <2>3, <2>5
<1>6. ASSUME NEW t \in Trains, MarkOccupiedStage(t) PROVE Goal
  <2>1. PICK S \in Cohorts(t) : (\A z \in S : phase[z] = "SETTLED") /\ Become(S, "OCCUPIED")
    BY <1>6 DEF MarkOccupiedStage
  <2> QED BY <2>1 DEF Become, Unclosed
<1>7. ASSUME NEW z \in Zones, Set(z) PROVE Goal
  BY <1>7 DEF Set, MarkSetting, RetrySetting, MarkSettled, Become, Unclosed, Unentered
<1>8. ASSUME Elapse PROVE Goal
  BY <1>8 DEF Elapse, Unclosed
<1>9. ASSUME NEW t \in Trains, RegisterTrain(t) PROVE Goal
  BY <1>2, <1>9 DEF RegisterTrain
<1> QED BY <1>3, <1>4, <1>5, <1>6, <1>7, <1>8, <1>9 DEF Next, Run

LEMMA LinesStay ==
  ASSUME QInv, QInv', UNCHANGED <<queues, nextTicket>>, NEW z \in Zones
  PROVE  LineAt(z)' = LineAt(z)
<1>1. LineAt(z) = LineUp(WaitingAt(z), AgeAt(z)) /\ (LineAt(z) = LineUp(WaitingAt(z), AgeAt(z)))'
  <2>1. ByAge /\ ByAge'
    BY LinesOrdered, PTL
  <2> QED BY <2>1 DEF ByAge
<1>2. WaitingAt(z)' = WaitingAt(z)
  BY DEF WaitingAt, queues
<1>3. AgeAt(z)' = AgeAt(z)
  BY <1>2 DEF AgeAt, TicketAt, Age, queues
<1> QED BY <1>1, <1>2, <1>3

LEMMA QueueStep == QInv /\ [Next]_vars => QInv'
<1> SUFFICES ASSUME QInv, [Next]_vars PROVE QInv'
  OBVIOUS
<1>1. IInv'
  BY StepPreserves DEF QInv
<1>2. ASSUME UNCHANGED <<queues, nextTicket>> PROVE Young'
  BY <1>2 DEF queues, QInv, Young, Held, Age
<1>3. CASE Next
  <2>1. ASSUME NEW t \in Trains, LineStep(t) \/ TryGrantStage(t) PROVE Young'
    BY <2>1, LineStepMoves, GrantMoves, MovesKeepYoung DEF QInv, IInv
  <2>2. ASSUME Tick \/ \E t \in Trains : MarkTailClearStage(t) PROVE Young'
    BY <1>2, <2>2 DEF Tick, MarkTailClearStage, Become
  <2> QED BY <1>1, <1>2, <1>3, <2>1, <2>2, LinesAndControl DEF QInv
<1>4. CASE UNCHANGED vars
  BY <1>1, <1>2, <1>4 DEF vars, QInv
<1> QED BY <1>3, <1>4

-----------------------------------------------------------------------------
(* The refinement.                                                         *)

\* The line, the holder and the closing of a zone, as TurnoutQueues sees them.
Lines  == [z \in Zones |-> LineAt(z)]
Closed == [z \in Zones |-> phase[z] = "RELEASE_DELAY"]

InFront(z, t) ==
  /\ owner[z] = NoTrain /\ ~Closed[z]
  /\ Lines[z] # <<>> /\ Head(Lines[z]) = t

\* The train the code takes for the head of a line is the front of the line.
LEMMA HeadIsFront ==
  ASSUME QInv, NEW z \in Zones, NEW t \in Trains
  PROVE  InFront(z, t) <=> \E c \in Held(t, z) : IsHead(z, c)
<1> DEFINE W == WaitingAt(z)
           K == AgeAt(z)
           s == LineAt(z)
<1>1. Keyed(W, K) /\ InOrder(s, W, K)
  <2>1. Keyed(W, K) /\ s = LineUp(W, K)
    BY LinesOrdered DEF ByAge
  <2> QED BY <2>1, LineUpInOrder
<1>2. \A u \in Trains : /\ u \in W <=> Held(u, z) # {}
                        /\ \A c \in Held(u, z) : Held(u, z) = {c} /\ K[u] = Age(c.ticket)
  BY WaitsWith DEF OneClaim
<1>3. W \subseteq Trains
  BY DEF WaitingAt
<1>4. nextTicket \in Tickets /\ Types
  BY DEF QInv, IInv, Types, TypeOK
<1>5. \A u \in Trains : \A c \in Held(u, z) :
        c.ticket \in Tickets /\ AgeUnder(nextTicket, c.ticket) \in 1 .. (TicketSpace \div 2)
        /\ Age(c.ticket) = AgeUnder(nextTicket, c.ticket)
  BY <1>4, ClaimHeld DEF QInv, Young, Age, AgeUnder
<1>6. ASSUME NEW c \in Held(t, z)
      PROVE  (\A w \in ClaimsOf(z) : ~Before(w.ticket, c.ticket)) <=> \A u \in W : K[u] <= K[t]
  <2>1. \A u \in Trains : \A w \in Held(u, z) :
          Before(w.ticket, c.ticket) <=> K[u] > K[t]
    BY <1>2, <1>4, <1>5, BeforeIsOlder
  <2>2. \A u \in W : K[u] \in Int /\ K[t] \in Int
    BY <1>1, <1>2, <1>6 DEF Keyed
  <2>3. ASSUME \A w \in ClaimsOf(z) : ~Before(w.ticket, c.ticket), NEW u \in W
        PROVE  K[u] <= K[t]
    <3>1. PICK w : w \in Held(u, z)
      BY <1>2, <1>3
    <3>2. w \in ClaimsOf(z)
      BY <1>3, <1>4, <3>1, ClaimHeld
    <3> QED BY <1>3, <2>1, <2>2, <2>3, <3>1, <3>2
  <2>4. ASSUME \A u \in W : K[u] <= K[t], NEW w \in ClaimsOf(z)
        PROVE  ~Before(w.ticket, c.ticket)
    <3>1. PICK u \in Trains : w \in Held(u, z)
      BY ClaimsOfHeld
    <3>2. u \in W
      BY <1>2, <3>1
    <3> QED BY <2>1, <2>2, <2>4, <3>1, <3>2
  <2> QED BY <2>3, <2>4
<1>7. ASSUME s # <<>>
      PROVE  Head(s) \in W /\ \A u \in W : K[u] <= K[Head(s)]
  <2>1. /\ s \in Seq(W) /\ Len(s) \in Nat /\ Head(s) = s[1] /\ 1 \in 1 .. Len(s)
    BY <1>1, <1>7, LenProperties, EmptySeq DEF InOrder
  <2>2. ASSUME NEW u \in W PROVE K[u] <= K[s[1]]
    <3>1. PICK i \in 1 .. Len(s) : s[i] = u
      BY <1>1 DEF InOrder
    <3>2. K[u] \in Int /\ K[s[1]] \in Int
      BY <1>1, <2>1, ElementOfSeq DEF Keyed
    <3>3. i = 1 \/ K[s[1]] > K[s[i]]
      <4>1. i = 1 \/ 1 < i
        BY <2>1
      <4>2. \A j \in 1 .. Len(s) : 1 < j => K[s[1]] > K[s[j]]
        BY <1>1, <2>1 DEF InOrder
      <4> QED BY <4>1, <4>2
    <3> QED BY <3>1, <3>2, <3>3
  <2> QED BY <2>1, <2>2, ElementOfSeq
<1>8. owner[z] = NoTrain => (phase[z] # "RELEASE_DELAY" <=> phase[z] = "FREE")
  BY DEF QInv, IInv, ZoneInv, ZoneStates, Types, TypeOK, Phases
<1> HIDE DEF W, K, s
<1>9. ASSUME InFront(z, t) PROVE \E c \in Held(t, z) : IsHead(z, c)
  <2>1. s # <<>> /\ Head(s) = t /\ owner[z] = NoTrain /\ phase[z] = "FREE"
    BY <1>8, <1>9 DEF InFront, Lines, Closed, s
  <2>2. t \in W /\ \A u \in W : K[u] <= K[t]
    BY <1>7, <2>1
  <2>3. PICK c : c \in Held(t, z)
    BY <1>2, <2>2
  <2> QED BY <1>6, <2>1, <2>2, <2>3 DEF IsHead
<1>10. ASSUME NEW c \in Held(t, z), IsHead(z, c) PROVE InFront(z, t)
  <2>1. t \in W /\ \A u \in W : K[u] <= K[t]
    BY <1>2, <1>6, <1>10 DEF IsHead
  <2>2. s # <<>> /\ Head(s) = t
    BY <1>1, <2>1, FrontOfLine
  <2> QED BY <2>2, <1>10 DEF IsHead, InFront, Lines, Closed, s
<1> QED BY <1>9, <1>10

\* Giving control up is leaving and joining lines.
LEMMA RequeueStep ==
  ASSUME QInv, QInv', NEW t \in Trains, LineStep(t), NEW S \in SUBSET Zones, GivesUp(t, S)
  PROVE  Queues!Requeue(t)
<1>1. Moves(t) /\ ZoneStates /\ t # NoTrain
  BY LineStepMoves, ZoneAssumption DEF QInv, IInv, ZoneInv
<1>2. /\ \A z \in Zones : owner'[z] = IF z \in S THEN NoTrain ELSE owner[z]
      /\ \A z \in Zones : Closed'[z] <=> (z \in S \/ Closed[z])
  BY DEF GivesUp, HandOver, Closed
<1>3. ASSUME NEW z \in S PROVE IF owner[z] = t THEN TRUE ELSE owner[z] = NoTrain /\ InFront(z, t)
  <2>1. z \in OwnedBy(t) \/ z \in Relinquished(t)
    BY DEF GivesUp
  <2>2. CASE z \in OwnedBy(t)
    BY <2>2 DEF OwnedBy
  <2>3. CASE z \in Relinquished(t)
    <3>1. \E c \in Held(t, z) : IsHead(z, c)
      BY <2>3 DEF Relinquished, Held
    <3>2. InFront(z, t)
      BY <3>1, HeadIsFront
    <3> QED BY <3>2 DEF InFront
  <2> QED BY <2>1, <2>2, <2>3
<1>4. ASSUME NEW z \in Zones
      PROVE  /\ Lines'[z] \in {Lines[z], Queues!Without(Lines[z], t),
                               Append(Queues!Without(Lines[z], t), t)}
             /\ InFront(z, t) /\ Lines'[z] # Lines[z] => z \in S
  <2>1. Lines[z] = LineAt(z) /\ Lines'[z] = LineAt(z)'
    BY DEF Lines
  <2>2. \/ Held(t, z)' = Held(t, z) /\ Lines'[z] = Lines[z]
        \/ /\ Held(t, z)' \cap Held(t, z) = {}
           /\ Lines'[z] \in {Queues!Without(Lines[z], t), Append(Queues!Without(Lines[z], t), t)}
    BY <1>1, <2>1, LineMoves
  <2>3. ASSUME InFront(z, t), Held(t, z)' \cap Held(t, z) = {} PROVE z \in S
    <3>1. PICK c \in Held(t, z) : IsHead(z, c)
      BY <2>3, HeadIsFront
    <3>2. ASSUME NEW e \in Held(t, z)' PROVE e.ticket # c.ticket
      <4>1. e.ticket = nextTicket
        BY <1>1, <2>3, <3>2 DEF Moves
      <4> QED BY <4>1 DEF QInv, IInv, LineInv, NextUnused
    <3>3. z \in Relinquished(t)
      BY <3>1, <3>2 DEF Relinquished, Held
    <3> QED BY <3>3 DEF GivesUp
  <2> QED BY <2>2, <2>3
<1>5. ASSUME NEW z \in Zones
      PROVE  /\ Lines'[z] \in {Lines[z], Queues!Without(Lines[z], t),
                               Append(Queues!Without(Lines[z], t), t)}
             /\ owner'[z] # owner[z] => owner[z] = t /\ owner'[z] = NoTrain
             /\ Closed[z] => Closed'[z]
             /\ owner'[z] # owner[z] \/ (InFront(z, t) /\ Lines'[z] # Lines[z]) => Closed'[z]
             /\ Closed'[z] /\ ~Closed[z] => owner'[z] # owner[z] \/ InFront(z, t)
  BY <1>1, <1>2, <1>3, <1>4
<1> QED BY <1>5 DEF Queues!Requeue, Queues!InFront, InFront, Lines, Closed

LEMMA TakeStep ==
  ASSUME QInv, QInv', NEW t \in Trains, TryGrantStage(t)
  PROVE  Queues!Take(t)
<1> DEFINE S == WantedZones(t)
<1>1. S \in SUBSET Zones /\ S # {} /\ t # NoTrain
  BY ZoneAssumption DEF TryGrantStage, WantedZones, ZonesOf
<1>2. /\ hard' = [hard EXCEPT ![t] = With(hard[t], S, NoClaim)]
      /\ owner' = [z \in Zones |-> IF z \in S THEN t ELSE owner[z]]
      /\ phase' = [z \in Zones |-> IF z \in S THEN "GRANTED" ELSE phase[z]]
      /\ soft' = soft
      /\ \A z \in S : IsHead(z, hard[t][z])
  BY DEF TryGrantStage
<1>3. \A z \in S : hard[t][z] # NoClaim /\ hard[t][z] \in Held(t, z)
  BY DEF WantedZones, ZonesOf, Held
<1>4. \A z \in Zones : hard'[t][z] = IF z \in S THEN NoClaim ELSE hard[t][z]
  BY <1>2 DEF With, QInv, IInv, Types, TypeOK
<1> HIDE DEF S
<1>5. Moves(t)
  BY GrantMoves DEF QInv, IInv
<1>6. \A z \in S : owner[z] = NoTrain /\ phase[z] = "FREE" /\ InFront(z, t)
  BY <1>1, <1>2, <1>3, HeadIsFront DEF IsHead
<1>7. \A z \in Zones : owner[z] # owner'[z] <=> z \in S
  BY <1>1, <1>2, <1>6
<1>8. Closed' = Closed
  BY <1>2, <1>6 DEF Closed
<1>9. ASSUME NEW z \in Zones \ S PROVE Lines'[z] = Lines[z]
  <2>1. Held(t, z)' = Held(t, z)
    BY <1>2, <1>4 DEF Held
  <2>2. CASE Held(t, z) = {}
    <3>1. LineAt(z)' = LineAt(z) \/ LineAt(z)' = Queues!Without(LineAt(z), t)
      BY <1>5, <2>1, <2>2, LineMoves
    <3>2. Queues!Without(LineAt(z), t) = LineAt(z)
      <4>1. Keyed(WaitingAt(z), AgeAt(z)) /\ LineAt(z) = LineUp(WaitingAt(z), AgeAt(z))
        BY LinesOrdered DEF ByAge
      <4>2. t \notin WaitingAt(z)
        BY <2>2, WaitsWith DEF OneClaim
      <4> QED BY <4>1, <4>2, LineUpInOrder, NobodyLeaves
    <3> QED BY <3>1, <3>2 DEF Lines
  <2>3. CASE Held(t, z) # {}
    <3>1. LineAt(z)' = LineAt(z)
      BY <1>5, <2>1, <2>3, LineMoves
    <3> QED BY <3>1 DEF Lines
  <2> QED BY <2>2, <2>3
<1>10. ASSUME NEW z \in S PROVE Lines'[z] = Tail(Lines[z])
  <2>1. z \in Zones
    BY <1>1
  <2>2. Held(t, z) = {hard[t][z]} /\ t \in WaitingAt(z)
    BY <1>3, <2>1, WaitsWith DEF OneClaim
  <2>3. soft[t][z] = NoClaim
    BY <1>3, <2>1 DEF QInv, IInv, LineInv, OneRole, ZonesOf
  <2>4. Held(t, z)' = {}
    BY <1>2, <1>4, <2>1, <2>3 DEF Held
  <2>5. LineAt(z)' = Queues!Without(LineAt(z), t)
    BY <1>5, <2>1, <2>2, <2>4, LineMoves
  <2>6. Keyed(WaitingAt(z), AgeAt(z)) /\ InOrder(LineAt(z), WaitingAt(z), AgeAt(z))
    BY <2>1, LinesOrdered, LineUpInOrder DEF ByAge
  <2>7. LineAt(z) # <<>> /\ Head(LineAt(z)) = t
    BY <1>6, <2>1 DEF InFront, Lines
  <2>8. Tail(LineAt(z)) = Queues!Without(LineAt(z), t)
    BY <2>2, <2>6, <2>7, HeadLeaves
  <2> QED BY <2>1, <2>5, <2>8 DEF Lines
<1>11. Lines' = [z \in Zones |-> IF z \in S THEN Tail(Lines[z]) ELSE Lines[z]]
  <2>1. Lines' = [z \in Zones |-> Lines'[z]]
    BY DEF Lines
  <2> QED BY <1>9, <1>10, <2>1
<1>12. Queues!Changed(owner, owner') = S
  BY <1>1, <1>7 DEF Queues!Changed
<1> QED BY <1>1, <1>2, <1>6, <1>8, <1>11, <1>12
        DEF Queues!Take, Queues!InFront, InFront, Lines, Closed

LEMMA ClearStep ==
  ASSUME QInv, QInv', NEW t \in Trains, MarkTailClearStage(t)
  PROVE  Queues!Clear(t)
<1>1. PICK S \in Cohorts(t) : (\A z \in S : phase[z] = "OCCUPIED") /\ Become(S, "RELEASE_DELAY")
  BY DEF MarkTailClearStage
<1>2. \A z \in S : z \in Zones /\ owner[z] = t
  BY DEF Cohorts, Cohort, OwnedBy
<1>3. UNCHANGED <<queues, nextTicket>> /\ owner' = owner
  BY <1>1 DEF Become
<1>4. Lines' = Lines
  <2>1. \A z \in Zones : LineAt(z)' = LineAt(z)
    BY <1>3, LinesStay
  <2> QED BY <2>1 DEF Lines
<1>5. \A z \in Zones : Closed[z] # Closed'[z] => owner[z] = t /\ Closed'[z]
  BY <1>1, <1>2 DEF Become, Closed
<1> QED BY <1>3, <1>4, <1>5 DEF Queues!Clear, Queues!Changed, Lines, Closed

LEMMA ReopenStep ==
  ASSUME QInv, QInv', Tick
  PROVE  Queues!Reopen
<1>1. Lines' = Lines
  <2>1. \A z \in Zones : LineAt(z)' = LineAt(z)
    BY LinesStay DEF Tick
  <2> QED BY <2>1 DEF Lines
<1>2. \A z \in Zones : Closed[z] # Closed'[z] <=> Expired(z)
  BY DEF Tick, Expired, Closed
<1>3. \A z \in Zones : Expired(z) => ~Closed'[z]
  BY DEF Tick, Closed
<1>4. Queues!Changed(Closed, Closed') = {z \in Zones : Expired(z)}
  BY <1>2 DEF Queues!Changed
<1>5. owner' = [z \in Zones |-> IF z \in {y \in Zones : Expired(y)} THEN NoTrain ELSE owner[z]]
  BY DEF Tick
<1> QED BY <1>1, <1>3, <1>4, <1>5 DEF Queues!Reopen, Lines, Closed

LEMMA OtherSteps ==
  ASSUME QInv, QInv', UNCHANGED <<queues, nextTicket, owner>>, Unclosed
  PROVE  UNCHANGED <<Lines, owner, Closed>>
<1>1. \A z \in Zones : LineAt(z)' = LineAt(z)
  BY LinesStay
<1> QED BY <1>1 DEF Lines, Closed, Unclosed

LEMMA InitQueues == Init => QInv /\ Queues!Init
<1> SUFFICES ASSUME Init PROVE QInv /\ Queues!Init
  OBVIOUS
<1>1. \A z \in Zones, t \in Trains : Held(t, z) = {}
  BY DEF Init, Held
<1>2. QInv
  BY <1>1, InitEstablishes DEF QInv, Young
<1>3. ASSUME NEW z \in Zones PROVE LineAt(z) = <<>>
  <2>1. WaitingAt(z) = {}
    BY DEF Init, WaitingAt
  <2>2. Keyed({}, AgeAt(z)) /\ LineAt(z) = LineUp({}, AgeAt(z))
    BY <1>2, <2>1, LinesOrdered DEF ByAge
  <2>3. LineAt(z) \in Seq({})
    BY <2>2, LineUpInOrder DEF InOrder
  <2>4. Len(LineAt(z)) = 0
    <3>1. 1 \in 1 .. Len(LineAt(z)) => LineAt(z)[1] \in {}
      BY <2>3, ElementOfSeq
    <3> QED BY <2>3, <3>1, LenProperties
  <2> QED BY <2>3, <2>4, EmptySeq
<1>4. Lines = [z \in Zones |-> <<>>] /\ Closed = [z \in Zones |-> FALSE]
  BY <1>3 DEF Lines, Closed, Init
<1> QED BY <1>2, <1>4 DEF Queues!Init, Init, Lines, Closed

LEMMA QueuesNext ==
  ASSUME QInv, QInv', [Next]_vars
  PROVE  Queues!Next \/ UNCHANGED <<Lines, owner, Closed>>
<1>1. CASE Next
  <2>1. ASSUME NEW t \in Trains, LineStep(t), NEW S \in SUBSET Zones, GivesUp(t, S)
        PROVE  Queues!Next
    BY <2>1, RequeueStep DEF Queues!Next
  <2>2. ASSUME NEW t \in Trains, TryGrantStage(t) \/ MarkTailClearStage(t)
        PROVE  Queues!Next
    BY <2>2, TakeStep, ClearStep DEF Queues!Next
  <2>3. ASSUME Tick PROVE Queues!Next
    BY <2>3, ReopenStep DEF Queues!Next
  <2> QED BY <1>1, <2>1, <2>2, <2>3, LinesAndControl, OtherSteps DEF QInv
<1>2. CASE UNCHANGED vars
  BY <1>2, OtherSteps DEF vars, zones, Unclosed
<1> QED BY <1>1, <1>2

\* Whatever is asked, cancelled, pruned or promoted, every zone serves trains
\* in the order in which they came to it, also when the tickets wrap, lets in
\* only the front train, for all zones of its stage at once, and goes from
\* one train to the next only through the release delay.
THEOREM ZonesAreQueues == Spec => ImplementsQueues
<1>1. QInv /\ [Next]_vars => QInv'
  BY QueueStep
<1>2. Init => QInv /\ Queues!Init
  BY InitQueues
<1>3. QInv /\ QInv' /\ [Next]_vars =>
        [Queues!Next]_<<[z \in Zones |-> LineAt(z)], owner,
                        [z \in Zones |-> phase[z] = "RELEASE_DELAY"]>>
  BY QueuesNext DEF Lines, Closed
<1> QED BY <1>1, <1>2, <1>3, PTL DEF Spec, ImplementsQueues, Queues!Spec

-----------------------------------------------------------------------------
(* The table that rests.  What its steps do to the state of a zone and to  *)
(* the clock.                                                              *)

\* How long each zone that rests has rested, and has to.
Resting ==
  /\ tlag \in 0 .. LateBy
  /\ \A z \in RestZones : treleaseIn[z] \in 0 .. RestDelay /\ quiet[z] \in 0 .. RestDelay
  /\ \A z \in RestZones :
       tphase[z] = "RELEASE_DELAY" => quiet[z] + treleaseIn[z] + LateBy >= RestDelay

\* A zone is left alone, closed, taken, or opened when its rest is over.
ZoneMoves(z) ==
  \/ tphase'[z] = tphase[z] /\ treleaseIn'[z] = treleaseIn[z]
  \/ tphase'[z] = "RELEASE_DELAY" /\ treleaseIn'[z] \in RestDelay - tlag .. RestDelay
  \/ tphase'[z] \notin {"RELEASE_DELAY", "FREE"} /\ treleaseIn'[z] \in {0, treleaseIn[z]}
  \/ treleaseIn[z] = 0 /\ tphase'[z] = "FREE" /\ treleaseIn'[z] = 0

LEMMA HandsOver ==
  ASSUME Resting, NEW S, Rests!HandOver(S), NEW z \in RestZones
  PROVE  ZoneMoves(z)
<1>1. /\ tphase'[z] = IF z \in S THEN "RELEASE_DELAY" ELSE tphase[z]
      /\ treleaseIn'[z] = IF z \in S THEN RestDelay - tlag ELSE treleaseIn[z]
  BY DEF Rests!HandOver
<1>2. RestDelay - tlag \in RestDelay - tlag .. RestDelay
  BY RestAssumption DEF Resting
<1> QED BY <1>1, <1>2 DEF ZoneMoves

LEMMA Becomes ==
  ASSUME NEW S, NEW p \in {"GRANTED", "SETTING", "SETTLED", "OCCUPIED"},
         Rests!Become(S, p), UNCHANGED treleaseIn, NEW z \in RestZones
  PROVE  ZoneMoves(z) /\ tlag' = tlag
BY DEF Rests!Become, ZoneMoves

LEMMA ZonesMove ==
  ASSUME Resting, Rests!Next
  PROVE  \/ Rests!Elapse
         \/ tlag' \in {0, tlag} /\ \A z \in RestZones : ZoneMoves(z)
<1>1. ASSUME NEW t \in RestTrains, Rests!Ask(t)
      PROVE  tlag' = tlag /\ \A z \in RestZones : ZoneMoves(z)
  <2>1. ASSUME NEW g, Rests!StaleRequest(t, g)
        PROVE  tlag' = tlag /\ \A z \in RestZones : ZoneMoves(z)
    BY <2>1 DEF Rests!StaleRequest, Rests!zones, ZoneMoves
  <2>2. ASSUME NEW g, Rests!PruneStaleRequests(t, g)
        PROVE  tlag' = tlag /\ \A z \in RestZones : ZoneMoves(z)
    BY <2>2, HandsOver DEF Rests!PruneStaleRequests
  <2>3. ASSUME NEW g, NEW S, NEW s, Rests!RequestStage(t, S, g, s)
        PROVE  tlag' = tlag /\ \A z \in RestZones : ZoneMoves(z)
    BY <2>3, HandsOver DEF Rests!RequestStage
  <2> QED BY <1>1, <2>1, <2>2, <2>3 DEF Rests!Ask
<1>2. ASSUME NEW t \in RestTrains, Rests!Withdraw(t)
      PROVE  tlag' = tlag /\ \A z \in RestZones : ZoneMoves(z)
  BY <1>2, HandsOver
     DEF Rests!Withdraw, Rests!CancelHard, Rests!CancelSoft, Rests!CancelTrain, Rests!RemoveTrain,
         Rests!Forget
<1>3. ASSUME NEW t \in RestTrains, Rests!Run(t)
      PROVE  tlag' = tlag /\ \A z \in RestZones : ZoneMoves(z)
  <2>1. CASE Rests!MarkOccupiedStage(t)
    <3>1. PICK S \in Rests!Cohorts(t) : Rests!Become(S, "OCCUPIED") /\ UNCHANGED treleaseIn
      BY <2>1 DEF Rests!MarkOccupiedStage
    <3> QED BY <3>1 DEF Rests!Become, ZoneMoves
  <2>2. CASE Rests!MarkTailClearStage(t)
    <3>1. PICK S \in Rests!Cohorts(t), late \in 0 .. tlag :
            /\ Rests!Become(S, "RELEASE_DELAY")
            /\ treleaseIn' = [z \in RestZones |-> IF z \in S THEN RestDelay - late ELSE treleaseIn[z]]
      BY <2>2 DEF Rests!MarkTailClearStage
    <3>2. RestDelay - late \in RestDelay - tlag .. RestDelay
      BY RestAssumption DEF Resting
    <3>3. tlag' = tlag
          /\ tphase' = [z \in RestZones |-> IF z \in S THEN "RELEASE_DELAY" ELSE tphase[z]]
      BY <3>1 DEF Rests!Become
    <3> QED BY <3>1, <3>2, <3>3 DEF ZoneMoves
  <2>3. CASE Rests!YieldUnenteredStage(t)
    BY <2>3, HandsOver DEF Rests!YieldUnenteredStage
  <2>4. CASE Rests!RollbackFalseEntryStage(t)
    BY <2>4, HandsOver DEF Rests!RollbackFalseEntryStage
  <2> QED BY <1>3, <2>1, <2>2, <2>3, <2>4 DEF Rests!Run
<1>4. ASSUME NEW t \in RestTrains, Rests!TryGrantStage(t)
      PROVE  tlag' = tlag /\ \A z \in RestZones : ZoneMoves(z)
  BY <1>4 DEF Rests!TryGrantStage, ZoneMoves
<1>5. ASSUME NEW t \in RestTrains, Rests!RegisterTrain(t)
      PROVE  tlag' = tlag /\ \A z \in RestZones : ZoneMoves(z)
  BY <1>5 DEF Rests!RegisterTrain, Rests!zones, ZoneMoves
<1>6. ASSUME NEW y \in RestZones, Rests!Set(y)
      PROVE  tlag' = tlag /\ \A z \in RestZones : ZoneMoves(z)
  BY <1>6, Becomes DEF Rests!Set, Rests!MarkSetting, Rests!RetrySetting, Rests!MarkSettled, Rests!Become
<1>7. ASSUME Rests!Tick
      PROVE  tlag' = 0 /\ \A z \in RestZones : ZoneMoves(z)
  BY <1>7 DEF Rests!Tick, Rests!Expired, ZoneMoves
<1> QED BY <1>1, <1>2, <1>3, <1>4, <1>5, <1>6, <1>7 DEF Rests!Next

\* A zone that is closed has its whole rest before it, but for the ticks the
\* scheduler was late; and every tick takes from both what is left of it and
\* what it still lacks.
LEMMA RestGoesOn ==
  ASSUME Resting, RestNext
  PROVE  /\ Resting'
         /\ \A z \in RestZones : tphase[z] = "RELEASE_DELAY" /\ tphase'[z] = "FREE" =>
              quiet[z] + LateBy >= RestDelay
<1> USE RestAssumption
<1>1. Rests!Next /\ \A z \in RestZones : quiet'[z] =
        IF Closes(z) THEN 0 ELSE IF tlag' > tlag /\ quiet[z] < RestDelay THEN quiet[z] + 1 ELSE quiet[z]
  BY DEF RestNext
<1>2. CASE Rests!Elapse
  <2>1. tlag < LateBy /\ tlag' = tlag + 1 /\ tphase' = tphase
        /\ \A z \in RestZones : treleaseIn'[z] = IF treleaseIn[z] > 0 THEN treleaseIn[z] - 1 ELSE 0
    BY <1>2 DEF Rests!Elapse
  <2>2. \A z \in RestZones : ~Closes(z)
    BY <2>1 DEF Closes, Resting
  <2>3. \A z \in RestZones : quiet'[z] = IF quiet[z] < RestDelay THEN quiet[z] + 1 ELSE quiet[z]
    BY <1>1, <2>1, <2>2 DEF Resting
  <2> QED BY <2>1, <2>3 DEF Resting
<1>3. CASE tlag' \in {0, tlag} /\ \A z \in RestZones : ZoneMoves(z)
  <2>1. tlag' \in 0 .. LateBy /\ ~(tlag' > tlag)
    BY <1>3 DEF Resting
  <2>2. \A z \in RestZones : quiet'[z] = IF Closes(z) THEN 0 ELSE quiet[z]
    BY <1>1, <2>1
  <2>3. ASSUME NEW z \in RestZones
        PROVE  /\ treleaseIn'[z] \in 0 .. RestDelay /\ quiet'[z] \in 0 .. RestDelay
               /\ tphase'[z] = "RELEASE_DELAY" => quiet'[z] + treleaseIn'[z] + LateBy >= RestDelay
               /\ tphase[z] = "RELEASE_DELAY" /\ tphase'[z] = "FREE" => quiet[z] + LateBy >= RestDelay
    <3>1. ZoneMoves(z) /\ quiet'[z] = IF Closes(z) THEN 0 ELSE quiet[z]
      BY <1>3, <2>2
    <3>2. /\ treleaseIn[z] \in 0 .. RestDelay /\ quiet[z] \in 0 .. RestDelay /\ tlag \in 0 .. LateBy
          /\ tphase[z] = "RELEASE_DELAY" => quiet[z] + treleaseIn[z] + LateBy >= RestDelay
      BY DEF Resting
    <3>3. CASE tphase'[z] = tphase[z] /\ treleaseIn'[z] = treleaseIn[z]
      BY <3>1, <3>2, <3>3 DEF Closes
    <3>4. CASE tphase'[z] = "RELEASE_DELAY" /\ treleaseIn'[z] \in RestDelay - tlag .. RestDelay
      BY <3>1, <3>2, <3>4 DEF Closes
    <3>5. CASE tphase'[z] \notin {"RELEASE_DELAY", "FREE"} /\ treleaseIn'[z] \in {0, treleaseIn[z]}
      BY <3>1, <3>2, <3>5 DEF Closes
    <3>6. CASE treleaseIn[z] = 0 /\ tphase'[z] = "FREE" /\ treleaseIn'[z] = 0
      BY <3>1, <3>2, <3>6 DEF Closes
    <3> QED BY <3>1, <3>3, <3>4, <3>5, <3>6 DEF ZoneMoves
  <2> QED BY <2>1, <2>3 DEF Resting
<1> QED BY <1>1, <1>2, <1>3, ZonesMove

\* However late the scheduler is and whenever a zone is given up, yielded or
\* taken back, it opens only when it has rested, short of that lateness.
THEOREM ZonesRest == RestSpec => DelayKept
<1>1. RestInit => Resting
  BY RestAssumption DEF RestInit, Rests!Init, Resting
<1>2. Resting /\ [RestNext]_rests => Resting'
  <2>1. ASSUME Resting, UNCHANGED rests PROVE Resting'
    BY <2>1 DEF Resting, rests
  <2> QED BY <2>1, RestGoesOn
<1>3. Resting /\ [RestNext]_rests =>
        [\A z \in RestZones : tphase[z] = "RELEASE_DELAY" /\ tphase'[z] = "FREE" =>
           quiet[z] + LateBy >= RestDelay]_rests
  BY RestGoesOn
<1> QED BY <1>1, <1>2, <1>3, PTL DEF RestSpec, DelayKept
-----------------------------------------------------------------------------
(* Its routes.                                                             *)

HandedOut == {Succession[i] : i \in DOMAIN Succession}

LEMMA RankOf ==
  ASSUME NEW g \in HandedOut
  PROVE  Rank(g) \in DOMAIN Succession /\ Succession[Rank(g)] = g
<1>1. \E i \in DOMAIN Succession : Succession[i] = g
  BY DEF HandedOut
<1> QED BY <1>1 DEF Rank

\* Of two generations one at most is newer than the other, also when they wrap.
LEMMA NewerOneWay ==
  ASSUME NEW g \in 0 .. GenerationSpace - 1, NEW h \in 0 .. GenerationSpace - 1, Newer(g, h)
  PROVE  ~Newer(h, g)
<1>1. GenerationSpace \in Nat /\ GenerationSpace >= 4
  BY ZoneAssumption
<1>2. CASE h = 0
  BY <1>2 DEF Newer
<1>3. CASE h # 0
  <2>1. g # 0 /\ (g - h) % GenerationSpace \in 1 .. (GenerationSpace \div 2 - 1)
    BY <1>3 DEF Newer
  <2>2. /\ (g - h) % GenerationSpace = IF g >= h THEN g - h ELSE g - h + GenerationSpace
        /\ (h - g) % GenerationSpace = IF h >= g THEN h - g ELSE h - g + GenerationSpace
    BY <1>1
  <2>3. 2 * (GenerationSpace \div 2) <= GenerationSpace
    BY <1>1
  <2>4. (h - g) % GenerationSpace \notin 1 .. (GenerationSpace \div 2 - 1)
    BY <1>1, <2>1, <2>2, <2>3
  <2> QED BY <2>1, <2>4 DEF Newer
<1> QED BY <1>2, <1>3

LEMMA NewerRanksHigher ==
  ASSUME NEW g \in HandedOut, NEW h \in HandedOut, g = h \/ Newer(g, h)
  PROVE  Rank(g) >= Rank(h)
<1>1. /\ Rank(g) \in DOMAIN Succession /\ Succession[Rank(g)] = g
      /\ Rank(h) \in DOMAIN Succession /\ Succession[Rank(h)] = h
  BY RankOf
<1>2. DOMAIN Succession \subseteq Nat /\ g \in 0 .. GenerationSpace - 1 /\ h \in 0 .. GenerationSpace - 1
  <2>1. Succession \in Seq(0 .. GenerationSpace - 1)
    BY RestAssumption
  <2>2. /\ DOMAIN Succession = 1 .. Len(Succession) /\ Len(Succession) \in Nat
        /\ Succession \in [1 .. Len(Succession) -> 0 .. GenerationSpace - 1]
    BY <2>1, LenProperties
  <2>3. \A i \in DOMAIN Succession : i \in Nat
    BY <2>2
  <2>4. \A i \in DOMAIN Succession : Succession[i] \in 0 .. GenerationSpace - 1
    BY <2>2, Zenon
  <2> QED BY <1>1, <2>3, <2>4
<1>3. CASE g = h
  BY <1>1, <1>2, <1>3
<1>4. CASE Newer(g, h)
  <2>1. ~Newer(h, g)
    BY <1>2, <1>4, NewerOneWay
  <2>2. ~(Rank(g) < Rank(h))
    BY <1>1, <2>1, RestAssumption
  <2> QED BY <1>1, <1>2, <2>2
<1> QED BY <1>3, <1>4

\* The claims in a queue are of this generation.
OnlyOf(claims, g) == \A z \in RestZones : claims[z] # NoClaim => claims[z].generation = g

Routes ==
  /\ thard = [t \in RestTrains |-> thard[t]] /\ tsoft = [t \in RestTrains |-> tsoft[t]]
  /\ tlatest \in [RestTrains -> HandedOut]
  /\ \A t \in RestTrains : OnlyOf(thard[t], tlatest[t]) /\ OnlyOf(tsoft[t], tlatest[t])

\* What one train's queues and its latest route may become.
RoutesMove(t) ==
  \E h, q : \E g \in HandedOut :
    /\ thard' = [thard EXCEPT ![t] = h] /\ tsoft' = [tsoft EXCEPT ![t] = q]
    /\ tlatest' = [tlatest EXCEPT ![t] = g]
    /\ g = tlatest[t] \/ Newer(g, tlatest[t])
    /\ OnlyOf(h, g) /\ OnlyOf(q, g)

LEMMA PrunedAll ==
  ASSUME NEW claims, NEW g
  PROVE  OnlyOf(Rests!Pruned(claims, g), g)
BY DEF OnlyOf, Rests!Pruned

LEMMA WithAll ==
  ASSUME NEW claims, NEW g, NEW S, NEW s, OnlyOf(claims, g)
  PROVE  OnlyOf(Rests!With(claims, S, Rests!NewClaim(g, s)), g)
BY DEF OnlyOf, Rests!With, Rests!NewClaim

LEMMA NoneAll ==
  ASSUME NEW g
  PROVE  OnlyOf(Rests!NoClaims, g)
BY DEF OnlyOf, Rests!NoClaims

LEMMA NewerAlike ==
  ASSUME NEW g, NEW h
  PROVE  Rests!Newer(g, h) <=> Newer(g, h)
BY DEF Rests!Newer, Newer

LEMMA Requested ==
  ASSUME Routes, NEW t \in RestTrains, NEW S, NEW g \in HandedOut, NEW s, Rests!RequestStage(t, S, g, s)
  PROVE  RoutesMove(t)
<1> DEFINE h == Rests!Pruned(thard[t], g)
           q == Rests!Pruned(tsoft[t], g)
<1>1. OnlyOf(h, g) /\ OnlyOf(q, g)
  BY PrunedAll
<1>2. /\ g = tlatest[t] \/ Newer(g, tlatest[t])
      /\ tlatest' = [tlatest EXCEPT ![t] = g]
      /\ Rests!QueueHard(t, S, g, s, h, q) \/ Rests!QueueSoft(t, S, g, s, h, q)
  BY NewerAlike DEF Rests!RequestStage, Rests!Current
<1> HIDE DEF h, q
<1>3. OnlyOf(Rests!With(h, S, Rests!NewClaim(g, s)), g) /\ OnlyOf(Rests!NoClaims, g)
  BY <1>1, WithAll, NoneAll
<1>4. OnlyOf(Rests!With(Rests!NoClaims, S, Rests!NewClaim(g, s)), g)
  BY <1>3, WithAll
<1>5. \E a, b : OnlyOf(a, g) /\ OnlyOf(b, g) /\ Rests!Queue(t, a, b)
  <2>1. CASE Rests!QueueHard(t, S, g, s, h, q)
    BY <1>1, <1>3, <2>1 DEF Rests!QueueHard
  <2>2. CASE Rests!QueueSoft(t, S, g, s, h, q)
    BY <1>1, <1>4, <2>2 DEF Rests!QueueSoft
  <2> QED BY <1>2, <2>1, <2>2
<1> QED BY <1>2, <1>5 DEF RoutesMove, Rests!Queue

LEMMA RoutesMoved ==
  ASSUME Routes, Rests!Next
  PROVE  UNCHANGED <<thard, tsoft, tlatest>> \/ \E t \in RestTrains : RoutesMove(t)
<1>1. ASSUME NEW t \in RestTrains, Rests!Ask(t)
      PROVE  UNCHANGED <<thard, tsoft, tlatest>> \/ RoutesMove(t)
  <2>1. PICK g \in HandedOut : \/ Rests!StaleRequest(t, g)
                               \/ Rests!PruneStaleRequests(t, g)
                               \/ \E S \in RestStages, s \in Settings : Rests!RequestStage(t, S, g, s)
    BY <1>1 DEF Rests!Ask, HandedOut
  <2>2. CASE Rests!StaleRequest(t, g)
    BY <2>2 DEF Rests!StaleRequest, Rests!queues
  <2>3. CASE Rests!PruneStaleRequests(t, g)
    BY <2>3, PrunedAll, NewerAlike
       DEF Rests!PruneStaleRequests, Rests!Queue, Rests!Current, RoutesMove
  <2> QED BY <2>1, <2>2, <2>3, Requested
<1>2. ASSUME NEW t \in RestTrains, Rests!Withdraw(t)
      PROVE  RoutesMove(t)
  <2>1. /\ OnlyOf(thard[t], tlatest[t]) /\ OnlyOf(tsoft[t], tlatest[t])
        /\ OnlyOf(Rests!NoClaims, tlatest[t]) /\ tlatest[t] \in HandedOut
    BY NoneAll DEF Routes
  <2>2. ASSUME NEW h, NEW q, OnlyOf(h, tlatest[t]), OnlyOf(q, tlatest[t]), Rests!Forget(t, h, q)
        PROVE  RoutesMove(t)
    <3>1. tlatest' = [tlatest EXCEPT ![t] = tlatest[t]]
      BY <2>2 DEF Rests!Forget, Routes
    <3> QED BY <2>1, <2>2, <3>1 DEF Rests!Forget, Rests!Queue, RoutesMove
  <2> QED BY <1>2, <2>1, <2>2
          DEF Rests!Withdraw, Rests!CancelHard, Rests!CancelSoft, Rests!CancelTrain, Rests!RemoveTrain
<1>3. ASSUME NEW t \in RestTrains, Rests!Run(t)
      PROVE  UNCHANGED <<thard, tsoft, tlatest>>
  BY <1>3 DEF Rests!Run, Rests!MarkOccupiedStage, Rests!MarkTailClearStage, Rests!YieldUnenteredStage,
              Rests!RollbackFalseEntryStage, Rests!Become, Rests!queues
<1>4. ASSUME NEW t \in RestTrains, Rests!TryGrantStage(t)
      PROVE  RoutesMove(t)
  <2>1. OnlyOf(thard[t], tlatest[t]) /\ OnlyOf(tsoft[t], tlatest[t]) /\ tlatest[t] \in HandedOut
    BY DEF Routes
  <2>2. PICK S : thard' = [thard EXCEPT ![t] = Rests!With(thard[t], S, NoClaim)]
                 /\ UNCHANGED <<tsoft, tlatest>>
    BY <1>4 DEF Rests!TryGrantStage
  <2>3. OnlyOf(Rests!With(thard[t], S, NoClaim), tlatest[t])
    BY <2>1 DEF OnlyOf, Rests!With
  <2>4. tlatest' = [tlatest EXCEPT ![t] = tlatest[t]] /\ tsoft' = [tsoft EXCEPT ![t] = tsoft[t]]
    BY <2>2 DEF Routes
  <2> QED BY <2>1, <2>2, <2>3, <2>4 DEF RoutesMove
<1>5. ASSUME NEW t \in RestTrains, Rests!RegisterTrain(t)
      PROVE  UNCHANGED <<thard, tsoft, tlatest>>
  BY <1>5 DEF Rests!RegisterTrain, Rests!queues
<1>6. ASSUME NEW y \in RestZones, Rests!Set(y)
      PROVE  UNCHANGED <<thard, tsoft, tlatest>>
  BY <1>6 DEF Rests!Set, Rests!MarkSetting, Rests!RetrySetting, Rests!MarkSettled, Rests!Become, Rests!queues
<1>7. ASSUME Rests!Elapse \/ Rests!Tick
      PROVE  UNCHANGED <<thard, tsoft, tlatest>>
  BY <1>7 DEF Rests!Elapse, Rests!Tick, Rests!queues
<1> QED BY <1>1, <1>2, <1>3, <1>4, <1>5, <1>6, <1>7 DEF Rests!Next

LEMMA RoutesKept ==
  ASSUME Routes, Rests!Next \/ UNCHANGED rests
  PROVE  Routes' /\ \A t \in RestTrains : Rank(tlatest'[t]) >= Rank(tlatest[t])
<1>1. CASE UNCHANGED <<thard, tsoft, tlatest>>
  <2>1. Routes'
    BY <1>1 DEF Routes, OnlyOf
  <2>2. \A t \in RestTrains : tlatest[t] \in HandedOut
    BY DEF Routes
  <2> QED BY <1>1, <2>1, <2>2, NewerRanksHigher
<1>2. ASSUME NEW t \in RestTrains, RoutesMove(t)
      PROVE  Routes' /\ \A u \in RestTrains : Rank(tlatest'[u]) >= Rank(tlatest[u])
  <2>1. PICK h, q : \E g \in HandedOut :
          /\ thard' = [thard EXCEPT ![t] = h] /\ tsoft' = [tsoft EXCEPT ![t] = q]
          /\ tlatest' = [tlatest EXCEPT ![t] = g]
          /\ g = tlatest[t] \/ Newer(g, tlatest[t])
          /\ OnlyOf(h, g) /\ OnlyOf(q, g)
    BY <1>2 DEF RoutesMove
  <2>2. PICK g \in HandedOut :
          /\ thard' = [thard EXCEPT ![t] = h] /\ tsoft' = [tsoft EXCEPT ![t] = q]
          /\ tlatest' = [tlatest EXCEPT ![t] = g]
          /\ g = tlatest[t] \/ Newer(g, tlatest[t])
          /\ OnlyOf(h, g) /\ OnlyOf(q, g)
    BY <2>1
  <2>3. tlatest' \in [RestTrains -> HandedOut]
    BY <2>2 DEF Routes
  <2>4. thard' = [u \in RestTrains |-> IF u = t THEN h ELSE thard[u]]
        /\ tsoft' = [u \in RestTrains |-> IF u = t THEN q ELSE tsoft[u]]
        /\ \A u \in RestTrains : tlatest'[u] = IF u = t THEN g ELSE tlatest[u]
    BY <2>2 DEF Routes
  <2>5. thard' = [u \in RestTrains |-> thard'[u]] /\ tsoft' = [u \in RestTrains |-> tsoft'[u]]
    BY <2>4
  <2>6. \A u \in RestTrains : OnlyOf(thard'[u], tlatest'[u]) /\ OnlyOf(tsoft'[u], tlatest'[u])
    BY <2>2, <2>4 DEF Routes
  <2>7. Routes'
    <3> HIDE DEF Rests!Next
    <3> QED BY <2>3, <2>5, <2>6 DEF Routes, OnlyOf
  <2>8. \A u \in RestTrains : tlatest[u] \in HandedOut
    BY DEF Routes
  <2>9. ASSUME NEW u \in RestTrains PROVE Rank(tlatest'[u]) >= Rank(tlatest[u])
    BY <2>2, <2>4, <2>8, NewerRanksHigher
  <2> QED BY <2>7, <2>9
<1>3. CASE UNCHANGED rests
  BY <1>1, <1>3 DEF rests
<1> QED BY <1>1, <1>2, <1>3, RoutesMoved

\* Whatever is asked for, pruned, promoted and withdrawn, no claim of a route
\* outlives it, and the generations a train's requests are measured against
\* go on in the order in which they are handed out, also where they wrap.
THEOREM RoutesAreForgotten == RestSpec => RoutesForgotten
<1>1. RestInit => Routes
  <2> SUFFICES ASSUME RestInit PROVE Routes
    OBVIOUS
  <2>1. 0 \in HandedOut
    BY RestAssumption DEF HandedOut
  <2>2. thard = [t \in RestTrains |-> [z \in RestZones |-> NoClaim]] /\ tsoft = thard
        /\ tlatest = [t \in RestTrains |-> 0]
    BY DEF RestInit, Rests!Init
  <2> QED BY <2>1, <2>2 DEF Routes, OnlyOf
<1>2. Routes /\ [RestNext]_rests => Routes'
  BY RoutesKept DEF RestNext
<1>3. Routes /\ Routes' /\ [RestNext]_rests =>
        [/\ Rests!ClaimsCurrent'
         /\ \A t \in RestTrains : Rank(tlatest'[t]) >= Rank(tlatest[t])]_rests
  <2> SUFFICES ASSUME Routes, Routes', RestNext
               PROVE  /\ Rests!ClaimsCurrent'
                      /\ \A t \in RestTrains : Rank(tlatest'[t]) >= Rank(tlatest[t])
    OBVIOUS
  <2>1. Rests!ClaimsCurrent'
    <3> SUFFICES ASSUME NEW t \in RestTrains,
                        NEW c \in (UNION {{thard'[t][z], tsoft'[t][z]} : z \in RestZones}) \ {NoClaim}
                 PROVE  c.generation = tlatest'[t]
      BY DEF Rests!ClaimsCurrent
    <3>1. PICK z \in RestZones : c = thard'[t][z] \/ c = tsoft'[t][z]
      OBVIOUS
    <3>2. OnlyOf(thard'[t], tlatest'[t]) /\ OnlyOf(tsoft'[t], tlatest'[t])
      BY DEF Routes, OnlyOf
    <3> QED BY <3>1, <3>2 DEF OnlyOf
  <2>2. \A t \in RestTrains : Rank(tlatest'[t]) >= Rank(tlatest[t])
    BY RoutesKept DEF RestNext
  <2> QED BY <2>1, <2>2
<1> QED BY <1>1, <1>2, <1>3, PTL DEF RestSpec, RoutesForgotten
=============================================================================
