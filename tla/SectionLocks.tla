---------------------------- MODULE SectionLocks ----------------------------
(***************************************************************************)
(* What track reservation promises the trains: a physical section of track *)
(* belongs to at most one train, a train's holding changes only as a whole,*)
(* and every change of plan is visible as a change of the holder's ticket. *)
(* A section is a set of nodes: a node and the node of the same piece of   *)
(* track seen in the other direction.                                      *)
(***************************************************************************)
CONSTANTS
  Trains,
  Nodes,
  SectionOf,     \* the section a node is part of
  Tickets        \* the identities a plan can have

VARIABLES
  held,    \* nodes held by each train, whole sections at a time
  ticket   \* identity of each train's current plan

Whole(S) == \A n \in S : SectionOf[n] \subseteq S

Init ==
  /\ held = [t \in Trains |-> {}]
  /\ ticket \in [Trains -> Tickets]

\* Every other train keeps what it holds and its plan.
OnlyFor(t) ==
  \A u \in Trains \ {t} : held'[u] = held[u] /\ ticket'[u] = ticket[u]

\* A train takes a set of sections, giving up the others it held.
Take(t, S) ==
  /\ Whole(S)
  /\ \A u \in Trains \ {t} : held[u] \cap S = {}
  /\ held' = [held EXCEPT ![t] = S]
  /\ OnlyFor(t)
  /\ ticket' \in [Trains -> Tickets]

\* A train gives up everything, and with it its plan.
GiveUp(t) ==
  /\ held' = [held EXCEPT ![t] = {}]
  /\ OnlyFor(t)
  /\ ticket' \in [Trains -> Tickets]
  /\ held[t] # {} => ticket'[t] # ticket[t]

Next == \E t \in Trains : GiveUp(t) \/ \E S \in (SUBSET Nodes) \ {{}} : Take(t, S)

Spec == Init /\ [][Next]_<<held, ticket>>
=============================================================================
