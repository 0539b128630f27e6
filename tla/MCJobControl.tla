---------------------------- MODULE MCJobControl ----------------------------
(***************************************************************************)
(* Instances of JobControl for TLC.  A batch token is only a name, so      *)
(* states that differ in nothing but the names of the tokens in use are    *)
(* told apart by none of the actions and invariants: View gives a token    *)
(* the place where it is first found.                                      *)
(***************************************************************************)
EXTENDS JobInvariants, Sequences

MCSlots  == 1 .. 2
MCTokens == 1 .. 5

Named ==
  [i \in 1 .. 2 * N |-> IF i <= N THEN job[i].launch ELSE job[i - N].estop]
    \o [i \in DOMAIN queue |-> queue[i].token] \o <<wire.frame.token>>

View ==
  LET named   == Named
      Place(b) == IF b = 0 THEN 0
                  ELSE CHOOSE i \in DOMAIN named :
                         named[i] = b /\ \A k \in 1 .. i - 1 : named[k] # b
  IN  << [s \in Slots |-> [job[s] EXCEPT !.launch = Place(@), !.estop = Place(@)]],
         [i \in DOMAIN queue |-> [queue[i] EXCEPT !.token = Place(@)]],
         [wire EXCEPT !.frame.token = Place(@)],
         [i \in DOMAIN named |-> IF named[i] = 0 THEN NoBatch ELSE batch[named[i]]],
         pc, call, lost, moving >>
=============================================================================
