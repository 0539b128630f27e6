---------------------------- MODULE Rendezvous ----------------------------
(***************************************************************************)
(* What Send / Receive / Reply / Exit promise to the tasks that call them, *)
(* in terms of task identifiers only: no descriptors, no priorities, no    *)
(* lists.  A call is a transaction with the one task it named; that task   *)
(* takes its calls in the order they were made, and every call ends either *)
(* by its answer or by its departure.  Tids are never used twice.          *)
(***************************************************************************)
EXTENDS Integers, Sequences

CONSTANT Tids          \* an initial segment of the positive integers

VARIABLES
  born,      \* tids handed out so far
  alive,     \* tids of the tasks that exist
  leaving,   \* tasks that have called Exit and are not gone yet
  phase,     \* of each task's own call: "idle", "queued" or "taken"
  target,    \* whom the call names
  inbox      \* callers each task has not taken yet, oldest first

vars == <<born, alive, leaving, phase, target, inbox>>

Init ==
  /\ born = 1
  /\ alive = {1}
  /\ leaving = {}
  /\ phase = [n \in Tids |-> "idle"]
  /\ target = [n \in Tids |-> 0]
  /\ inbox = [n \in Tids |-> <<>>]

Callers(r) == {c \in alive : phase[c] # "idle" /\ target[c] = r}

(* Every action below is one of a task that exists and is not leaving;     *)
(* the last three are a leaving task's.                                    *)

Begin ==
  /\ born + 1 \in Tids
  /\ born' = born + 1
  /\ alive' = alive \cup {born + 1}
  /\ UNCHANGED <<leaving, phase, target, inbox>>

\* A call to a task that is not listening waits its turn.
Call(c, r) ==
  /\ phase[c] = "idle"
  /\ phase' = [phase EXCEPT ![c] = "queued"]
  /\ target' = [target EXCEPT ![c] = r]
  /\ inbox' = [inbox EXCEPT ![r] = Append(@, c)]
  /\ UNCHANGED <<born, alive, leaving>>

\* A call to a listening task, which has nothing older to take.
CallTaken(c, r) ==
  /\ c # r
  /\ phase[c] = "idle"
  /\ phase[r] = "idle"
  /\ inbox[r] = <<>>
  /\ phase' = [phase EXCEPT ![c] = "taken"]
  /\ target' = [target EXCEPT ![c] = r]
  /\ UNCHANGED <<born, alive, leaving, inbox>>

Take(r) ==
  /\ phase[r] = "idle"
  /\ inbox[r] # <<>>
  /\ phase' = [phase EXCEPT ![Head(inbox[r])] = "taken"]
  /\ inbox' = [inbox EXCEPT ![r] = Tail(@)]
  /\ UNCHANGED <<born, alive, leaving, target>>

Close(c) == /\ phase' = [phase EXCEPT ![c] = "idle"]
            /\ target' = [target EXCEPT ![c] = 0]

\* Only the task that took the call answers it.
Answer(r, c) ==
  /\ phase[r] = "idle"
  /\ phase[c] = "taken"
  /\ target[c] = r
  /\ Close(c)
  /\ UNCHANGED <<born, alive, leaving, inbox>>

Depart(r) ==
  /\ phase[r] = "idle"
  /\ leaving' = leaving \cup {r}
  /\ UNCHANGED <<born, alive, phase, target, inbox>>

\* A departing task releases its callers, the ones it never took first.
RefuseQueued(r) ==
  /\ inbox[r] # <<>>
  /\ Close(Head(inbox[r]))
  /\ inbox' = [inbox EXCEPT ![r] = Tail(@)]
  /\ UNCHANGED <<born, alive, leaving>>

RefuseTaken(r) ==
  /\ inbox[r] = <<>>
  /\ \E c \in Callers(r) : Close(c)
  /\ UNCHANGED <<born, alive, leaving, inbox>>

\* Nobody is ever left calling a task that is gone.
Gone(r) ==
  /\ inbox[r] = <<>>
  /\ Callers(r) = {}
  /\ alive' = alive \ {r}
  /\ leaving' = leaving \ {r}
  /\ UNCHANGED <<born, phase, target, inbox>>

Present == alive \ leaving

Next ==
  \/ Begin
  \/ \E r \in Present : \/ Take(r) \/ Depart(r)
                        \/ \E c \in Present :
                             Call(c, r) \/ CallTaken(c, r) \/ Answer(r, c)
  \/ \E r \in leaving : RefuseQueued(r) \/ RefuseTaken(r) \/ Gone(r)

Spec == Init /\ [][Next]_vars
=============================================================================
