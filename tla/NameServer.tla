----------------------------- MODULE NameServer -----------------------------
(***************************************************************************)
(* The name server of nameserver.c: a table that maps a name to the task   *)
(* that registered it.  Slots are never freed; a name that is registered   *)
(* again keeps its slot, so a server that is started anew is found under   *)
(* its old name.  A task that exits leaves its registration behind.        *)
(***************************************************************************)
EXTENDS Integers

CONSTANTS
  Names, Tids, Nobody,
  NoName,
  MaxRegistrations   \* NAME_MAX_REGISTRATIONS (32)

NameServerAssumption ==
  /\ MaxRegistrations \in Nat
  /\ NoName \notin Names /\ Nobody \notin Tids

Entries == 1 .. MaxRegistrations

VARIABLES
  entries,   \* per slot: a name and its tid
  latest     \* history: the task that last registered each name

vars == <<entries, latest>>

Init ==
  /\ entries = [i \in Entries |-> [name |-> NoName, tid |-> Nobody]]
  /\ latest  = [n \in Names |-> Nobody]

Free(i) == entries[i].name = NoName
FirstFree == {i \in Entries : Free(i) /\ \A j \in Entries : Free(j) => i <= j}

\* find_name: the first slot with the name.
Find(n) ==
  {i \in Entries : entries[i].name = n /\ \A j \in 1 .. i - 1 : entries[j].name # n}

\* The slot a registration goes to: none when the table is full.
SlotFor(n) == IF Find(n) # {} THEN Find(n) ELSE FirstFree

\* NS_MSG_REGISTER; refused (-1) when there is no slot, which changes nothing.
Register(t, n) ==
  \E i \in SlotFor(n) :
    /\ entries' = [entries EXCEPT ![i] = [name |-> n, tid |-> t]]
    /\ latest'  = [latest EXCEPT ![n] = t]

\* NS_MSG_WHOIS.
WhoIs(n) == {entries[i].tid : i \in Find(n)}

Next == \E t \in Tids, n \in Names : Register(t, n)

Spec == Init /\ [][Next]_vars

TypeOK ==
  /\ entries \in [Entries -> [name : Names \cup {NoName}, tid : Tids \cup {Nobody}]]
  /\ latest \in [Names -> Tids \cup {Nobody}]

\* A lookup finds the task that registered the name last, however often the
\* name was registered and whatever else fills the table (and all state has its type).
LookupFindsLatest ==
  TypeOK /\ \A n \in Names : WhoIs(n) = IF latest[n] = Nobody THEN {} ELSE {latest[n]}
=============================================================================
