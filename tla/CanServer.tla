----------------------------- MODULE CanServer -----------------------------
(***************************************************************************)
(* The CAN server of can.c, with the controller's transmit and receive     *)
(* buffers (mcp2515.c) and the central station on the other side of the    *)
(* bus.  The server takes one message at a time: it first makes progress   *)
(* with the frame on the wire, then handles the message, and then starts   *)
(* what is queued.  These are steps of their own because the controller    *)
(* and the station go on meanwhile; pc says which one is next.             *)
(*                                                                         *)
(* The station answers a command with the same bytes, so an answer tells   *)
(* the command and never which of several identical frames it is for.      *)
(***************************************************************************)
EXTENDS Lists, FiniteSets, SequencesExt

CONSTANTS
  Clients, Nobody,
  Dispatcher,  \* the client that registers for the turnouts
  Speeds,      \* speed commands: absolute, train control
  Toggles,     \* direction commands: train control, not absolute
  Turnouts,    \* turnout commands: absolute
  QueueSize,   \* CAN_TX_Q_SIZE (32)
  StatusSlots, \* CAN_BATCH_STATUS_SLOTS (64)
  BatchMax,    \* CAN_COMMAND_BATCH_MAX (16)
  TxLimit,     \* CAN_TX_TIMEOUT_POLLS (25)
  AnswerLimit, \* CAN_RESPONSE_TIMEOUT_POLLS (25)
  MaxFrames    \* bound: frames queued

CanAssumption ==
  /\ {QueueSize, StatusSlots, BatchMax, TxLimit, AnswerLimit} \subseteq Nat \ {0}
  /\ MaxFrames \in Nat
  /\ Dispatcher \in Clients /\ Nobody \notin Clients

Control  == Speeds \cup Toggles
Absolute == Speeds \cup Turnouts
Commands == Control \cup Turnouts
Slots    == 1 .. StatusSlots

\* CAN_TX_PRIORITY_...
Normal == 0
Urgent == 1
Stop   == 2

VARIABLES
  pc, msg,         \* what the server does, and the message it handles
  ready,           \* can_health.hw_ready
  q,               \* tx_q
  tx,              \* the head of tx_q is "idle", "active" or "waiting" for its answer
  polls, busy,     \* timed polls of that state; attempts to start it
  status,          \* batch_status
  nextToken, nextSlot,
  quarantine,      \* command whose late answer is not to be believed, or NoFrame
  authority,       \* can_turnout_authority_tid
  calling,         \* per client: it waits for the server
  txb,             \* the frame in the controller's transmit buffer, or NoFrame
  late,            \* answers on their way
  frames,          \* frames queued so far, for the bound
  obeyed,          \* the station has carried out the frame on the wire
  reached,         \* absolute commands it has carried out
  overwritten      \* a second command was quarantined while a first one was

server   == <<ready, q, tx, polls, busy, quarantine, overwritten>>
batches  == <<status, nextToken, nextSlot>>
station  == <<late, obeyed, reached>>
hardware == <<txb, station>>
vars == <<pc, msg, server, batches, authority, calling, hardware, frames>>

Nothing   == [kind |-> "none"]
NoRecord  == [token |-> 0, state |-> "failed", total |-> 0, confirmed |-> 0]
NoFrame   == "no frame"

Init ==
  /\ pc = "receive" /\ msg = Nothing
  /\ ready \in BOOLEAN
  /\ q = <<>> /\ tx = "idle" /\ polls = 0 /\ busy = 0
  /\ status = [i \in Slots |-> NoRecord] /\ nextToken = 1 /\ nextSlot = 1
  /\ quarantine = NoFrame /\ overwritten = FALSE /\ authority = Nobody
  /\ calling = [c \in Clients |-> FALSE]
  /\ txb = NoFrame /\ late = <<>> /\ frames = 0
  /\ obeyed = FALSE /\ reached = {}

-----------------------------------------------------------------------------
(* The controller and the station.                                         *)

\* The frame leaves the transmit buffer.  The station carries it out and
\* answers, or its answer is lost, or it misses the frame.
Transmit ==
  /\ txb # NoFrame
  /\ \E heard \in BOOLEAN :
       /\ obeyed'  = (heard /\ tx = "active")
       /\ reached' = IF heard THEN reached \cup ({txb} \cap Absolute) ELSE reached
       /\ late' \in {late} \cup IF heard THEN {Append(late, txb)} ELSE {}
  /\ txb' = NoFrame
  /\ UNCHANGED <<pc, msg, server, batches, authority, calling, frames>>

\* mcp2515_tx_abort: the request is withdrawn unless the frame is on the bus
\* already, and the controller may turn out not to be reachable.
Abort == txb' \in {txb, NoFrame} /\ ready' \in {ready, FALSE}

-----------------------------------------------------------------------------
(* Queue, batches, replies.                                                *)

Senders(s) == {x.from : x \in Members(s)}

Tokens(s) == {x.token : x \in Members(s)} \ {0}

Answered(C) == [c \in Clients |-> calling[c] /\ c \notin C]

\* fail_batch for a set of tokens.
WithFailed(T) ==
  [i \in Slots |-> IF status[i].token \in T /\ status[i].state = "pending"
                   THEN [status[i] EXCEPT !.state = "failed"] ELSE status[i]]

\* confirm_batch_item.
WithConfirmed(t) ==
  [i \in Slots |->
     IF t # 0 /\ status[i].token = t /\ status[i].state = "pending"
     THEN [status[i] EXCEPT !.confirmed = @ + 1,
             !.state = IF status[i].confirmed + 1 = status[i].total
                       THEN "complete" ELSE "pending"]
     ELSE status[i]]

\* tx_pop and drop_queued_batch_items.
WithoutHead ==
  Without(Tail(q), {x \in Members(q) : x.token # 0 /\ x.token = Head(q).token})

\* The head has failed: its sender is told, its batch fails as a whole.
FailHead ==
  /\ calling' = Answered({Head(q).from})
  /\ status'  = WithFailed({Head(q).token} \ {0})
  /\ q'       = WithoutHead

\* fail_all_queued_tx.
FailAll ==
  /\ calling' = Answered(Senders(q))
  /\ status'  = WithFailed(Tokens(q))
  /\ q' = <<>> /\ tx' = "idle" /\ polls' = 0 /\ busy' = 0

\* quarantine_active_response.
Quarantine ==
  /\ quarantine'  = Head(q).cmd
  /\ overwritten' = (overwritten \/ quarantine # NoFrame)

-----------------------------------------------------------------------------
(* progress_queued_tx.                                                     *)

Timed == msg.kind = "poll"

\* Waiting for the answer, or nothing on the wire, or no controller.
ProgressQuiet ==
  /\ pc = "progress"
  /\ \/ /\ ~ready \/ tx = "idle" \/ (tx = "waiting" /\ ~Timed)
        /\ polls' = polls
     \/ /\ ready /\ tx = "waiting" /\ Timed /\ polls + 1 < AnswerLimit
        /\ polls' = polls + 1
  /\ pc' = "start"
  /\ UNCHANGED <<msg, ready, q, tx, busy, quarantine, overwritten, batches, authority,
                 calling, hardware, frames>>

\* No answer came in time.
ProgressNoAnswer ==
  /\ pc = "progress" /\ ready /\ tx = "waiting" /\ Timed
  /\ polls + 1 >= AnswerLimit
  /\ Quarantine
  /\ FailHead
  /\ tx' = "idle" /\ polls' = 0
  /\ pc' = "start"
  /\ UNCHANGED <<msg, ready, busy, nextToken, nextSlot, authority, hardware,
                 frames>>

\* The transmit request is still pending.
ProgressPending ==
  /\ pc = "progress" /\ ready /\ tx = "active" /\ txb # NoFrame
  /\ \/ ~Timed /\ polls' = polls
     \/ Timed /\ polls + 1 < TxLimit /\ polls' = polls + 1
  /\ pc' = "start"
  /\ UNCHANGED <<msg, ready, q, tx, busy, quarantine, overwritten, batches, authority,
                 calling, hardware, frames>>

\* The frame has left: its answer is awaited.
ProgressSent ==
  /\ pc = "progress" /\ ready /\ tx = "active" /\ txb = NoFrame
  /\ tx' = "waiting" /\ polls' = 0
  /\ pc' = "start"
  /\ UNCHANGED <<msg, ready, q, busy, quarantine, overwritten, batches, authority,
                 calling, hardware, frames>>

\* The controller shows an error, as it may at any time, or the time is up, or
\* the controller cannot be read: the frame is given up, though it may be on
\* the bus.
ProgressFailed ==
  /\ pc = "progress" /\ ready /\ tx = "active"
  /\ Abort
  /\ Quarantine
  /\ FailHead
  /\ tx' = "idle" /\ polls' = 0
  /\ pc' = "start"
  /\ UNCHANGED <<msg, busy, nextToken, nextSlot, authority, station, frames>>

-----------------------------------------------------------------------------
(* start_queued_tx.                                                        *)

\* A poll or a query asks for no more; other messages are handled now.
GoesOn ==
  IF msg.kind \in {"none", "poll", "query"}
  THEN pc' = "receive" /\ msg' = Nothing
  ELSE pc' = "handle" /\ UNCHANGED msg

MayStart == ready /\ q # <<>> /\ tx = "idle"

Raise == txb' = Head(q).cmd /\ obeyed' = FALSE

StartSend ==
  /\ pc = "start" /\ MayStart /\ txb = NoFrame
  /\ Raise
  /\ tx' = "active" /\ polls' = 0 /\ busy' = 0
  /\ GoesOn
  /\ UNCHANGED <<ready, q, quarantine, overwritten, batches, authority,
                 calling, late, reached, frames>>

\* An earlier frame that could not be withdrawn is still in the buffer.
StartBusy ==
  /\ pc = "start" /\ MayStart /\ txb # NoFrame /\ busy + 1 < TxLimit
  /\ busy' = busy + 1
  /\ GoesOn
  /\ UNCHANGED <<ready, q, tx, polls, quarantine, overwritten, batches, authority,
                 calling, hardware, frames>>

StartFails ==
  /\ pc = "start" /\ MayStart
  /\ \/ txb # NoFrame /\ busy + 1 >= TxLimit /\ Abort /\ UNCHANGED obeyed
     \/ ready' = FALSE /\ UNCHANGED <<txb, obeyed>>
     \/ ready' = FALSE /\ txb = NoFrame /\ Raise
  /\ FailHead
  /\ busy' = 0
  /\ UNCHANGED <<pc, msg, tx, polls, quarantine, overwritten, nextToken, nextSlot,
                 authority, late, reached, frames>>

StartDone ==
  /\ pc = "start" /\ ~MayStart
  /\ IF ready THEN UNCHANGED <<calling, status, q, tx, polls, busy>>
     ELSE FailAll
  /\ GoesOn
  /\ UNCHANGED <<ready, quarantine, overwritten, nextToken, nextSlot, authority,
                 hardware, frames>>

-----------------------------------------------------------------------------
(* Receive: the notifiers' messages and the clients'.                      *)

Take(m) ==
  /\ pc = "receive"
  /\ msg' = m
  /\ pc'  = "progress"
  /\ UNCHANGED <<server, batches, authority, txb, obeyed, reached, frames>>

TakeNotice(kind) == Take([kind |-> kind]) /\ UNCHANGED <<calling, late>>

TakePoll == TakeNotice("poll")

\* Heartbeats, loss counts, queries, and the courier's polls for frames.
TakeQuery == TakeNotice("query")

TakeHwFailed == TakeNotice("hw failed")

\* mcp2515_recv reads the first of two buffers first, so that an answer may
\* overtake the one before it.
TakeFrame ==
  \E i \in DOMAIN late :
    /\ i <= 2
    /\ Take([kind |-> "frame", cmd |-> late[i]])
    /\ late' = RemoveAt(late, i)
    /\ UNCHANGED calling

\* What is asked for is chosen when it is handled.
TakeRequest(c) ==
  /\ ~calling[c] /\ (c = Dispatcher \/ frames < MaxFrames)
  /\ Take([kind |-> "request", from |-> c])
  /\ calling' = [calling EXCEPT ![c] = TRUE]
  /\ UNCHANGED late

-----------------------------------------------------------------------------
(* The handlers of what comes in.                                          *)

Handles(kind) == pc = "handle" /\ msg.kind = kind
Finish(next)  == pc' = next /\ msg' = Nothing

HandleHwFailed ==
  /\ Handles("hw failed")
  /\ ready' = FALSE
  /\ FailAll
  /\ Finish("receive")
  /\ UNCHANGED <<quarantine, overwritten, nextToken, nextSlot, authority, hardware,
                 frames>>

\* CanFrameMatchesResponse: an answer has the bytes of its command.
IsAnswer(cmd) == tx = "waiting" /\ Head(q).cmd = cmd

\* The late answer of a frame that was given up must not confirm a later
\* one, unless that asks for the very state it proves.
Swallowed(cmd) == quarantine = cmd /\ ~(IsAnswer(cmd) /\ cmd \in Absolute)

Released(cmd) == quarantine' = IF quarantine = cmd THEN NoFrame ELSE quarantine

\* Other frames are for whoever reads frames.
FrameIgnored ==
  /\ Handles("frame")
  /\ Swallowed(msg.cmd) \/ ~IsAnswer(msg.cmd)
  /\ Released(msg.cmd)
  /\ Finish("receive")
  /\ UNCHANGED <<ready, q, tx, polls, busy, overwritten, batches, authority, calling,
                 hardware, frames>>

FrameConfirms ==
  /\ Handles("frame") /\ ~Swallowed(msg.cmd) /\ IsAnswer(msg.cmd)
  /\ Released(msg.cmd)
  /\ calling' = Answered({Head(q).from})
  /\ status'  = WithConfirmed(Head(q).token)
  /\ q' = Tail(q) /\ tx' = "idle" /\ polls' = 0
  /\ Finish("start")
  /\ UNCHANGED <<ready, busy, overwritten, nextToken, nextSlot, authority, hardware, frames>>

-----------------------------------------------------------------------------
(* The handlers of commands.                                               *)

\* The dispatcher registers for the turnouts before it asks for anything.
Registered == msg.from = Dispatcher => authority = Dispatcher

\* A request of C for some of these sequences of commands.
Asks(C, choices, cmds) ==
  /\ Handles("request") /\ msg.from \in C
  /\ cmds \in choices /\ frames + Len(cmds) <= MaxFrames
  /\ Registered

One(C) == {<<d>> : d \in C}
Several(C) == UNION {[1 .. k -> C] : k \in 1 .. BatchMax}

\* Once a task has registered for it, only that task moves turnouts.
Permitted(cmds) ==
  \A i \in DOMAIN cmds : cmds[i] \in Turnouts => authority \in {Nobody, msg.from}

Items(cmds, from, token, rank) ==
  [i \in DOMAIN cmds |-> [cmd |-> cmds[i], from |-> from, token |-> token, rank |-> rank]]

\* Mutant: the frame on the wire is overtaken too.
OvertakeHead == 1

FirstToOvertake == IF tx = "idle" THEN 1 ELSE 2

\* tx_push_priority: behind the frame on the wire and whatever is as urgent.
Inserted(items, rank, s) ==
  LET p == CHOOSE i \in FirstToOvertake .. Len(s) + 1 :
             /\ i <= Len(s) => s[i].rank < rank
             /\ \A j \in FirstToOvertake .. i - 1 : s[j].rank >= rank
  IN SubSeq(s, 1, p - 1) \o items \o SubSeq(s, p, Len(s))

\* cancel_lower_priority_tx, which spares the frame on the wire.
Spared(rank) ==
  LET urgent == {x \in Members(q) : x.rank >= rank}
  IN IF tx = "idle" THEN Kept(q, urgent) ELSE <<Head(q)>> \o Kept(Tail(q), urgent)

Cancelled(rank) == {q[i] : i \in {j \in DOMAIN q : q[j].rank < rank /\ (j = 1 => tx = "idle")}}

\* allocate_batch_status: the next slot in turn that is not pending.
SlotFree(st) == \E i \in Slots : st[i].state # "pending"

NextSlot(st) ==
  LET turn(k) == ((nextSlot - 1 + k) % StatusSlots) + 1
  IN turn(CHOOSE k \in 0 .. StatusSlots - 1 :
            /\ st[turn(k)].state # "pending"
            /\ \A j \in 0 .. k - 1 : st[turn(j)].state = "pending")

Allocate(st, total) ==
  /\ status' = [st EXCEPT ![NextSlot(st)] =
       [token |-> nextToken, state |-> "pending", total |-> total, confirmed |-> 0]]
  /\ nextToken' = nextToken + 1
  /\ nextSlot'  = (NextSlot(st) % StatusSlots) + 1

Refuse ==
  /\ calling' = Answered({msg.from})
  /\ Finish("receive")
  /\ UNCHANGED <<server, batches, authority, hardware, frames>>

Queued(newq, cmds) ==
  /\ q' = newq
  /\ frames' = frames + Len(cmds)
  /\ Finish("start")
  /\ UNCHANGED <<ready, tx, polls, busy, quarantine, overwritten, authority, hardware>>

\* CAN_MSG_SEND_CONFIRMED.
HandleConfirmed(cmds) ==
  /\ Asks(Clients, One(Absolute), cmds)
  /\ LET fits == ready /\ Permitted(cmds) /\ Len(q) < QueueSize
     IN \/ /\ fits
           /\ Queued(q \o Items(cmds, msg.from, 0, Normal), cmds)
           /\ UNCHANGED <<batches, calling>>
        \/ ~fits /\ Refuse

\* CAN_MSG_TRAIN_CONTROL_PRIORITY: a full queue is cleared of what is less
\* urgent, even when the request is refused in the end.
HandleControl(cmds) ==
  /\ Asks({Dispatcher}, One(Control), cmds)
  /\ LET full == Len(q) >= QueueSize
         room == IF full THEN Spared(Urgent) ELSE q
         gone == IF full THEN Cancelled(Urgent) ELSE {}
         fits == ready /\ Len(room) < QueueSize
     IN /\ status' = WithFailed({x.token : x \in gone} \ {0})
        /\ calling' = Answered({x.from : x \in gone} \cup IF fits THEN {} ELSE {msg.from})
        /\ UNCHANGED <<nextToken, nextSlot>>
        /\ \/ fits /\ Queued(Inserted(Items(cmds, msg.from, 0, Urgent), Urgent, room), cmds)
           \/ /\ ~fits /\ q' = room /\ Finish("receive")
              /\ UNCHANGED <<ready, tx, polls, busy, quarantine, overwritten, authority,
                             hardware, frames>>

\* CAN_MSG_SPEED_BATCH: all frames or none, and the client goes on at once.
HandleBatch(cmds) ==
  /\ Asks({Dispatcher}, Several(Speeds) \cup Several(Turnouts), cmds)
  /\ LET fits == ready /\ Permitted(cmds) /\ Len(q) + Len(cmds) <= QueueSize
                  /\ SlotFree(status)
     IN \/ /\ fits
           /\ Allocate(status, Len(cmds))
           /\ Queued(q \o Items(cmds, Nobody, nextToken, Normal), cmds)
           /\ calling' = Answered({msg.from})
        \/ ~fits /\ Refuse

\* CAN_MSG_EMERGENCY_STOP_BATCH: everything less urgent is cancelled first.
HandleEmergency(cmds) ==
  /\ Asks({Dispatcher}, Several(Speeds), cmds)
  /\ \/ ~ready /\ Refuse
     \/ /\ ready
        /\ LET room == Spared(Stop)
               gone == Cancelled(Stop)
               left == WithFailed({x.token : x \in gone} \ {0})
               fits == Len(room) + Len(cmds) <= QueueSize
           IN /\ calling' = Answered({x.from : x \in gone} \cup {msg.from})
              /\ \/ /\ fits /\ SlotFree(left)
                    /\ Allocate(left, Len(cmds))
                    /\ Queued(Inserted(Items(cmds, Nobody, nextToken, Stop), Stop, room), cmds)
                 \/ /\ ~fits \/ ~SlotFree(left)
                    /\ status' = left /\ q' = room
                    /\ Finish(IF fits THEN "receive" ELSE "start")
                    /\ UNCHANGED <<nextToken, nextSlot, ready, tx, polls, busy, quarantine,
                                   overwritten, authority, hardware, frames>>

Pending(t) == \E i \in Slots : status[i].token = t /\ status[i].state = "pending"

\* CAN_MSG_BATCH_CANCEL.
HandleCancel(t) ==
  /\ Handles("request") /\ msg.from = Dispatcher /\ Registered
  /\ \/ ~Pending(t) /\ Refuse
     \/ /\ Pending(t)
        /\ LET heads == q # <<>> /\ Head(q).token = t
           IN /\ IF heads /\ tx # "idle" THEN Quarantine
                 ELSE UNCHANGED <<quarantine, overwritten>>
              /\ IF heads /\ tx = "active" THEN Abort ELSE UNCHANGED <<txb, ready>>
              /\ tx' = IF heads THEN "idle" ELSE tx
              /\ polls' = IF heads THEN 0 ELSE polls
              /\ busy'  = IF heads THEN 0 ELSE busy
        /\ status' = WithFailed({t})
        /\ q' = Without(q, {x \in Members(q) : x.token = t})
        /\ calling' = Answered({msg.from})
        /\ Finish("start")
        /\ UNCHANGED <<nextToken, nextSlot, authority, late, obeyed, reached, frames>>

\* CAN_MSG_REGISTER_TURNOUT_AUTHORITY.
HandleRegister ==
  /\ Handles("request") /\ msg.from = Dispatcher /\ ~Registered
  /\ authority' = IF authority = Nobody THEN msg.from ELSE authority
  /\ calling' = Answered({msg.from})
  /\ Finish("receive")
  /\ UNCHANGED <<server, batches, hardware, frames>>

-----------------------------------------------------------------------------
Server ==
  \/ ProgressQuiet \/ ProgressNoAnswer \/ ProgressPending
  \/ ProgressSent \/ ProgressFailed
  \/ StartSend \/ StartBusy \/ StartFails \/ StartDone
  \/ HandleHwFailed \/ FrameIgnored \/ FrameConfirms \/ HandleRegister
  \/ \E cmds \in Several(Commands) :
       HandleConfirmed(cmds) \/ HandleControl(cmds) \/ HandleBatch(cmds) \/ HandleEmergency(cmds)
  \/ \E t \in {status[i].token : i \in Slots} : HandleCancel(t)

Notifiers == TakePoll \/ TakeQuery \/ TakeHwFailed \/ TakeFrame

Next == Transmit \/ Server \/ Notifiers \/ \E c \in Clients : TakeRequest(c)

Spec == Init /\ [][Next]_vars

\* The server runs while it has something to do, and the transmit notifier's
\* message is served in its turn.  Nothing is assumed of the hardware.
LiveSpec == Spec /\ WF_vars(Server) /\ SF_vars(TakePoll)

-----------------------------------------------------------------------------
(* Correctness.                                                            *)

InQueue(c) == {i \in DOMAIN q : q[i].from = c}

\* Between two messages a client waits exactly if one frame of its is queued:
\* nobody is forgotten and nobody is answered early.
NobodyForgotten ==
  pc = "receive" =>
    \A c \in Clients : Cardinality(InQueue(c)) = (IF calling[c] THEN 1 ELSE 0)

\* A pending batch has just the frames queued that were not confirmed yet,
\* and one at least: its state will be decided by one of them.  And of a batch
\* that has failed nothing more is sent.
BatchesAccounted ==
  \A i \in Slots \ {k \in Slots : status[k].token = 0} :
    LET left == {k \in DOMAIN q : q[k].token = status[i].token}
    IN /\ status[i].state = "pending" =>
            left # {} /\ Cardinality(left) = status[i].total - status[i].confirmed
       /\ status[i].state # "pending" => left \subseteq (IF tx = "idle" THEN {} ELSE {1})

\* Behind the frame on the wire nothing waits for something less urgent: a
\* stop is sent next.  And the frame on the wire is never displaced.
UrgentFirst ==
  /\ [](\A i, j \in DOMAIN q : i < j => q[i].rank >= q[j].rank \/ (i = 1 /\ tx # "idle"))
  /\ [][tx # "idle" /\ tx' # "idle" => Head(q') = Head(q)]_vars

\* What is reported done the station has done: that very frame or, for an
\* absolute command, an identical one before.  (Unless a second command was
\* quarantined while a first one was: see AmbiguityFailsClosed.)
DoneMeansExecuted ==
  [][FrameConfirms => obeyed \/ Head(q).cmd \in reached \/ overwritten]_vars

\* A direction command whose outcome is ambiguous fails: it is never reported
\* done on the strength of another one's answer.
AmbiguityFailsClosed == [][FrameConfirms /\ Head(q).cmd \in Toggles => obeyed]_vars

\* Whatever controller and station do, what is queued comes to its end once no
\* more is asked, and with it, by NobodyForgotten and BatchesAccounted, every
\* client's wait and every batch.
RequestsEnd == q # <<>> ~> q = <<>>
=============================================================================
