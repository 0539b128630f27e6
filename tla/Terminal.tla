------------------------------ MODULE Terminal ------------------------------
(***************************************************************************)
(* The terminal server of terminal.c, its two notifiers and the UART.      *)
(*                                                                         *)
(* Bytes are numbered in the order in which they were typed (received) or  *)
(* accepted (to be sent), so order and identity can be told.  A request of *)
(* a client takes effect when the server handles it, which is one step;    *)
(* the notifiers hold a byte between the UART and the server, so theirs    *)
(* are two.                                                                *)
(***************************************************************************)
EXTENDS Lists

CONSTANTS
  Clients,
  RxSize,      \* TERM_RX_BUF_SIZE (128)
  TxSize,      \* TERM_TX_BUF_SIZE (256)
  GetcSize,    \* TERM_WAITING_GETC_SIZE (16)
  Chunk,       \* TERMINAL_TRY_WRITE_CAPACITY
  FifoSize,    \* bytes the UART holds on its receiving side
  MaxBytes     \* bound: bytes typed, and bytes accepted

TerminalAssumption ==
  /\ RxSize \in Nat \ {0} /\ TxSize \in Nat \ {0} /\ GetcSize \in Nat \ {0}
  /\ Chunk \in Nat \ {0} /\ FifoSize \in Nat \ {0} /\ MaxBytes \in Nat

VARIABLES
  rxThere,   \* rx_notifier_tid >= 0: Create succeeded
  txThere,   \* created_tx_notifier_tid >= 0
  typed,     \* number of bytes the UART has received
  fifo,      \* bytes in its receive FIFO
  rxHand,    \* the byte the receiving notifier is delivering, or <<>>
  rx,        \* rx_buf
  getters,   \* waiting_getc
  got,       \* bytes handed to clients, in order
  refused,   \* bytes that did not fit into rx_buf
  accepted,  \* number of bytes accepted for output
  tx,        \* tx_buf
  txHand,    \* the byte the sending notifier is writing out, or <<>>
  parked,    \* tx_notifier_tid >= 0: it waits for a byte
  sent       \* number of the last byte written to the UART

rxVars == <<typed, fifo, rxHand, rx, getters, got, refused>>
txVars == <<accepted, tx, txHand, parked, sent>>
vars   == <<rxThere, txThere, rxVars, txVars>>

Init ==
  /\ rxThere \in BOOLEAN /\ txThere \in BOOLEAN
  /\ typed = 0 /\ fifo = <<>> /\ rxHand = <<>> /\ rx = <<>>
  /\ getters = <<>> /\ got = <<>> /\ refused = {}
  /\ accepted = 0 /\ tx = <<>> /\ txHand = <<>> /\ parked = FALSE /\ sent = 0

-----------------------------------------------------------------------------
(* Receiving.                                                              *)

\* The UART receives a byte; an overrun of its FIFO is the line's loss.
Type ==
  /\ typed < MaxBytes /\ Len(fifo) < FifoSize
  /\ typed' = typed + 1
  /\ fifo'  = Append(fifo, typed + 1)
  /\ UNCHANGED <<rxThere, txThere, rxHand, rx, getters, got, refused, txVars>>

\* TerminalRxNotifierTask: woken while the FIFO holds something, it takes a
\* byte and sends it.  When the server refuses one it goes back to waiting.
ReadByte ==
  /\ rxThere /\ rxHand = <<>> /\ fifo # <<>>
  /\ rxHand' = <<Head(fifo)>>
  /\ fifo'   = Tail(fifo)
  /\ UNCHANGED <<rxThere, txThere, typed, rx, getters, got, refused, txVars>>

ServesGetter == getters # <<>>

\* Mutant: the ring is filled at the end it is emptied from.
PushAtHead(b) == <<b>> \o rx

\* rx_push.
Push(b) == Append(rx, b)

\* TERM_MSG_RX_READY: to the client that has waited longest, or buffered.
RxReady ==
  /\ rxHand # <<>>
  /\ rxHand' = <<>>
  /\ \/ /\ ServesGetter
        /\ got' = Append(got, Head(rxHand))
        /\ getters' = Tail(getters)
        /\ UNCHANGED <<rx, refused>>
     \/ /\ ~ServesGetter /\ Len(rx) < RxSize
        /\ rx' = Push(Head(rxHand))
        /\ UNCHANGED <<getters, got, refused>>
     \/ /\ ~ServesGetter /\ Len(rx) = RxSize
        /\ refused' = refused \cup {Head(rxHand)}
        /\ UNCHANGED <<rx, getters, got>>
  /\ UNCHANGED <<rxThere, txThere, typed, fifo, txVars>>

\* rx_pop and the answer that carries the byte.
PopByte ==
  /\ rx # <<>>
  /\ got' = Append(got, Head(rx))
  /\ rx'  = Tail(rx)
  /\ UNCHANGED <<rxThere, txThere, typed, fifo, rxHand, getters, refused, txVars>>

\* A client in GETC does nothing else.
Waits(c) == \E i \in DOMAIN getters : getters[i] = c

\* TERM_MSG_GETC with nothing buffered: the client waits.  It is refused when
\* too many wait or no byte can ever come, which changes nothing.
Getc(c) ==
  /\ ~Waits(c)
  /\ \/ PopByte
     \/ /\ rx = <<>> /\ rxThere /\ Len(getters) < GetcSize
        /\ getters' = Append(getters, c)
        /\ UNCHANGED <<rxThere, txThere, typed, fifo, rxHand, rx, got, refused, txVars>>

\* TERM_MSG_TRY_GETC answers at once; EMPTY changes nothing.
TryGetc(c) == ~Waits(c) /\ PopByte

-----------------------------------------------------------------------------
(* Sending.                                                                *)

\* Mutant: the notifier is not told of the new bytes.
LeaveParked(q) == tx' = q /\ UNCHANGED <<txHand, parked>>

\* maybe_unblock_tx_notifier: the parked notifier gets the oldest byte.
Unpark(q) ==
  IF parked
  THEN tx' = Tail(q) /\ txHand' = <<Head(q)>> /\ parked' = FALSE
  ELSE tx' = q /\ UNCHANGED <<txHand, parked>>

Fits(n) == n <= TxSize - Len(tx)

\* n bytes go into the buffer, all or none.  A request that does not fit is
\* refused, which changes nothing.
PushAll(c, n) ==
  /\ ~Waits(c) /\ txThere /\ Fits(n)
  /\ accepted + n <= MaxBytes
  /\ accepted' = accepted + n
  /\ Unpark(tx \o [i \in 1 .. n |-> accepted + i])
  /\ UNCHANGED <<rxThere, txThere, rxVars, sent>>

\* TERM_MSG_PUTC.
Putc(c) == PushAll(c, 1)

\* TERM_MSG_TRY_WRITE.
TryWrite(c) == \E n \in 1 .. Chunk : PushAll(c, n)

\* TERM_MSG_TX_READY: a byte for the sending notifier, or it is parked.
TxReady ==
  /\ txThere /\ txHand = <<>> /\ ~parked
  /\ IF tx # <<>>
     THEN txHand' = <<Head(tx)>> /\ tx' = Tail(tx) /\ UNCHANGED parked
     ELSE parked' = TRUE /\ UNCHANGED <<tx, txHand>>
  /\ UNCHANGED <<rxThere, txThere, rxVars, accepted, sent>>

\* TerminalTxNotifierTask writes the byte once the UART has room.
SendByte ==
  /\ txHand # <<>>
  /\ sent'   = Head(txHand)
  /\ txHand' = <<>>
  /\ UNCHANGED <<rxThere, txThere, rxVars, accepted, tx, parked>>

-----------------------------------------------------------------------------
Next ==
  \/ Type \/ ReadByte \/ RxReady \/ TxReady \/ SendByte
  \/ \E c \in Clients : Getc(c) \/ TryGetc(c) \/ Putc(c) \/ TryWrite(c)

Spec == Init /\ [][Next]_vars

\* Server and notifiers share a priority class, whose tasks take turns, and
\* the more urgent ones (clock, name and CAN server) are blocked in between.
Fairness == WF_vars(ReadByte) /\ WF_vars(RxReady) /\ WF_vars(TxReady) /\ WF_vars(SendByte)

LiveSpec == Spec /\ Fairness

-----------------------------------------------------------------------------
(* Correctness.                                                            *)

Bytes == 1 .. MaxBytes

TypeOK ==
  /\ rxThere \in BOOLEAN /\ txThere \in BOOLEAN /\ parked \in BOOLEAN
  /\ typed \in 0 .. MaxBytes /\ accepted \in 0 .. MaxBytes /\ sent \in 0 .. MaxBytes
  /\ fifo \in Seq(Bytes) /\ Len(fifo) <= FifoSize
  /\ rx \in Seq(Bytes) /\ Len(rx) <= RxSize
  /\ tx \in Seq(Bytes) /\ Len(tx) <= TxSize
  /\ rxHand \in Seq(Bytes) /\ Len(rxHand) <= 1
  /\ txHand \in Seq(Bytes) /\ Len(txHand) <= 1
  /\ getters \in Seq(Clients) /\ Len(getters) <= GetcSize
  /\ got \in Seq(Bytes) /\ refused \subseteq Bytes

Counting(from, to) == [i \in 1 .. to - from + 1 |-> from + i - 1]

\* What was typed is handed out in the order it was typed and once, except
\* for the bytes that were refused: nothing else is lost on the way, and no
\* buffer is overrun.
TypedInOrder ==
  /\ TypeOK
  /\ got \o rx \o rxHand \o fifo = Without(Counting(1, typed), refused)

\* Nobody waits for a byte while one is buffered.
NobodyWaitsInVain == getters # <<>> => rx = <<>>

\* What was accepted is sent in the order it was accepted and once; a chunk
\* is accepted as a whole, so it is sent as a whole.
AcceptedInOrder == txHand \o tx = Counting(sent + 1, accepted)

\* Every byte that was accepted is sent: all of them are, again and again, or
\* bytes keep being sent.
OutputDrains == []<>(sent = accepted) \/ []<><<sent' > sent>>_vars
=============================================================================
