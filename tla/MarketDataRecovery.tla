------------------------ MODULE MarketDataRecovery ------------------------
(***************************************************************************)
(* Market data from the exchange to one market participant over lossy UDP  *)
(* multicast: the publisher's incremental stream, the snapshots of the     *)
(* synthetizer (src/exchange/market_data_publisher.cpp,                    *)
(* snapshot_synthetizer.cpp), and the consumer that follows the first and  *)
(* recovers from a gap with the second                                     *)
(* (src/client/market_data_consumer.cpp).                                  *)
(*                                                                         *)
(* The book of the one instrument is the set of the ids of its orders: an  *)
(* update adds one or takes one away.  The consumer's state is a record,   *)
(* and its methods are functions from the record to the record, since its  *)
(* thread handles a message without anybody seeing the states between.     *)
(***************************************************************************)
EXTENDS Integers, Sequences, FiniteSets, SequencesExt

CONSTANTS
  MaxUpdates,          \* bound: how many updates the matching engine sends
  MaxFaults,           \* bound: datagrams of the incremental stream lost, duplicated or out of order
  MaxSnapshotFaults    \* bound: the same of the snapshot stream

ASSUME BoundsAssumption ==
  MaxUpdates \in Nat /\ MaxFaults \in Nat /\ MaxSnapshotFaults \in Nat

VARIABLES
  log,             \* every update of the engine; its index is its sequence number
  flushed,         \* how many of them have left in a datagram
  wire,            \* the incremental datagrams under way: <<first, last>> sequence number
  last_seq_num_,   \* of the synthetizer: how many updates its picture includes
  publishing,      \* the datagrams of the current snapshot that are still to be sent
  inbound,         \* the messages of a datagram the consumer has still to handle
  is_snapshot,     \* on which of its sockets the consumer got them
  consumer,        \* the state of the consumer
  faults, snapshotFaults,
  stale,           \* has an incremental datagram been duplicated or overtaken?
  disordered,      \* has a snapshot datagram been?
  high,            \* the highest exp_seq_num_ the consumer had while in step
  heard            \* the highest incremental number that has reached the consumer

exchangeVars == <<log, flushed, last_seq_num_>>
inboundVars  == <<inbound, is_snapshot>>
vars == <<exchangeVars, wire, publishing, inboundVars, consumer, faults, snapshotFaults, stale, disordered, high, heard>>

Message(seq, type, id) == [seq_num_ |-> seq, type_ |-> type, order_id_ |-> id]

(* What a reader makes of an update: the order ids in the book.            *)
ApplyUpdate(book, m) ==
  CASE m.type_ = "ADD"    -> book \cup {m.order_id_}
    [] m.type_ = "CANCEL" -> book \ {m.order_id_}
    [] m.type_ = "CLEAR"  -> {}
    [] OTHER              -> book

(* The engine's book after its first n updates.                            *)
BookAfter(n) == FoldLeft(ApplyUpdate, {}, SubSeq(log, 1, n))

NoMessages == [n \in {} |-> Message(0, "CLEAR", 0)]

Init ==
  /\ log = << >>
  /\ flushed = 0
  /\ wire = << >>
  /\ last_seq_num_ = 0
  /\ publishing = << >>
  /\ inbound = << >>
  /\ is_snapshot = FALSE
  /\ consumer = [exp_seq_num_ |-> 1, packet_lost_ |-> FALSE, snapshot |-> NoMessages,
                 incremental |-> NoMessages, book |-> {}]
  /\ faults = 0
  /\ snapshotFaults = 0
  /\ stale = FALSE
  /\ disordered = FALSE
  /\ high = 1
  /\ heard = 0

----------------------------------------------------------------------------
(* The exchange.                                                           *)

(* One iteration of the publisher's loop: an update of the engine is       *)
(* numbered, put into the datagram being filled and handed to the          *)
(* synthetizer.                                                            *)
Number ==
  /\ Len(log) < MaxUpdates
  /\ LET n    == Len(log) + 1
         book == BookAfter(n - 1)
         new  == Cardinality({i \in 1 .. n - 1 : log[i].type_ = "ADD"}) + 1
     IN \/ log' = Append(log, Message(n, "ADD", new))
        \/ \E id \in book : log' = Append(log, Message(n, "CANCEL", id))
  /\ UNCHANGED <<flushed, last_seq_num_, wire, publishing, inboundVars, consumer,
                 faults, snapshotFaults, stale, disordered, high, heard>>

(* sendAndRecv at the end of the loop: the datagram leaves.                *)
Flush ==
  /\ flushed < Len(log)
  /\ wire' = Append(wire, <<flushed + 1, Len(log)>>)
  /\ flushed' = Len(log)
  /\ UNCHANGED <<log, last_seq_num_, publishing, inboundVars, consumer, faults,
                 snapshotFaults, stale, disordered, high, heard>>

(* addSnapShot, between two snapshots.                                     *)
Synthetize ==
  /\ publishing = << >>
  /\ last_seq_num_ < Len(log)
  /\ last_seq_num_' = last_seq_num_ + 1
  /\ UNCHANGED <<log, flushed, wire, publishing, inboundVars, consumer, faults,
                 snapshotFaults, stale, disordered, high, heard>>

(* The i-th order id of a book.                                            *)
Nth(book, i) == CHOOSE x \in book : Cardinality({y \in book : y < x}) = i - 1

(* Mutant: a number is skipped before SNAPSHOT_END.                        *)
SnapshotMessage_EndSkipsOne(book, last, n) ==
  CASE n = 0                            -> Message(0, "SNAPSHOT_START", last)
    [] n = 1                            -> Message(1, "CLEAR", 0)
    [] n \in 2 .. Cardinality(book) + 1 -> Message(n, "ADD", Nth(book, n - 1))
    [] n = Cardinality(book) + 2        -> Message(n + 1, "SNAPSHOT_END", last)

(* Mutant: SNAPSHOT_END names the next update, not the last one included.  *)
SnapshotMessage_EndNamesNext(book, last, n) ==
  CASE n = 0                            -> Message(0, "SNAPSHOT_START", last)
    [] n = 1                            -> Message(1, "CLEAR", 0)
    [] n \in 2 .. Cardinality(book) + 1 -> Message(n, "ADD", Nth(book, n - 1))
    [] n = Cardinality(book) + 2        -> Message(n, "SNAPSHOT_END", last + 1)

(* Message n of publishSnapShot: the start, CLEAR, the orders, the end.    *)
SnapshotMessage(book, last, n) ==
  CASE n = 0                            -> Message(0, "SNAPSHOT_START", last)
    [] n = 1                            -> Message(1, "CLEAR", 0)
    [] n \in 2 .. Cardinality(book) + 1 -> Message(n, "ADD", Nth(book, n - 1))
    [] n = Cardinality(book) + 2        -> Message(n, "SNAPSHOT_END", last)

(* Its datagrams: send only fills a buffer, and the buffer leaves after    *)
(* each order and after SNAPSHOT_END, so the start and CLEAR leave with    *)
(* the message that follows them.                                          *)
SnapshotDatagrams(book, last) ==
  LET message(n) == SnapshotMessage(book, last, n)
  IN <<<<message(0), message(1), message(2)>>>>
       \o [i \in 1 .. Cardinality(book) |-> <<message(i + 2)>>]

(* The synthetizer finds its queue empty and its timer expired: it starts  *)
(* publishSnapShot.  The timer says no more than that this happens again   *)
(* and again.                                                              *)
PublishSnapshot ==
  /\ publishing = << >>
  /\ last_seq_num_ = Len(log)
  /\ publishing' = SnapshotDatagrams(BookAfter(last_seq_num_), last_seq_num_)
  /\ UNCHANGED <<exchangeVars, wire, inboundVars, consumer, faults, snapshotFaults, stale, disordered, high, heard>>

----------------------------------------------------------------------------
(* The consumer.                                                           *)

startSnapshotSync(c) == [c EXCEPT !.snapshot = NoMessages, !.incremental = NoMessages]

Put(map, m) == [n \in DOMAIN map \cup {m.seq_num_} |-> IF n = m.seq_num_ THEN m ELSE map[n]]

(* The numbers of `map' from `from' on are without a gap.                  *)
Gapless(map, from) ==
  LET N == {n \in DOMAIN map : n >= from} IN N = from .. from + Cardinality(N) - 1

(* The first number from `from' on that is not in `map'.                   *)
FirstMissing(map, from) ==
  CHOOSE n \in from .. from + Cardinality(DOMAIN map) :
    /\ n \notin DOMAIN map
    /\ \A i \in from .. n - 1 : i \in DOMAIN map

(* The messages of a gapless `map' from `from' on, in order.               *)
InOrder(map, from) ==
  [i \in 1 .. Cardinality({n \in DOMAIN map : n >= from}) |-> map[from + i - 1]]

(* Try to rebuild the book from the queued snapshot and the incremental    *)
(* updates after it.  A snapshot that does not start with SNAPSHOT_START   *)
(* or has a gap is thrown away; without SNAPSHOT_END, wait for the rest.   *)
checkSnapshotSync(c) ==
  LET S      == c.snapshot
      drop   == [c EXCEPT !.snapshot = NoMessages]
      whole  == DOMAIN S = 0 .. Cardinality(DOMAIN S) - 1
      last   == S[Cardinality(DOMAIN S) - 1]
      from   == last.order_id_ + 1
      next   == FirstMissing(c.incremental, from)
  IN
  CASE DOMAIN S = {}                                        -> c
    [] DOMAIN S # {} /\ ~(whole /\ S[0].type_ = "SNAPSHOT_START") -> drop
    [] DOMAIN S # {} /\ whole /\ S[0].type_ = "SNAPSHOT_START" ->
         IF last.type_ # "SNAPSHOT_END" THEN c
         ELSE IF ~Gapless(c.incremental, from)
         THEN [drop EXCEPT !.exp_seq_num_ = next]
         ELSE [exp_seq_num_ |-> next, packet_lost_ |-> FALSE,
               snapshot |-> NoMessages, incremental |-> NoMessages,
               book |-> FoldLeft(ApplyUpdate, c.book,
                                 InOrder(S, 0) \o InOrder(c.incremental, from))]

(* Mutant: incremental messages are not kept while in recovery.            *)
queueMessage_DropIncremental(c, m) ==
  checkSnapshotSync(
    IF ~is_snapshot THEN c
    ELSE IF m.seq_num_ \in DOMAIN c.snapshot
    THEN [c EXCEPT !.snapshot = Put(NoMessages, m)]
    ELSE [c EXCEPT !.snapshot = Put(@, m)])

(* Queue a message while in recovery; the first message of a snapshot      *)
(* number seen a second time starts the queue afresh.                      *)
queueMessage(c, m) ==
  checkSnapshotSync(
    IF ~is_snapshot THEN [c EXCEPT !.incremental = Put(@, m)]
    ELSE IF m.seq_num_ \in DOMAIN c.snapshot
    THEN [c EXCEPT !.snapshot = Put(NoMessages, m)]
    ELSE [c EXCEPT !.snapshot = Put(@, m)])

(* Mutant: the sequence number of a message is not looked at.              *)
receiveMessage_AnyNumber(c, m) ==
  IF ~is_snapshot
  THEN [c EXCEPT !.exp_seq_num_ = @ + 1, !.book = ApplyUpdate(@, m)]
  ELSE c

(* One iteration of the loop of recvCallbacks.                             *)
receiveMessage(c, m) ==
  IF c.packet_lost_ THEN queueMessage(c, m)
  ELSE IF m.seq_num_ # c.exp_seq_num_
  THEN queueMessage([startSnapshotSync(c) EXCEPT !.packet_lost_ = TRUE], m)
  ELSE IF ~is_snapshot
  THEN [c EXCEPT !.exp_seq_num_ = @ + 1, !.book = ApplyUpdate(@, m)]
  ELSE c

Without(s, i) == SubSeq(s, 1, i - 1) \o SubSeq(s, i + 1, Len(s))

(* The incremental socket receives datagram i of those under way; one that *)
(* is not the oldest has overtaken others, and a duplicate stays under way.*)
ReceiveIncremental(i, duplicate) ==
  LET disorder == i > 1 \/ duplicate IN
  /\ inbound = << >>
  /\ disorder => faults < MaxFaults
  /\ faults' = IF disorder THEN faults + 1 ELSE faults
  /\ inbound' = SubSeq(log, wire[i][1], wire[i][2])
  /\ is_snapshot' = FALSE
  /\ wire' = IF duplicate THEN wire ELSE Without(wire, i)
  /\ stale' = (stale \/ disorder)
  /\ heard' = IF wire[i][2] > heard THEN wire[i][2] ELSE heard
  /\ UNCHANGED <<exchangeVars, publishing, consumer, snapshotFaults, disordered, high>>

LoseIncremental(i) ==
  /\ faults < MaxFaults
  /\ faults' = faults + 1
  /\ wire' = Without(wire, i)
  /\ UNCHANGED <<exchangeVars, publishing, inboundVars, consumer, snapshotFaults, stale, disordered, high, heard>>

(* The next datagram of a snapshot is sent, and received if the snapshot   *)
(* socket is open, which it is only in recovery.                           *)
SendSnapshot ==
  /\ publishing # << >>
  /\ inbound = << >>
  /\ IF consumer.packet_lost_
     THEN inbound' = Head(publishing) /\ is_snapshot' = TRUE
     ELSE UNCHANGED inboundVars
  /\ publishing' = Tail(publishing)
  /\ UNCHANGED <<exchangeVars, wire, consumer, faults, snapshotFaults, stale, disordered, high, heard>>

LoseSnapshot ==
  /\ publishing # << >>
  /\ consumer.packet_lost_
  /\ snapshotFaults < MaxSnapshotFaults
  /\ snapshotFaults' = snapshotFaults + 1
  /\ publishing' = Tail(publishing)
  /\ UNCHANGED <<exchangeVars, wire, inboundVars, consumer, faults, stale, disordered, high, heard>>

(* Datagram i of what is still to come of the snapshot is received before  *)
(* its turn, or it is received now and once more later.  All of a snapshot *)
(* has arrived or is lost when the next one begins, a minute later.        *)
DisorderSnapshot(i, duplicate) ==
  /\ i > 1 \/ duplicate
  /\ consumer.packet_lost_
  /\ inbound = << >>
  /\ snapshotFaults < MaxSnapshotFaults
  /\ snapshotFaults' = snapshotFaults + 1
  /\ disordered' = TRUE
  /\ inbound' = publishing[i]
  /\ is_snapshot' = TRUE
  /\ publishing' = IF duplicate THEN publishing ELSE Without(publishing, i)
  /\ UNCHANGED <<exchangeVars, wire, consumer, faults, stale, high, heard>>

(* recvCallbacks handles the next message of the datagram.                 *)
HandleMessage ==
  /\ inbound # << >>
  /\ consumer' = receiveMessage(consumer, Head(inbound))
  /\ inbound' = Tail(inbound)
  /\ high' = IF consumer'.packet_lost_ \/ consumer'.exp_seq_num_ < high
             THEN high ELSE consumer'.exp_seq_num_
  /\ UNCHANGED <<exchangeVars, wire, publishing, is_snapshot, faults, snapshotFaults, stale, disordered, heard>>

Next ==
  \/ Number \/ Flush \/ Synthetize \/ PublishSnapshot \/ SendSnapshot \/ LoseSnapshot
  \/ HandleMessage
  \/ \E i \in 1 .. Len(wire), duplicate \in BOOLEAN : ReceiveIncremental(i, duplicate)
  \/ \E i \in 1 .. Len(wire) : LoseIncremental(i)
  \/ \E i \in 1 .. Len(publishing), duplicate \in BOOLEAN : DisorderSnapshot(i, duplicate)

(* The publisher, the synthetizer and the consumer go round their loops,   *)
(* and a datagram that is not lost arrives.  Nothing makes the matching    *)
(* engine send a further update.                                           *)
Fairness ==
  /\ WF_vars(Flush)
  /\ WF_vars(Synthetize)
  /\ WF_vars(PublishSnapshot)
  /\ WF_vars(SendSnapshot)
  /\ WF_vars(wire # << >> /\ ReceiveIncremental(1, FALSE))
  /\ WF_vars(HandleMessage)

Spec == Init /\ [][Next]_vars /\ Fairness

----------------------------------------------------------------------------
(* Properties.                                                             *)

Messages == [seq_num_ : 0 .. MaxUpdates + 2,
             type_ : {"ADD", "CANCEL", "CLEAR", "SNAPSHOT_START", "SNAPSHOT_END"},
             order_id_ : 0 .. MaxUpdates]

(* The numbers that the exchange and the consumer keep stay in their       *)
(* ranges: in particular recovery never makes the consumer expect a number *)
(* beyond the next update (checkSnapshotSync).                             *)
TypeOK ==
  /\ Len(log) <= MaxUpdates /\ \A n \in 1 .. Len(log) : log[n] \in Messages
  /\ last_seq_num_ <= Len(log) /\ flushed <= Len(log)
  /\ consumer.exp_seq_num_ \in 1 .. Len(log) + 1
  /\ consumer.packet_lost_ \in BOOLEAN
  /\ \A n \in DOMAIN consumer.snapshot : consumer.snapshot[n] \in Messages
  /\ \A n \in DOMAIN consumer.incremental : consumer.incremental[n] \in Messages
  /\ consumer.book \subseteq 1 .. MaxUpdates
  /\ stale \in BOOLEAN /\ disordered \in BOOLEAN
  /\ high \in 1 .. Len(log) + 1 /\ heard \in 0 .. flushed

(* What recovery rests on, the strengthening of TypeOK, InStep and         *)
(* NoRollback.  Numbers are those of the log, and unless the network has   *)
(* reordered, what is under way comes after what has been heard.           *)
StreamInv ==
  /\ log \in Seq(Messages) /\ Len(log) <= MaxUpdates
  /\ \A n \in 1 .. Len(log) : /\ log[n].seq_num_ = n /\ log[n].type_ \in {"ADD", "CANCEL"}
                             /\ log[n].order_id_ \in 1 .. n
  /\ flushed \in 0 .. Len(log) /\ last_seq_num_ \in 0 .. Len(log) /\ heard \in 0 .. flushed
  /\ wire \in Seq(Nat \X Nat)
  /\ \A i \in 1 .. Len(wire) : wire[i][1] >= 1 /\ wire[i][2] \in 1 .. flushed
  /\ stale \in BOOLEAN /\ snapshotFaults \in Nat
  /\ ~stale => \A i \in 1 .. Len(wire) :
                 /\ heard < wire[i][1] /\ wire[i][1] <= wire[i][2]
                 /\ \A j \in 1 .. i - 1 : wire[j][2] < wire[i][1]

(* Message n, and the number of the last message, of the snapshot after    *)
(* the first `last' updates.                                               *)
Part(last, n) == SnapshotMessage(BookAfter(last), last, n)
EndOf(last)   == Cardinality(BookAfter(last)) + 2

(* What is still to be sent is the rest of one snapshot.                   *)
PublishingInv ==
  LET all == SnapshotDatagrams(BookAfter(last_seq_num_), last_seq_num_) IN
  /\ publishing \in Seq(Seq(Messages)) /\ Len(publishing) <= Len(all)
  /\ \A i \in 1 .. Len(publishing) : publishing[i] = all[Len(all) - Len(publishing) + i]

(* The number that comes next of what is still to be sent.                 *)
NextNumber == publishing[1][1].seq_num_

(* What is still to be sent goes on after number n of the snapshot after   *)
(* `last' updates, or it shows that something was lost in between.         *)
GoesOn(last, n) ==
  \/ publishing # << >> /\ last = last_seq_num_ /\ NextNumber = n + 1
  \/ snapshotFaults > 0 /\ (publishing = << >> \/ NextNumber = 0 \/ NextNumber > n + 1)

(* How much a snapshot must include to be as new as what was shown: all of *)
(* it, unless the incremental stream cannot be joined to an older one.     *)
Floor ==
  LET I == DOMAIN consumer.incremental IN
  IF consumer.packet_lost_ /\ ~stale /\ ~(I # {} /\ \A n \in I : n > high) THEN high - 1 ELSE 0

(* The consumer has queued the beginning of a snapshot, up to q.           *)
Queued(last, q) ==
  /\ DOMAIN consumer.snapshot = 0 .. q /\ q < EndOf(last)
  /\ \A n \in 0 .. q : consumer.snapshot[n] = Part(last, n)

(* A datagram of a snapshot is being handled, from message First on.       *)
Handling == is_snapshot /\ inbound # << >>
First    == inbound[1].seq_num_

HandlingOf(last) ==
  LET end == First + Len(inbound) - 1 IN
  /\ First >= 0 /\ end <= EndOf(last)
  /\ \A i \in 1 .. Len(inbound) : inbound[i] = Part(last, First + i - 1)
  /\ end = EndOf(last) \/ GoesOn(last, end)

(* What is queued does not go on with what is being handled, and the       *)
(* numbers show it.                                                        *)
Broken ==
  /\ snapshotFaults > 0
  /\ \E last \in Floor .. last_seq_num_, q \in 0 .. MaxUpdates + 1 :
       Queued(last, q) /\ (First = 0 \/ First > q + 1)

(* The last incremental number that the consumer has handled.              *)
Handled == IF is_snapshot THEN heard ELSE heard - Len(inbound)

InboundInv ==
  /\ inbound \in Seq(Messages) /\ is_snapshot \in BOOLEAN
  /\ ~is_snapshot => \A i \in 1 .. Len(inbound) :
                       /\ inbound[i].seq_num_ \in 1 .. flushed
                       /\ inbound[i] = log[inbound[i].seq_num_]
                       /\ ~stale => inbound[i].seq_num_ = Handled + i
  /\ Handling =>
       /\ consumer.packet_lost_
       /\ \E last \in Floor .. last_seq_num_ :
            /\ HandlingOf(last)
            /\ \/ DOMAIN consumer.snapshot = {}
               \/ First > 0 /\ Queued(last, First - 1)
               \/ Broken
  /\ ~Handling =>
       \/ DOMAIN consumer.snapshot = {}
       \/ \E last \in Floor .. last_seq_num_, q \in 0 .. MaxUpdates + 1 :
            Queued(last, q) /\ GoesOn(last, q)

(* The consumer itself: in recovery it keeps updates of the log, in step   *)
(* it has the book of the log.                                             *)
ConsumerInv ==
  /\ consumer = [exp_seq_num_ |-> consumer.exp_seq_num_, packet_lost_ |-> consumer.packet_lost_,
                 snapshot |-> consumer.snapshot, incremental |-> consumer.incremental,
                 book |-> consumer.book]
  /\ consumer.exp_seq_num_ \in 1 .. Len(log) + 1 /\ high \in 1 .. Len(log) + 1
  /\ consumer.packet_lost_ \in BOOLEAN /\ consumer.book \subseteq 1 .. MaxUpdates
  /\ \A n \in DOMAIN consumer.incremental : n \in 1 .. Len(log) /\ consumer.incremental[n] = log[n]
  /\ consumer.packet_lost_ =>
       /\ Floor <= last_seq_num_
       /\ ~stale => \A n \in DOMAIN consumer.incremental : n <= Handled
  /\ ~consumer.packet_lost_ =>
       /\ consumer.book = BookAfter(consumer.exp_seq_num_ - 1)
       /\ DOMAIN consumer.snapshot = {}
       /\ ~stale => /\ consumer.exp_seq_num_ = high
                    /\ high - 1 <= Handled \/ high - 1 <= last_seq_num_

(* The inductive invariant of recovery (recvCallbacks, queueMessage,       *)
(* checkSnapshotSync, publishSnapShot): what the consumer has queued, what *)
(* it is handling and what is still to be sent are parts of one snapshot,  *)
(* or their numbers show the gap.                                          *)
SyncInv == StreamInv /\ PublishingInv /\ InboundInv /\ ConsumerInv

(* The parts of a snapshot are consecutive only while the network has kept *)
(* their order (publishSnapShot sends them in it): SyncInv holds until a   *)
(* snapshot datagram is duplicated or overtaken.                           *)
RecoveryInv == disordered \in BOOLEAN /\ (~disordered => SyncInv)

(* A consumer that is in step has exactly the engine's book as of the last *)
(* update it took, whatever was lost or overtaken on the way there.        *)
InStep == ~consumer.packet_lost_ => consumer.book = BookAfter(consumer.exp_seq_num_ - 1)

(* Recovery never takes the consumer back to an older book than it has     *)
(* already shown to the trade engine, unless the network reorders.         *)
NoRollback == ~consumer.packet_lost_ /\ ~stale => consumer.exp_seq_num_ = high

(* A consumer that has seen a gap gets back in step, and then what has    *)
(* reached it of the incremental stream is in its book, if not from there  *)
(* then from a snapshot that includes it (recvCallbacks,                   *)
(* checkSnapshotSync).  Two limits are the code's: nothing shows it that   *)
(* the last datagrams of a busy period were lost, and once the network has *)
(* reordered or duplicated, a late old number sends it into recovery,      *)
(* where an older snapshot under way takes it back for good if no further  *)
(* update shows the gap.                                                   *)
CatchesUp == []<>(~consumer.packet_lost_ /\ (stale \/ consumer.exp_seq_num_ > heard))
============================================================================
