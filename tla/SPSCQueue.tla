----------------------------- MODULE SPSCQueue -----------------------------
(***************************************************************************)
(* The lock-free ring buffer of include/utils/spsc_queue.hpp between one   *)
(* writer thread and one reader thread, at the grain of its atomic         *)
(* accesses, as its users drive it: Logger::pushVal and                    *)
(* Logger::flushQueue with its destructor (include/utils/logger.hpp), and  *)
(* MarketDataPublisher::run, which releases a slot before it copies it     *)
(* (src/exchange/market_data_publisher.cpp).                               *)
(*                                                                         *)
(* The i-th value written is the number i.  Whether the queue is empty is  *)
(* told by two variables that are not updated together, an index and       *)
(* num_elements; a slot is written and read without any lock.              *)
(***************************************************************************)
EXTENDS Integers, Sequences

CONSTANTS
  Capacity,     \* store_.size()
  MaxWrites     \* bound: how many values are ever written

ASSUME CapacityAssumption == Capacity \in Nat \ {0}
ASSUME WritesAssumption   == MaxWrites \in Nat

Slots == 0 .. Capacity - 1

VARIABLES
  store_, next_read_idx, next_write_idx, num_elements,
  writer, reader,   \* where the two threads are
  written,          \* how many values the writer has stored
  out,              \* the values the reader has taken, in order
  release_first,    \* does the reader release a slot before it copies it?
  slot,             \* the slot the reader got a pointer to
  owner,            \* where the Logger's destructor is
  running,          \* the Logger's flag for its reader
  overrun           \* history: has a writer that does not look begun a write too far ahead?

queueVars == <<store_, next_read_idx, next_write_idx, num_elements>>
vars == <<queueVars, writer, reader, written, out, release_first, slot, owner, running,
          overrun>>

Init ==
  /\ store_ = [s \in Slots |-> 0]
  /\ next_read_idx = 0
  /\ next_write_idx = 0
  /\ num_elements = 0
  /\ writer = "ready"
  /\ reader = "running?"
  /\ written = 0
  /\ out = << >>
  /\ release_first \in BOOLEAN
  /\ slot = 0
  /\ owner = "using"
  /\ running = TRUE
  /\ overrun = FALSE

----------------------------------------------------------------------------
(* The writer.                                                             *)

(* The write that begins would leave no slot of the queue free.            *)
TooFarAhead == release_first /\ num_elements >= Capacity - 1

(* Mutant: a write does not wait for room.                                 *)
HasRoom_DoNotWait ==
  /\ writer = "ready"
  /\ written < MaxWrites
  /\ writer' = "store"
  /\ overrun' = (overrun \/ TooFarAhead)
  /\ UNCHANGED <<queueVars, reader, written, out, release_first, slot, owner, running>>

(* Mutant: a write waits only while the queue is more than full.           *)
HasRoom_OneMore ==
  /\ writer = "ready"
  /\ written < MaxWrites
  /\ release_first \/ num_elements <= Capacity
  /\ writer' = "store"
  /\ overrun' = (overrun \/ TooFarAhead)
  /\ UNCHANGED <<queueVars, reader, written, out, release_first, slot, owner, running>>

(* The Logger's loop before a write: while(size() >= queueCapacity) sleep. *)
(* The writer of the publisher's queue, the matching engine, writes        *)
(* without looking, however far ahead of its reader it is.                 *)
HasRoom ==
  /\ writer = "ready"
  /\ written < MaxWrites
  /\ release_first \/ num_elements < Capacity
  /\ writer' = "store"
  /\ overrun' = (overrun \/ TooFarAhead)
  /\ UNCHANGED <<queueVars, reader, written, out, release_first, slot, owner, running>>

(* getNextWrite() and the assignment through its reference.                *)
StoreValue ==
  /\ writer = "store"
  /\ store_' = [store_ EXCEPT ![next_write_idx] = written + 1]
  /\ written' = written + 1
  /\ writer' = "advance"
  /\ UNCHANGED <<next_read_idx, next_write_idx, num_elements, reader, out,
                 release_first, slot, owner, running, overrun>>

(* updateNextWrite(), its two atomic updates.                              *)
AdvanceWrite ==
  /\ writer = "advance"
  /\ next_write_idx' = (next_write_idx + 1) % Capacity
  /\ writer' = "count"
  /\ UNCHANGED <<store_, next_read_idx, num_elements, reader, written, out,
                 release_first, slot, owner, running, overrun>>

CountWrite ==
  /\ writer = "count"
  /\ num_elements' = num_elements + 1
  /\ writer' = "ready"
  /\ UNCHANGED <<store_, next_read_idx, next_write_idx, reader, written, out,
                 release_first, slot, owner, running, overrun>>

Writer == HasRoom \/ StoreValue \/ AdvanceWrite \/ CountWrite

----------------------------------------------------------------------------
(* The reader.                                                             *)

readerRest == <<store_, next_write_idx, writer, written, release_first, owner, running,
                overrun>>

(* while(running), before each pass over the queue.                        *)
SeeRunning ==
  /\ reader = "running?"
  /\ reader' = IF running THEN "empty?" ELSE "stopped"
  /\ UNCHANGED <<readerRest, next_read_idx, num_elements, out, slot>>

(* getNextRead(), its first test: nullptr, and with it the end of the      *)
(* pass, when the count is 0 ...                                           *)
SeeCount ==
  /\ reader = "empty?"
  /\ reader' = IF num_elements = 0 THEN "running?" ELSE "indexes?"
  /\ UNCHANGED <<readerRest, next_read_idx, num_elements, out, slot>>

(* Mutant: the pointer is to the slot behind the one to be read.           *)
SeeIndexes_NextSlot ==
  /\ reader = "indexes?"
  /\ IF next_read_idx = next_write_idx
     THEN reader' = "running?" /\ UNCHANGED slot
     ELSE /\ reader' = (IF release_first THEN "advance" ELSE "copy")
          /\ slot' = (next_read_idx + 1) % Capacity
  /\ UNCHANGED <<readerRest, next_read_idx, num_elements, out>>

(* ... its second test: nullptr also when the two indexes are equal.       *)
SeeIndexes ==
  /\ reader = "indexes?"
  /\ IF next_read_idx = next_write_idx
     THEN reader' = "running?" /\ UNCHANGED slot
     ELSE reader' = (IF release_first THEN "advance" ELSE "copy") /\ slot' = next_read_idx
  /\ UNCHANGED <<readerRest, next_read_idx, num_elements, out>>

(* Use the value behind the pointer.                                       *)
CopyValue ==
  /\ reader = "copy"
  /\ out' = Append(out, store_[slot])
  /\ reader' = IF release_first THEN "empty?" ELSE "advance"
  /\ UNCHANGED <<readerRest, next_read_idx, num_elements, slot>>

(* updateNextRead(), its two atomic updates.                               *)
AdvanceRead ==
  /\ reader = "advance"
  /\ next_read_idx' = (next_read_idx + 1) % Capacity
  /\ reader' = "count"
  /\ UNCHANGED <<readerRest, num_elements, out, slot>>

(* Mutant: num_elements is not counted down.                               *)
CountRead_Forgotten ==
  /\ reader = "count"
  /\ reader' = IF release_first THEN "copy" ELSE "empty?"
  /\ UNCHANGED <<readerRest, next_read_idx, num_elements, out, slot>>

CountRead ==
  /\ reader = "count"
  /\ num_elements' = num_elements - 1
  /\ reader' = IF release_first THEN "copy" ELSE "empty?"
  /\ UNCHANGED <<readerRest, next_read_idx, out, slot>>

Reader == SeeRunning \/ SeeCount \/ SeeIndexes \/ CopyValue \/ AdvanceRead \/ CountRead

----------------------------------------------------------------------------
(* ~Logger(), called by the thread that writes, after its last write.      *)
ownerRest == <<queueVars, writer, reader, written, out, release_first, slot, overrun>>

BeginClose ==
  /\ ~release_first
  /\ owner = "using"
  /\ writer = "ready"
  /\ written = MaxWrites
  /\ owner' = "draining"
  /\ UNCHANGED <<ownerRest, running>>

(* Mutant: the destructor does not wait for the queue to be empty.         *)
SeeDrained_DoNotWait ==
  /\ owner = "draining"
  /\ running' = FALSE
  /\ owner' = "joining"
  /\ UNCHANGED ownerRest

(* while(!loggerQueue.empty()) sleep; running = false                      *)
SeeDrained ==
  /\ owner = "draining"
  /\ num_elements = 0
  /\ running' = FALSE
  /\ owner' = "joining"
  /\ UNCHANGED ownerRest

Join ==
  /\ owner = "joining"
  /\ reader = "stopped"
  /\ owner' = "closed"
  /\ UNCHANGED <<ownerRest, running>>

Closed == owner = "closed" /\ UNCHANGED vars

Owner == BeginClose \/ SeeDrained \/ Join

Next == Writer \/ Reader \/ Owner \/ Closed

(* Each of the threads runs on; waiting is a loop that polls.              *)
Spec == Init /\ [][Next]_vars /\ WF_vars(Writer) /\ WF_vars(Reader) /\ WF_vars(Owner)

----------------------------------------------------------------------------
(* Properties.                                                             *)

(* Types of the queue's and the threads' state; above all num_elements, a  *)
(* size_t in SPSCQueue, is never negative, and never beyond the capacity   *)
(* unless a writer that does not look has gone too far ahead.              *)
TypeOK ==
  /\ store_ \in [Slots -> 0 .. MaxWrites]
  /\ next_read_idx \in Slots /\ next_write_idx \in Slots /\ slot \in Slots
  /\ num_elements \in 0 .. MaxWrites /\ (overrun \/ num_elements <= Capacity)
  /\ writer \in {"ready", "store", "advance", "count"}
  /\ reader \in {"running?", "empty?", "indexes?", "copy", "advance", "count", "stopped"}
  /\ written \in 0 .. MaxWrites /\ Len(out) <= MaxWrites
  /\ release_first \in BOOLEAN /\ running \in BOOLEAN /\ overrun \in BOOLEAN
  /\ owner \in {"using", "draining", "joining", "closed"}

(* The reader takes the values the writer wrote, each once and in order:   *)
(* nothing is lost, repeated, overtaken or overwritten before it is read.  *)
HandedOver == \A i \in 1 .. Len(out) : out[i] = i

(* So it is for the Logger's queue, whose writer waits for room, and for   *)
(* the publisher's as long as the engine, which does not, has never begun  *)
(* a write with all slots but one still counted as waiting.                *)
InOrder == overrun \/ HandedOver

(* The two threads never touch the same slot at the same time, whether the *)
(* reader copies the value before updateNextRead() or after it, as long as *)
(* the writer that does not look has never begun such a write.             *)
NoRace == overrun \/ ~(writer = "store" /\ reader = "copy" /\ slot = next_write_idx)

(* When ~Logger() returns, everything logged has been printed.             *)
FlushedOnClose == owner = "closed" => Len(out) = MaxWrites

(* How many values the two threads have passed on, by their index and by   *)
(* the count; between the two atomic updates of updateNextWrite() and of   *)
(* updateNextRead() these differ.                                          *)
WrittenByIndex == IF writer = "advance" THEN written - 1 ELSE written
WrittenByCount == IF writer \in {"advance", "count"} THEN written - 1 ELSE written

ReadByIndex == IF release_first
               THEN IF reader \in {"count", "copy"} THEN Len(out) + 1 ELSE Len(out)
               ELSE IF reader = "advance" THEN Len(out) - 1 ELSE Len(out)
ReadByCount == IF release_first
               THEN IF reader = "copy" THEN Len(out) + 1 ELSE Len(out)
               ELSE IF reader \in {"advance", "count"} THEN Len(out) - 1 ELSE Len(out)

(* The slot of the value at a position, counted from 0.                    *)
SlotOf(i) == i % Capacity

(* The indexes are the positions of the two threads modulo the capacity,   *)
(* and num_elements is the distance of what both have counted.             *)
PositionsInv ==
  /\ WrittenByCount \in Nat /\ ReadByCount \in Nat
  /\ next_write_idx = SlotOf(WrittenByIndex)
  /\ next_read_idx = SlotOf(ReadByIndex)
  /\ num_elements = WrittenByCount - ReadByCount
  /\ ReadByIndex <= WrittenByIndex
  /\ writer = "store" => written < MaxWrites

(* What getNextRead()'s two tests have shown still holds when the reader   *)
(* acts on it: nobody else takes from the queue.                           *)
ReaderInv ==
  /\ \/ reader \in {"indexes?", "advance", "count"}
     \/ reader = "copy" /\ ~release_first
     => num_elements > 0
  /\ reader = "advance" \/ (reader = "copy" /\ ~release_first)
     => ReadByIndex < WrittenByIndex
  /\ reader = "copy" \/ (release_first /\ reader \in {"advance", "count"})
     => slot = SlotOf(Len(out))

(* Unless it has gone too far ahead, the writer is never a whole round     *)
(* beyond what has been released, and every slot between the reader and    *)
(* the writer holds its value.                                             *)
ContentsInv ==
  \/ overrun
  \/ /\ written - ReadByCount <= (IF release_first THEN Capacity - 1 ELSE Capacity)
                                    - (IF writer = "store" THEN 1 ELSE 0)
     /\ \A i \in Len(out) + 1 .. written : store_[SlotOf(i - 1)] = i

(* The Logger's writer looks; its destructor moves on when nothing is      *)
(* counted, and nothing comes after it.                                    *)
CloseInv ==
  /\ overrun => release_first
  /\ owner # "using" => ~release_first /\ writer = "ready" /\ written = MaxWrites
  /\ owner \in {"joining", "closed"} => num_elements = 0
  /\ owner = "closed" => reader = "stopped"

(* The inductive invariant of the queue, at every interleaving of the      *)
(* atomic accesses of SPSCQueue's two threads and the Logger's destructor. *)
QueueInv ==
  /\ TypeOK /\ out \in Seq(Nat) /\ InOrder
  /\ PositionsInv /\ ReaderInv /\ ContentsInv /\ CloseInv

(* ~Logger(), which waits for the queue to be empty, returns; unless       *)
(* pushVal has filled the queue to its last slot, when its indexes are     *)
(* equal and getNextRead() takes it for empty: then it is full for ever of *)
(* lines that are never printed.                                           *)
Closes ==
  \/ release_first
  \/ <>(owner = "closed")
  \/ <>[](num_elements = Capacity /\ written - Len(out) = Capacity)
============================================================================
