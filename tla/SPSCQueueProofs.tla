-------------------------- MODULE SPSCQueueProofs --------------------------
(***************************************************************************)
(* The ring buffer keeps its values in order and its two threads apart at  *)
(* every interleaving of their atomic accesses, for every capacity and any *)
(* number of values: the Logger's queue always, the publisher's until the  *)
(* engine, which does not look, begins a write too far ahead (overrun).    *)
(***************************************************************************)
EXTENDS SPSCQueue, TLAPS

----------------------------------------------------------------------------
(* Positions modulo the capacity.                                          *)

LEMMA DivMod ==
  ASSUME NEW a \in Nat
  PROVE  /\ a % Capacity \in Slots /\ a \div Capacity \in Int
         /\ a = (Capacity * (a \div Capacity)) + (a % Capacity)
<1>1. a % Capacity \in 0 .. Capacity - 1
  BY CapacityAssumption, Z3
<1>2. a \div Capacity \in Int
  BY CapacityAssumption, Z3
<1>3. a = (Capacity * (a \div Capacity)) + (a % Capacity)
  BY CapacityAssumption, Z3
<1>. QED
  BY <1>1, <1>2, <1>3 DEF Slots

LEMMA RoundsApart ==
  ASSUME NEW x \in Int, NEW y \in Int, x < y
  PROVE  Capacity * y >= Capacity * x + Capacity
<1>1. y >= x + 1
  OBVIOUS
<1>. QED
  BY <1>1, CapacityAssumption, Z3

(* A position is its round and its slot in only one way.                   *)
LEMMA SlotIsUnique ==
  ASSUME NEW q1 \in Int, NEW q2 \in Int, NEW r1 \in Slots, NEW r2 \in Slots,
         Capacity * q1 + r1 = Capacity * q2 + r2
  PROVE  r1 = r2
<1>. USE CapacityAssumption DEF Slots
<1>1. ~(q1 < q2)
  BY RoundsApart
<1>2. ~(q2 < q1)
  BY RoundsApart
<1>. QED
  BY <1>1, <1>2

LEMMA FirstSlot == SlotOf(0) = 0
BY CapacityAssumption, DivMod, RoundsApart DEF Slots, SlotOf

(* An index that is moved on (updateNextWrite, updateNextRead) is the slot *)
(* of the next position.                                                   *)
LEMMA NextSlot ==
  ASSUME NEW a \in Nat
  PROVE  (SlotOf(a) + 1) % Capacity = SlotOf(a + 1)
<1>. DEFINE q == a \div Capacity
            r == a % Capacity
            p == (a + 1) \div Capacity
            t == (a + 1) % Capacity
<1>. SUFFICES (r + 1) % Capacity = t
  BY DEF SlotOf
<1>1. /\ Capacity \in Nat /\ Capacity > 0
      /\ r \in 0 .. Capacity - 1 /\ q \in Int /\ a = (Capacity * q) + r
      /\ t \in 0 .. Capacity - 1 /\ p \in Int /\ a + 1 = (Capacity * p) + t
  BY CapacityAssumption, DivMod DEF Slots
<1>2. CASE r + 1 < Capacity
  <2>1. t = r + 1
    <3>1. r + 1 \in Slots /\ t \in Slots
      BY <1>1, <1>2 DEF Slots
    <3>2. Capacity * q + (r + 1) = Capacity * p + t
      BY <1>1
    <3>. HIDE DEF q, r, p, t
    <3>. QED
      BY <1>1, <3>1, <3>2, SlotIsUnique
  <2>2. (r + 1) % Capacity = r + 1
    <3>. DEFINE u == (r + 1) % Capacity
                v == (r + 1) \div Capacity
    <3>1. /\ u \in Slots /\ v \in Int /\ r + 1 = Capacity * v + u
          /\ r + 1 \in Slots /\ Capacity * 0 + (r + 1) = r + 1
      <4>. HIDE DEF r
      <4>. QED
        BY <1>1, <1>2, DivMod DEF Slots
    <3>. HIDE DEF u, v, r
    <3>2. u = r + 1
      BY <3>1, SlotIsUnique
    <3>. QED
      BY <3>2 DEF u
  <2>. QED
    BY <2>1, <2>2
<1>3. CASE r + 1 = Capacity
  <2>1. t = 0
    <3>1. 0 \in Slots /\ t \in Slots /\ q + 1 \in Int
      BY <1>1 DEF Slots
    <3>2. Capacity * (q + 1) = Capacity * q + Capacity
      <4>. HIDE DEF q
      <4>. QED
        BY <1>1, Z3
    <3>3. Capacity * (q + 1) + 0 = Capacity * p + t
      <4>. HIDE DEF q, p, t, r
      <4>. QED
        BY <1>1, <1>3, <3>2
    <3>. HIDE DEF q, r, p, t
    <3>. QED
      BY <1>1, <3>1, <3>3, SlotIsUnique
  <2>2. Capacity % Capacity = 0
    <3>. DEFINE u == Capacity % Capacity
                v == Capacity \div Capacity
    <3>1. /\ u \in Slots /\ v \in Int /\ 0 \in Slots /\ 1 \in Int
          /\ Capacity * 1 + 0 = Capacity * v + u
      BY <1>1, DivMod DEF Slots
    <3>. HIDE DEF u, v
    <3>2. u = 0
      BY <3>1, SlotIsUnique
    <3>. QED
      BY <3>2 DEF u
  <2>. QED
    BY <1>3, <2>1, <2>2
<1>. QED
  BY <1>1, <1>2, <1>3

(* Two positions less than a round apart have different slots.             *)
LEMMA SlotsDiffer ==
  ASSUME NEW a \in Nat, NEW b \in Nat, a < b, b - a < Capacity
  PROVE  SlotOf(a) # SlotOf(b)
<1>. DEFINE q == a \div Capacity
            p == b \div Capacity
<1>. SUFFICES ASSUME a % Capacity = b % Capacity PROVE FALSE
  BY DEF SlotOf
<1>1. /\ q \in Int /\ p \in Int /\ a % Capacity \in Int
      /\ Capacity * q \in Int /\ Capacity * p \in Int
      /\ a = (Capacity * q) + (a % Capacity) /\ b = (Capacity * p) + (a % Capacity)
  BY DivMod, CapacityAssumption DEF Slots
<1>. HIDE DEF q, p
<1>2. Capacity * q < Capacity * p
  BY <1>1
<1>3. q < p
  <2>1. ~(p < q)
    BY <1>1, <1>2, RoundsApart, CapacityAssumption
  <2>2. p # q
    BY <1>1, <1>2
  <2>. QED
    BY <1>1, <2>1, <2>2
<1>4. Capacity * p >= Capacity * q + Capacity
  BY <1>1, <1>3, RoundsApart
<1>. QED
  BY <1>1, <1>4, CapacityAssumption

LEMMA SlotsAreSlots ==
  ASSUME NEW a \in Nat
  PROVE  SlotOf(a) \in Slots
BY DivMod DEF SlotOf

----------------------------------------------------------------------------
(* The writer.                                                             *)

LEMMA InitInv == Init => QueueInv
<1>. SUFFICES ASSUME Init PROVE QueueInv
  OBVIOUS
<1>. USE CapacityAssumption, WritesAssumption DEF Init
<1>1. TypeOK /\ out \in Seq(Nat) /\ InOrder
  BY DEF TypeOK, InOrder, HandedOver, Slots
<1>2. PositionsInv
  BY FirstSlot DEF PositionsInv, WrittenByIndex, WrittenByCount, ReadByIndex, ReadByCount
<1>3. ReaderInv /\ ContentsInv /\ CloseInv
  BY DEF ReaderInv, ContentsInv, CloseInv, ReadByCount
<1>. QED
  BY <1>1, <1>2, <1>3 DEF QueueInv

(* The state an invariant's conjuncts talk about is numbers.               *)
LEMMA Numbers ==
  ASSUME QueueInv
  PROVE  /\ Capacity \in Nat /\ Capacity > 0 /\ MaxWrites \in Nat
         /\ written \in Nat /\ Len(out) \in Nat /\ num_elements \in Int
         /\ WrittenByIndex \in Nat /\ WrittenByCount \in Nat
         /\ ReadByIndex \in Nat /\ ReadByCount \in Nat
BY CapacityAssumption, WritesAssumption
   DEF QueueInv, TypeOK, PositionsInv, WrittenByIndex, WrittenByCount, ReadByIndex, ReadByCount

LEMMA HasRoomInv ==
  ASSUME QueueInv, HasRoom
  PROVE  QueueInv'
<1>. USE Numbers DEF QueueInv, HasRoom, queueVars
<1>1. /\ overrun' \in BOOLEAN /\ (overrun => overrun')
      /\ overrun' => overrun \/ TooFarAhead
      /\ TooFarAhead => overrun'
  <2>1. overrun' = (overrun \/ TooFarAhead)
    OBVIOUS
  <2>. QED
    BY <2>1, Zenon
<1>2. TypeOK' /\ out' \in Seq(Nat) /\ InOrder'
  BY <1>1 DEF TypeOK, InOrder, HandedOver
<1>3. /\ UNCHANGED <<WrittenByIndex, WrittenByCount, ReadByIndex, ReadByCount>>
      /\ WrittenByCount = written
  BY DEF WrittenByIndex, WrittenByCount, ReadByIndex, ReadByCount
<1>4. PositionsInv' /\ ReaderInv'
  BY <1>3 DEF PositionsInv, ReaderInv
<1>5. ContentsInv'
  <2>. SUFFICES ASSUME ~overrun' PROVE ContentsInv'
    BY DEF ContentsInv
  <2>1. ~overrun /\ num_elements < (IF release_first THEN Capacity - 1 ELSE Capacity)
    <3>1. ~overrun /\ ~TooFarAhead
      BY <1>1
    <3>. QED
      BY <3>1 DEF TooFarAhead
  <2>2. /\ written' = written /\ ReadByCount' = ReadByCount /\ writer' = "store"
        /\ UNCHANGED <<store_, out, release_first>>
    BY <1>3
  <2>3. /\ num_elements = written - ReadByCount
        /\ \A i \in Len(out) + 1 .. written : store_[SlotOf(i - 1)] = i
    BY <1>3, <2>1 DEF PositionsInv, ContentsInv
  <2>4. written' - ReadByCount' <= (IF release_first THEN Capacity - 1 ELSE Capacity) - 1
    <3>. DEFINE room == IF release_first THEN Capacity - 1 ELSE Capacity
    <3>1. room \in Int /\ num_elements < room
      BY <2>1
    <3>. HIDE DEF room
    <3>. QED
      BY <2>2, <2>3, <3>1 DEF room
  <2>. QED
    BY <2>2, <2>3, <2>4 DEF ContentsInv, SlotOf
<1>6. CloseInv'
  BY <1>1 DEF CloseInv, TooFarAhead
<1>. QED
  BY <1>2, <1>4, <1>5, <1>6

(* The slot that is written holds no value that is still to be taken.      *)
LEMMA StoreValueInv ==
  ASSUME QueueInv, StoreValue
  PROVE  QueueInv'
<1>1. /\ writer = "store" /\ writer' = "advance" /\ written' = written + 1
      /\ store_' = [store_ EXCEPT ![next_write_idx] = written + 1]
      /\ UNCHANGED <<next_read_idx, next_write_idx, num_elements, reader, out,
                     release_first, slot, owner, running, overrun>>
  BY DEF StoreValue
<1>2. /\ written < MaxWrites /\ written \in Nat /\ Len(out) \in Nat
      /\ Capacity \in Nat
      /\ ReadByCount \in Nat
      /\ next_write_idx = SlotOf(written) /\ next_write_idx \in Slots
      /\ store_ \in [Slots -> 0 .. MaxWrites]
  BY <1>1, Numbers, SlotsAreSlots
     DEF QueueInv, TypeOK, ContentsInv, PositionsInv, WrittenByIndex
<1>3. TypeOK' /\ out' \in Seq(Nat) /\ InOrder'
  BY <1>1, <1>2, Numbers DEF QueueInv, TypeOK, InOrder, HandedOver
<1>4. UNCHANGED <<WrittenByIndex, WrittenByCount, ReadByIndex, ReadByCount>>
  BY <1>1, <1>2 DEF WrittenByIndex, WrittenByCount, ReadByIndex, ReadByCount
<1>5. PositionsInv' /\ ReaderInv'
  BY <1>1, <1>4 DEF QueueInv, PositionsInv, ReaderInv, SlotOf
<1>6. ASSUME ~overrun PROVE written - Len(out) < Capacity
  <2>1. CASE release_first
    <3>1. written - ReadByCount <= (Capacity - 1) - 1 /\ ReadByCount <= Len(out) + 1
      BY <1>1, <1>2, <1>6, <2>1 DEF QueueInv, ContentsInv, ReadByCount
    <3>. QED
      BY <1>2, <3>1
  <2>2. CASE ~release_first
    <3>1. written - ReadByCount <= Capacity - 1 /\ ReadByCount <= Len(out)
      BY <1>1, <1>2, <1>6, <2>2 DEF QueueInv, ContentsInv, ReadByCount
    <3>. QED
      BY <1>2, <3>1
  <2>. QED
    BY <2>1, <2>2
<1>7. ASSUME ~overrun PROVE \A i \in Len(out) + 1 .. written + 1 : store_'[SlotOf(i - 1)] = i
  <2>1. ASSUME NEW i \in Len(out) + 1 .. written
        PROVE  store_'[SlotOf(i - 1)] = i
    <3>1. i - 1 \in Nat /\ i - 1 < written /\ written - (i - 1) < Capacity
      BY <1>2, <1>6, <1>7
    <3>2. SlotOf(i - 1) # next_write_idx /\ SlotOf(i - 1) \in Slots
      BY <1>2, <3>1, SlotsDiffer, SlotsAreSlots
    <3>3. store_[SlotOf(i - 1)] = i
      BY <1>7 DEF QueueInv, ContentsInv
    <3>. QED
      BY <1>1, <1>2, <3>2, <3>3
  <2>2. store_'[SlotOf((written + 1) - 1)] = written + 1
    BY <1>1, <1>2
  <2>3. ASSUME NEW i \in Len(out) + 1 .. written + 1
        PROVE  i \in Len(out) + 1 .. written \/ i = written + 1
    BY <1>2
  <2>. QED
    BY <2>1, <2>2, <2>3
<1>8. ContentsInv'
  <2>. SUFFICES ASSUME ~overrun' PROVE ContentsInv'
    BY DEF ContentsInv
  <2>1. ~overrun
    BY <1>1
  <2>2. written' - ReadByCount' <= IF release_first THEN Capacity - 1 ELSE Capacity
    BY <1>1, <1>2, <1>4, <2>1 DEF QueueInv, ContentsInv
  <2>. QED
    BY <1>1, <1>2, <1>7, <2>1, <2>2 DEF ContentsInv, SlotOf
<1>9. CloseInv'
  BY <1>1 DEF QueueInv, CloseInv
<1>. QED
  BY <1>3, <1>5, <1>8, <1>9 DEF QueueInv

LEMMA AdvanceWriteInv ==
  ASSUME QueueInv, AdvanceWrite
  PROVE  QueueInv'
<1>. USE Numbers DEF QueueInv
<1>1. /\ writer = "advance" /\ writer' = "count"
      /\ next_write_idx' = (next_write_idx + 1) % Capacity
      /\ UNCHANGED <<store_, next_read_idx, num_elements, reader, written, out,
                     release_first, slot, owner, running, overrun>>
  BY DEF AdvanceWrite
<1>2. /\ WrittenByIndex' = WrittenByIndex + 1
      /\ UNCHANGED <<WrittenByCount, ReadByIndex, ReadByCount>>
  BY <1>1 DEF WrittenByIndex, WrittenByCount, ReadByIndex, ReadByCount
<1>3. next_write_idx' = SlotOf(WrittenByIndex') /\ next_write_idx' \in Slots
  BY <1>1, <1>2, NextSlot, SlotsAreSlots DEF PositionsInv
<1>. HIDE <1>1
<1>4. /\ writer = "advance" /\ writer' = "count"
      /\ UNCHANGED <<store_, next_read_idx, num_elements, reader, written, out,
                     release_first, slot, owner, running, overrun>>
  BY <1>1
<1>5. TypeOK' /\ out' \in Seq(Nat) /\ InOrder'
  BY <1>3, <1>4 DEF TypeOK, InOrder, HandedOver
<1>6. PositionsInv' /\ ReaderInv'
  BY <1>2, <1>3, <1>4, SMTT(30) DEF PositionsInv, ReaderInv, SlotOf
<1>7. ContentsInv' /\ CloseInv'
  BY <1>2, <1>4 DEF ContentsInv, CloseInv, SlotOf
<1>. QED
  BY <1>5, <1>6, <1>7

LEMMA CountWriteInv ==
  ASSUME QueueInv, CountWrite
  PROVE  QueueInv'
<1>. USE Numbers DEF QueueInv
<1>1. /\ writer = "count" /\ writer' = "ready" /\ num_elements' = num_elements + 1
      /\ UNCHANGED <<store_, next_read_idx, next_write_idx, reader, written, out,
                     release_first, slot, owner, running, overrun>>
  BY DEF CountWrite
<1>2. /\ WrittenByCount' = WrittenByCount + 1 /\ WrittenByCount' = written
      /\ UNCHANGED <<WrittenByIndex, ReadByIndex, ReadByCount>>
  BY <1>1 DEF WrittenByIndex, WrittenByCount, ReadByIndex, ReadByCount
<1>3. num_elements' \in 0 .. MaxWrites /\ (overrun \/ num_elements' <= Capacity)
  <2>1. num_elements' = written - ReadByCount /\ written <= MaxWrites
    BY <1>1, <1>2 DEF TypeOK, PositionsInv
  <2>2. num_elements' \in 0 .. MaxWrites
    BY <1>1, <2>1 DEF TypeOK
  <2>3. ~overrun => num_elements' <= Capacity
    BY <1>1, <2>1, SMTT(30) DEF ContentsInv
  <2>. QED
    BY <2>2, <2>3 DEF TypeOK
<1>4. TypeOK' /\ out' \in Seq(Nat) /\ InOrder'
  BY <1>1, <1>3 DEF TypeOK, InOrder, HandedOver
<1>5. PositionsInv' /\ ReaderInv'
  BY <1>1, <1>2 DEF PositionsInv, ReaderInv, TypeOK
<1>6. ContentsInv' /\ CloseInv'
  BY <1>1, <1>2 DEF ContentsInv, CloseInv
<1>. QED
  BY <1>4, <1>5, <1>6

----------------------------------------------------------------------------
(* The reader.                                                             *)

(* The two tests of getNextRead() and the loop around them.                *)
LEMMA SeeInv ==
  ASSUME QueueInv, SeeRunning \/ SeeCount \/ SeeIndexes
  PROVE  QueueInv'
<1>1. /\ UNCHANGED <<readerRest, next_read_idx, num_elements, out>>
      /\ reader \in {"running?", "empty?", "indexes?"}
      /\ reader # "stopped"
  BY DEF SeeRunning, SeeCount, SeeIndexes
<1>2. \/ reader' \in {"running?", "empty?", "stopped"} /\ slot' = slot
      \/ reader' = "indexes?" /\ slot' = slot /\ num_elements # 0
      \/ /\ reader = "indexes?" /\ next_read_idx # next_write_idx
         /\ reader' = (IF release_first THEN "advance" ELSE "copy")
         /\ slot' = next_read_idx
  BY DEF SeeRunning, SeeCount, SeeIndexes
<1>3. UNCHANGED <<WrittenByIndex, WrittenByCount>>
  BY <1>1 DEF readerRest, WrittenByIndex, WrittenByCount
<1>4. /\ ReadByIndex = Len(out) /\ ReadByCount = Len(out) /\ ReadByCount' = Len(out)
      /\ reader' # "advance" => ReadByIndex' = Len(out)
      /\ reader' = "advance" => ReadByIndex' = Len(out)
  BY <1>1, <1>2, Numbers DEF readerRest, ReadByIndex, ReadByCount
<1>5. TypeOK' /\ out' \in Seq(Nat) /\ InOrder'
  BY <1>1, <1>2 DEF QueueInv, TypeOK, InOrder, HandedOver, readerRest
<1>6. PositionsInv'
  BY <1>1, <1>3, <1>4 DEF QueueInv, PositionsInv, readerRest, SlotOf
<1>7. ReaderInv'
  <2>1. CASE reader' \in {"running?", "empty?", "stopped"}
    BY <2>1 DEF ReaderInv
  <2>2. CASE reader' = "indexes?" /\ num_elements # 0
    BY <1>1, <2>2 DEF QueueInv, TypeOK, ReaderInv
  <2>3. CASE /\ reader = "indexes?" /\ next_read_idx # next_write_idx
             /\ reader' = (IF release_first THEN "advance" ELSE "copy")
             /\ slot' = next_read_idx
    <3>1. ReadByIndex' < WrittenByIndex'
      <4>1. ReadByIndex # WrittenByIndex /\ ReadByIndex <= WrittenByIndex
        BY <2>3 DEF QueueInv, PositionsInv
      <4>. QED
        BY <1>3, <1>4, <4>1, Numbers
    <3>2. num_elements' > 0
      BY <1>1, <2>3 DEF QueueInv, ReaderInv
    <3>3. slot' = SlotOf(Len(out)) /\ out' = out
      BY <1>1, <1>4, <2>3 DEF QueueInv, PositionsInv
    <3>. QED
      BY <2>3, <3>1, <3>2, <3>3 DEF ReaderInv, SlotOf
  <2>. QED
    BY <1>2, <2>1, <2>2, <2>3
<1>8. ContentsInv' /\ CloseInv'
  BY <1>1, <1>3, <1>4 DEF QueueInv, ContentsInv, CloseInv, readerRest, SlotOf
<1>. QED
  BY <1>5, <1>6, <1>7, <1>8 DEF QueueInv

(* The value that is copied is the next one, in either order of copying    *)
(* and releasing.                                                          *)
LEMMA CopyValueInv ==
  ASSUME QueueInv, CopyValue
  PROVE  QueueInv'
<1>. DEFINE n == Len(out)
<1>1. /\ reader = "copy" /\ out' = Append(out, store_[slot])
      /\ reader' = IF release_first THEN "empty?" ELSE "advance"
      /\ UNCHANGED <<readerRest, next_read_idx, num_elements, slot>>
  BY DEF CopyValue
<1>2. n < written /\ n \in Nat /\ written \in Nat
  BY <1>1, Numbers
     DEF QueueInv, PositionsInv, ReaderInv, ReadByIndex, WrittenByIndex
<1>3. store_[slot] \in Nat /\ (~overrun => store_[slot] = n + 1)
  <2>1. slot = SlotOf((n + 1) - 1)
    BY <1>1, <1>2 DEF QueueInv, ReaderInv
  <2>2. n + 1 \in n + 1 .. written
    BY <1>2
  <2>3. ~overrun => store_[slot] = n + 1
    BY <2>1, <2>2 DEF QueueInv, ContentsInv
  <2>4. store_[slot] \in Nat
    BY Numbers DEF QueueInv, TypeOK
  <2>. QED
    BY <2>3, <2>4
<1>4. /\ out \in Seq(Nat) /\ out' \in Seq(Nat) /\ Len(out') = n + 1
      /\ ~overrun => \A i \in 1 .. n + 1 : out'[i] = i
  BY <1>1, <1>2, <1>3 DEF QueueInv, InOrder, HandedOver
<1>5. UNCHANGED <<WrittenByIndex, WrittenByCount, ReadByIndex, ReadByCount>>
  <2>1. UNCHANGED <<WrittenByIndex, WrittenByCount>>
    BY <1>1 DEF readerRest, WrittenByIndex, WrittenByCount
  <2>2. UNCHANGED <<ReadByIndex, ReadByCount>>
    BY <1>1, <1>2, <1>4 DEF readerRest, ReadByIndex, ReadByCount
  <2>. QED
    BY <2>1, <2>2
<1>6. TypeOK' /\ InOrder'
  <2>1. written <= MaxWrites /\ MaxWrites \in Nat
    BY Numbers DEF QueueInv, TypeOK
  <2>. QED
    BY <1>1, <1>2, <1>4, <2>1 DEF QueueInv, TypeOK, InOrder, HandedOver, readerRest
<1>7. PositionsInv'
  BY <1>1, <1>5 DEF QueueInv, PositionsInv, readerRest, SlotOf
<1>8. ReaderInv'
  BY <1>1, <1>5 DEF QueueInv, ReaderInv, readerRest
<1>9. ContentsInv'
  BY <1>1, <1>2, <1>4, <1>5 DEF QueueInv, ContentsInv, readerRest, SlotOf
<1>10. CloseInv'
  BY <1>1 DEF QueueInv, CloseInv, readerRest
<1>. QED
  BY <1>4, <1>6, <1>7, <1>8, <1>9, <1>10 DEF QueueInv

LEMMA AdvanceReadInv ==
  ASSUME QueueInv, AdvanceRead
  PROVE  QueueInv'
<1>1. /\ reader = "advance" /\ reader' = "count"
      /\ next_read_idx' = (next_read_idx + 1) % Capacity
      /\ UNCHANGED <<readerRest, num_elements, out, slot>>
  BY DEF AdvanceRead
<1>2. /\ ReadByIndex' = ReadByIndex + 1
      /\ UNCHANGED <<WrittenByIndex, WrittenByCount, ReadByCount>>
  <2>1. UNCHANGED <<WrittenByIndex, WrittenByCount>>
    BY <1>1 DEF readerRest, WrittenByIndex, WrittenByCount
  <2>2. ReadByIndex' = ReadByIndex + 1 /\ UNCHANGED ReadByCount
    BY <1>1, Numbers DEF readerRest, ReadByIndex, ReadByCount
  <2>. QED
    BY <2>1, <2>2
<1>3. next_read_idx' = SlotOf(ReadByIndex') /\ next_read_idx' \in Slots
  BY <1>1, <1>2, NextSlot, SlotsAreSlots, Numbers DEF QueueInv, PositionsInv
<1>4. /\ reader = "advance" /\ reader' = "count"
      /\ UNCHANGED <<readerRest, num_elements, out, slot>>
  BY <1>1
<1>5. TypeOK' /\ out' \in Seq(Nat) /\ InOrder'
  BY <1>3, <1>4 DEF QueueInv, TypeOK, InOrder, HandedOver, readerRest
<1>6. PositionsInv'
  <2>1. ReadByIndex' <= WrittenByIndex'
    BY <1>2, <1>4, Numbers DEF QueueInv, ReaderInv
  <2>. QED
    BY <1>2, <1>3, <1>4, <2>1 DEF QueueInv, PositionsInv, readerRest, SlotOf
<1>7. ReaderInv'
  BY <1>4 DEF QueueInv, ReaderInv, readerRest, SlotOf
<1>8. ContentsInv' /\ CloseInv'
  BY <1>2, <1>4 DEF QueueInv, ContentsInv, CloseInv, readerRest, SlotOf
<1>. QED
  BY <1>5, <1>6, <1>7, <1>8 DEF QueueInv

LEMMA CountReadInv ==
  ASSUME QueueInv, CountRead
  PROVE  QueueInv'
<1>1. /\ reader = "count" /\ num_elements' = num_elements - 1
      /\ reader' = IF release_first THEN "copy" ELSE "empty?"
      /\ UNCHANGED <<readerRest, next_read_idx, out, slot>>
  BY DEF CountRead
<1>2. /\ ReadByCount' = ReadByCount + 1
      /\ UNCHANGED <<WrittenByIndex, WrittenByCount, ReadByIndex>>
  <2>1. UNCHANGED <<WrittenByIndex, WrittenByCount>>
    BY <1>1 DEF readerRest, WrittenByIndex, WrittenByCount
  <2>2. ReadByCount' = ReadByCount + 1 /\ UNCHANGED ReadByIndex
    BY <1>1, Numbers DEF readerRest, ReadByIndex, ReadByCount
  <2>. QED
    BY <2>1, <2>2
<1>3. num_elements > 0 /\ num_elements \in 0 .. MaxWrites /\ (overrun \/ num_elements <= Capacity)
  BY <1>1 DEF QueueInv, ReaderInv, TypeOK
<1>4. TypeOK' /\ out' \in Seq(Nat) /\ InOrder'
  BY <1>1, <1>3, Numbers, SMTT(30) DEF QueueInv, TypeOK, InOrder, HandedOver, readerRest
<1>5. PositionsInv'
  BY <1>1, <1>2, Numbers DEF QueueInv, PositionsInv, readerRest, SlotOf
<1>6. ReaderInv'
  BY <1>1 DEF QueueInv, ReaderInv, readerRest, SlotOf
<1>7. ContentsInv'
  <2>. SUFFICES ASSUME ~overrun' PROVE ContentsInv'
    BY DEF ContentsInv
  <2>. DEFINE room == (IF release_first THEN Capacity - 1 ELSE Capacity)
                        - (IF writer = "store" THEN 1 ELSE 0)
  <2>1. ~overrun /\ written - ReadByCount <= room /\ room \in Int /\ room' = room
    BY <1>1, Numbers DEF QueueInv, ContentsInv, readerRest
  <2>. HIDE DEF room
  <2>2. written' - ReadByCount' <= room'
    BY <1>1, <1>2, <2>1, Numbers, SMTT(30) DEF readerRest
  <2>. QED
    BY <1>1, <2>2 DEF QueueInv, ContentsInv, readerRest, SlotOf, room
<1>8. CloseInv'
  BY <1>1, <1>3 DEF QueueInv, CloseInv, readerRest
<1>. QED
  BY <1>4, <1>5, <1>6, <1>7, <1>8 DEF QueueInv

----------------------------------------------------------------------------
(* The destructor, and steps that change nothing.                          *)

LEMMA OwnerInv ==
  ASSUME QueueInv, BeginClose \/ SeeDrained \/ Join
  PROVE  QueueInv'
<1>1. /\ UNCHANGED ownerRest
      /\ running' \in BOOLEAN /\ owner' \in {"draining", "joining", "closed"}
  BY DEF BeginClose, SeeDrained, Join, QueueInv, TypeOK
<1>2. UNCHANGED <<WrittenByIndex, WrittenByCount, ReadByIndex, ReadByCount>>
  BY <1>1 DEF ownerRest, WrittenByIndex, WrittenByCount, ReadByIndex, ReadByCount
<1>3. TypeOK' /\ out' \in Seq(Nat) /\ InOrder'
  BY <1>1 DEF QueueInv, TypeOK, InOrder, HandedOver, ownerRest, queueVars
<1>4. PositionsInv' /\ ReaderInv' /\ ContentsInv'
  BY <1>1, <1>2
     DEF QueueInv, PositionsInv, ReaderInv, ContentsInv, ownerRest, queueVars, SlotOf
<1>5. CloseInv'
  BY <1>1 DEF QueueInv, CloseInv, BeginClose, SeeDrained, Join, ownerRest, queueVars
<1>. QED
  BY <1>3, <1>4, <1>5 DEF QueueInv

LEMMA StutterInv ==
  ASSUME QueueInv, UNCHANGED vars
  PROVE  QueueInv'
<1>. USE DEF vars, queueVars
<1>1. TypeOK' /\ out' \in Seq(Nat) /\ InOrder'
  BY DEF QueueInv, TypeOK, InOrder, HandedOver
<1>2. PositionsInv' /\ ReaderInv' /\ ContentsInv' /\ CloseInv'
  BY DEF QueueInv, PositionsInv, ReaderInv, ContentsInv, CloseInv, SlotOf,
         WrittenByIndex, WrittenByCount, ReadByIndex, ReadByCount
<1>. QED
  BY <1>1, <1>2 DEF QueueInv

----------------------------------------------------------------------------
(* The invariant of the queue holds at every interleaving of the atomic    *)
(* accesses of SPSCQueue's writer and reader and of ~Logger().             *)
THEOREM QueueInvariant == Spec => []QueueInv
<1>1. QueueInv /\ [Next]_vars => QueueInv'
  <2>. SUFFICES ASSUME QueueInv, [Next]_vars PROVE QueueInv'
    OBVIOUS
  <2>1. CASE Writer
    BY <2>1, HasRoomInv, StoreValueInv, AdvanceWriteInv, CountWriteInv DEF Writer
  <2>2. CASE Reader
    BY <2>2, SeeInv, CopyValueInv, AdvanceReadInv, CountReadInv DEF Reader
  <2>3. CASE Owner
    BY <2>3, OwnerInv DEF Owner
  <2>4. CASE Closed \/ UNCHANGED vars
    BY <2>4, StutterInv DEF Closed
  <2>. QED
    BY <2>1, <2>2, <2>3, <2>4 DEF Next
<1>. QED
  BY <1>1, InitInv, PTL DEF Spec

(* num_elements, a size_t, is never decremented below zero and never       *)
(* counts more than the queue has slots; the indexes stay in the ring.     *)
THEOREM CountInRange == Spec => []TypeOK
<1>1. QueueInv => TypeOK
  BY DEF QueueInv
<1>. QED
  BY <1>1, QueueInvariant, PTL

(* What is taken from the queue is what was written, each value once and   *)
(* in order, also when the reader releases the slot before it copies it:   *)
(* always for the Logger's queue, whose writer waits for room, for the     *)
(* publisher's until the engine begins a write that leaves no slot free.   *)
THEOREM ReadInOrder == Spec => []InOrder
<1>1. QueueInv => InOrder
  BY DEF QueueInv
<1>. QED
  BY <1>1, QueueInvariant, PTL

(* The writer's assignment through getNextWrite() and the reader's use of  *)
(* getNextRead() never meet in one slot of the Logger's queue, whose       *)
(* writer waits for room, nor in one of the publisher's until the engine,  *)
(* which does not wait, begins a write that leaves no slot free.           *)
THEOREM RaceFree == Spec => [](NoRace /\ (overrun => release_first))
<1>1. QueueInv => NoRace
  <2>. SUFFICES ASSUME QueueInv, ~overrun, writer = "store", reader = "copy",
                       slot = next_write_idx
                PROVE  FALSE
    BY DEF NoRace
  <2>1. SlotOf(Len(out)) = SlotOf(written)
    BY DEF QueueInv, PositionsInv, ReaderInv, WrittenByIndex
  <2>2. Len(out) < written
    BY Numbers DEF QueueInv, PositionsInv, ReaderInv, ReadByIndex, WrittenByIndex
  <2>3. written - Len(out) < Capacity
    BY Numbers DEF QueueInv, ContentsInv, ReadByCount
  <2>. QED
    BY <2>1, <2>2, <2>3, SlotsDiffer, Numbers
<1>2. QueueInv => (overrun => release_first)
  BY DEF QueueInv, CloseInv
<1>. QED
  BY <1>1, <1>2, QueueInvariant, PTL

(* ~Logger() returns only when every line that was logged is written out.  *)
THEOREM NothingUnflushed == Spec => []FlushedOnClose
<1>1. QueueInv => FlushedOnClose
  <2>. SUFFICES ASSUME QueueInv, owner = "closed" PROVE Len(out) = MaxWrites
    BY DEF FlushedOnClose
  <2>1. /\ writer = "ready" /\ written = MaxWrites /\ num_elements = 0
        /\ reader = "stopped"
    BY DEF QueueInv, CloseInv
  <2>2. WrittenByCount = MaxWrites /\ ReadByCount = Len(out)
    BY <2>1 DEF WrittenByCount, ReadByCount
  <2>. QED
    BY <2>1, <2>2, Numbers DEF QueueInv, PositionsInv
<1>. QED
  BY <1>1, QueueInvariant, PTL
============================================================================
