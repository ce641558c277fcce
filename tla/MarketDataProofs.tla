-------------------------- MODULE MarketDataProofs --------------------------
(***************************************************************************)
(* A market data consumer that is in step has the engine's book, and never *)
(* an older one than it has shown, for any number of updates and any       *)
(* faults of the two streams but one: that the beginning of a snapshot is  *)
(* lost while the consumer waits for the rest of an unfinished one.        *)
(*                                                                         *)
(* The first part is about folds over updates, the second about what a     *)
(* snapshot is made of and what reading it gives, the third about the      *)
(* consumer's methods, the fourth about the steps.                         *)
(***************************************************************************)
EXTENDS MarketDataRecovery, FiniteSetTheorems, SequenceTheorems, TLAPS

F == INSTANCE FoldLemmas WITH Op <- ApplyUpdate

(* The fold of the library is the one of the lemmas.                       *)
LEMMA FoldIsFold ==
  ASSUME NEW book, NEW ms
  PROVE  FoldLeft(ApplyUpdate, book, ms) = F!Fold(book, ms)
BY Zenon DEF FoldLeft, MapThenFoldSet, Max, F!Fold, F!FoldLeft, F!MapThenFoldSet, F!Max

----------------------------------------------------------------------------
(* The books of a log.                                                     *)

BookOf(l, n) == FoldLeft(ApplyUpdate, {}, SubSeq(l, 1, n))

(* What numbers the log and keeps its ids within it.                       *)
IsLog(l) ==
  /\ l \in Seq(Messages)
  /\ \A n \in 1 .. Len(l) : /\ l[n].seq_num_ = n /\ l[n].type_ \in {"ADD", "CANCEL"}
                            /\ l[n].order_id_ \in 1 .. n

(* Before the first update the book is empty.                              *)
LEMMA FirstBook ==
  ASSUME NEW l \in Seq(Messages)
  PROVE  BookOf(l, 0) = {}
<1>1. SubSeq(l, 1, 0) = << >>
  OBVIOUS
<1>2. F!Fold({}, << >>) = {}
  BY F!FoldEmpty
<1>. QED
  BY <1>1, <1>2, FoldIsFold DEF BookOf

(* One update more.                                                        *)
LEMMA NextBook ==
  ASSUME NEW l \in Seq(Messages), NEW n \in 1 .. Len(l)
  PROVE  BookOf(l, n) = ApplyUpdate(BookOf(l, n - 1), l[n])
<1>. DEFINE s == SubSeq(l, 1, n - 1)
<1>1. s \in Seq(Messages) /\ l[n] \in Messages
  OBVIOUS
<1>2. SubSeq(l, 1, n) = Append(s, l[n])
  OBVIOUS
<1>3. F!Fold({}, Append(s, l[n])) = ApplyUpdate(F!Fold({}, s), l[n])
  <2>. HIDE DEF s
  <2>. QED
    BY <1>1, F!FoldAppend
<1>. QED
  BY <1>2, <1>3, FoldIsFold DEF BookOf

(* A further update leaves the earlier books as they are.                  *)
LEMMA EarlierBook ==
  ASSUME NEW l \in Seq(Messages), NEW m \in Messages, NEW n \in 0 .. Len(l)
  PROVE  BookOf(Append(l, m), n) = BookOf(l, n)
<1>1. SubSeq(Append(l, m), 1, n) = SubSeq(l, 1, n)
  OBVIOUS
<1>. QED
  BY <1>1 DEF BookOf

(* The ids of a book are numbers of its updates.                           *)
LEMMA BookIds ==
  ASSUME NEW l, IsLog(l), NEW n \in 0 .. Len(l)
  PROVE  BookOf(l, n) \in SUBSET (1 .. n)
<1>. DEFINE s == SubSeq(l, 1, n)
            P == SUBSET (1 .. n)
<1>1. s \in Seq(Messages) /\ Len(s) = n /\ \A k \in 1 .. n : s[k] = l[k]
  BY DEF IsLog
<1>2. ASSUME NEW x \in P, NEW k \in 1 .. Len(s) PROVE ApplyUpdate(x, s[k]) \in P
  <2>1. k \in 1 .. Len(l) /\ k <= n
    BY <1>1
  <2>2. s[k].type_ \in {"ADD", "CANCEL"} /\ s[k].order_id_ \in 1 .. n
    BY <1>1, <1>2, <2>1 DEF IsLog
  <2>. QED
    BY <2>2 DEF ApplyUpdate
<1>3. {} \in P
  OBVIOUS
<1>4. F!Fold({}, s) \in P
  <2>. HIDE DEF s, P
  <2>. QED
    BY <1>1, <1>2, <1>3, F!FoldKeeps
<1>. QED
  BY <1>4, FoldIsFold DEF BookOf

----------------------------------------------------------------------------
(* Snapshots.                                                              *)

(* The ids of a book by their number: those of 1 .. k, each of them.       *)
LEMMA NthOfBook ==
  ASSUME NEW N \in Nat, NEW book \in SUBSET (1 .. N)
  PROVE  /\ Cardinality(book) \in 0 .. N
         /\ \A i \in 1 .. Cardinality(book) : Nth(book, i) \in book
         /\ \A x \in book : \E i \in 1 .. Cardinality(book) : x = Nth(book, i)
<1>. DEFINE k        == Cardinality(book)
            below(x) == {y \in book : y < x}
            r        == [x \in book |-> Cardinality(below(x))]
<1>1. IsFiniteSet(1 .. N) /\ Cardinality(1 .. N) = N
  BY FS_Interval
<1>2. IsFiniteSet(book) /\ k \in 0 .. N
  <2>1. IsFiniteSet(book) /\ k <= Cardinality(1 .. N)
    BY <1>1, FS_Subset
  <2>2. k \in Nat
    BY <2>1, FS_CardinalityType
  <2>. QED
    BY <1>1, <2>1, <2>2
<1>3. ASSUME NEW x \in book PROVE /\ IsFiniteSet(below(x)) /\ Cardinality(below(x)) \in 0 .. k - 1
  <2>1. below(x) \in SUBSET book
    OBVIOUS
  <2>2. x \in book /\ x \notin below(x)
    OBVIOUS
  <2>3. IsFiniteSet(below(x)) /\ Cardinality(below(x)) \in Nat
        /\ Cardinality(below(x)) <= k /\ Cardinality(below(x)) # k
    <3>. HIDE DEF below
    <3>. QED
      BY <1>2, <2>1, <2>2, FS_Subset, FS_CardinalityType
  <2>. QED
    BY <1>2, <2>3
<1>4. ASSUME NEW x \in book, NEW z \in book, x < z PROVE r[x] < r[z]
  <2>1. below(x) \in SUBSET below(z) /\ x \in below(z) /\ x \notin below(x)
    <3>1. \A y \in book : y \in Int
      OBVIOUS
    <3>2. \A y \in book : y < x => y < z
      BY <3>1, <1>4
    <3>3. ~(x < x)
      BY <3>1
    <3>. QED
      BY <3>2, <3>3, <1>4
  <2>2. IsFiniteSet(below(z))
    BY <1>3
  <2>3. Cardinality(below(x)) <= Cardinality(below(z)) /\ Cardinality(below(x)) # Cardinality(below(z))
    <3>. HIDE DEF below
    <3>. QED
      BY <2>1, <2>2, FS_Subset
  <2>4. Cardinality(below(x)) \in Int /\ Cardinality(below(z)) \in Int
    BY <1>3, <1>2
  <2>. QED
    BY <2>3, <2>4
<1>5. r \in [book -> 0 .. k - 1]
  BY <1>3
<1>. HIDE DEF r
<1>6. \A x, z \in book : r[x] = r[z] => x = z
  BY <1>4, <1>5
<1>7. r \in Injection(book, 0 .. k - 1)
  BY <1>5, <1>6 DEF Injection, IsInjective
<1>8. IsFiniteSet(0 .. k - 1) /\ Cardinality(0 .. k - 1) = k
  <2>1. 0 \in Int /\ k - 1 \in Int /\ (k - 1) - 0 + 1 = k /\ (0 > k - 1 => k = 0)
    BY <1>2
  <2>2. /\ IsFiniteSet(0 .. k - 1)
        /\ Cardinality(0 .. k - 1) = IF 0 > k - 1 THEN 0 ELSE (k - 1) - 0 + 1
    BY <2>1, FS_Interval
  <2>. QED
    BY <2>1, <2>2
<1>9. r \in Surjection(book, 0 .. k - 1)
  BY <1>2, <1>7, <1>8, FS_Injection
<1>10. ASSUME NEW i \in 1 .. k PROVE Nth(book, i) \in book /\ r[Nth(book, i)] = i - 1
  <2>1. i - 1 \in 0 .. k - 1
    BY <1>2
  <2>2. \E x \in book : r[x] = i - 1
    BY <2>1, <1>9 DEF Surjection
  <2>3. \E x \in book : Cardinality(below(x)) = i - 1
    BY <2>2 DEF r
  <2>4. Nth(book, i) = CHOOSE x \in book : Cardinality(below(x)) = i - 1
    BY DEF Nth
  <2>5. Nth(book, i) \in book /\ Cardinality(below(Nth(book, i))) = i - 1
    <3>. HIDE DEF below
    <3>. QED
      BY <2>3, <2>4
  <2>. QED
    BY <2>5 DEF r
<1>11. ASSUME NEW x \in book PROVE \E i \in 1 .. k : x = Nth(book, i)
  <2>1. r[x] + 1 \in 1 .. k /\ (r[x] + 1) - 1 = r[x]
    BY <1>5, <1>2
  <2>2. r[Nth(book, r[x] + 1)] = r[x] /\ Nth(book, r[x] + 1) \in book
    BY <2>1, <1>10
  <2>3. x = Nth(book, r[x] + 1)
    BY <2>2, <1>6
  <2>. QED
    BY <2>1, <2>3
<1>. QED
  BY <1>2, <1>10, <1>11

PartOf(l, last, n) == SnapshotMessage(BookOf(l, last), last, n)
LastOf(l, last)    == Cardinality(BookOf(l, last)) + 2

(* The messages of a snapshot.                                             *)
LEMMA SnapshotParts ==
  ASSUME NEW l, IsLog(l), Len(l) <= MaxUpdates, NEW last \in 0 .. Len(l),
         NEW n \in 0 .. LastOf(l, last)
  PROVE  /\ PartOf(l, last, n) \in Messages /\ PartOf(l, last, n).seq_num_ = n
         /\ PartOf(l, last, n).type_ = "SNAPSHOT_START" <=> n = 0
         /\ PartOf(l, last, n).type_ = "SNAPSHOT_END" <=> n = LastOf(l, last)
         /\ n = LastOf(l, last) => PartOf(l, last, n).order_id_ = last
<1>. DEFINE B == BookOf(l, last)
            k == Cardinality(B)
            m == SnapshotMessage(B, last, n)
<1>1. MaxUpdates \in Nat /\ Len(l) \in Nat /\ last \in Nat
  BY BoundsAssumption DEF IsLog
<1>2. B \in SUBSET (1 .. last)
  BY BookIds
<1>. HIDE DEF B
<1>3. k \in 0 .. last /\ \A i \in 1 .. k : Nth(B, i) \in 1 .. last
  BY <1>1, <1>2, NthOfBook
<1>. HIDE DEF k
<1>. SUFFICES /\ m \in Messages /\ m.seq_num_ = n
              /\ m.type_ = "SNAPSHOT_START" <=> n = 0
              /\ m.type_ = "SNAPSHOT_END" <=> n = k + 2
              /\ n = k + 2 => m.order_id_ = last
  BY DEF PartOf, LastOf, B, k
<1>4. n \in 0 .. k + 2
  BY DEF LastOf, B, k
<1>5. CASE n = 0
  <2>1. m = Message(0, "SNAPSHOT_START", last)
    BY <1>5, <1>3 DEF SnapshotMessage, k
  <2>. QED
    BY <2>1, <1>1, <1>3, <1>5 DEF Message, Messages
<1>6. CASE n = 1
  <2>1. m = Message(1, "CLEAR", 0)
    BY <1>6, <1>3 DEF SnapshotMessage, k
  <2>. QED
    BY <2>1, <1>1, <1>3, <1>6 DEF Message, Messages
<1>7. CASE n \in 2 .. k + 1
  <2>1. m = Message(n, "ADD", Nth(B, n - 1))
    BY <1>7, <1>3 DEF SnapshotMessage, k
  <2>2. n - 1 \in 1 .. k
    BY <1>7, <1>3
  <2>3. Nth(B, n - 1) \in 1 .. last
    BY <2>2, <1>3
  <2>4. n \in 0 .. MaxUpdates + 2 /\ Nth(B, n - 1) \in 0 .. MaxUpdates
    BY <2>3, <1>1, <1>3, <1>7
  <2>. HIDE DEF m
  <2>. QED
    BY <2>1, <2>4, <1>3, <1>7 DEF Message, Messages
<1>8. CASE n = k + 2
  <2>1. m = Message(n, "SNAPSHOT_END", last)
    BY <1>8, <1>3 DEF SnapshotMessage, k
  <2>. QED
    BY <2>1, <1>1, <1>3, <1>8 DEF Message, Messages
<1>. QED
  BY <1>3, <1>4, <1>5, <1>6, <1>7, <1>8

(* Reading a snapshot and the updates that follow it gives the book after  *)
(* the last of them, whatever the reader had before.                       *)
LEMMA ReadSnapshot ==
  ASSUME NEW l, IsLog(l), NEW last \in 0 .. Len(l), NEW c \in Nat, last + c <= Len(l),
         NEW s \in Seq(Messages), Len(s) = LastOf(l, last) + 1 + c,
         \A n \in 0 .. LastOf(l, last) : s[n + 1] = PartOf(l, last, n),
         \A i \in 1 .. c : s[LastOf(l, last) + 1 + i] = l[last + i],
         NEW base
  PROVE  FoldLeft(ApplyUpdate, base, s) = BookOf(l, last + c)
<1>. DEFINE B == BookOf(l, last)
            k == Cardinality(B)
            state(j) == IF j <= 1 THEN base
                        ELSE IF j <= k + 2 THEN {Nth(B, i) : i \in 1 .. j - 2}
                        ELSE BookOf(l, last + (j - (k + 3)))
            g == [j \in 0 .. Len(s) |-> state(j)]
<1>1. last \in Nat /\ Len(l) \in Nat /\ B \in SUBSET (1 .. last)
  BY BookIds DEF IsLog
<1>2. /\ k \in Nat
      /\ B = {Nth(B, i) : i \in 1 .. k}
  <2>. HIDE DEF B
  <2>1. /\ k \in 0 .. last /\ \A i \in 1 .. k : Nth(B, i) \in B
        /\ \A x \in B : \E i \in 1 .. k : x = Nth(B, i)
    BY <1>1, NthOfBook
  <2>2. B \subseteq {Nth(B, i) : i \in 1 .. k}
    BY <2>1
  <2>3. {Nth(B, i) : i \in 1 .. k} \subseteq B
    BY <2>1
  <2>4. B = {Nth(B, i) : i \in 1 .. k}
    BY <2>2, <2>3, Zenon
  <2>5. k \in Nat
    BY <2>1, <1>1
  <2>. QED
    BY <2>4, <2>5
<1>3. LastOf(l, last) = k + 2 /\ Len(s) = k + 3 + c /\ Len(s) \in Nat
  BY <1>2 DEF LastOf
<1>4. /\ \A j \in 1 .. k + 3 : s[j] = SnapshotMessage(B, last, j - 1)
      /\ \A j \in k + 4 .. k + 3 + c : s[j] = l[last + (j - (k + 3))]
  <2>1. ASSUME NEW j \in 1 .. k + 3 PROVE s[j] = SnapshotMessage(B, last, j - 1)
    <3>1. j - 1 \in 0 .. LastOf(l, last) /\ (j - 1) + 1 = j
      BY <1>2, <1>3
    <3>. QED
      BY <3>1 DEF PartOf
  <2>2. ASSUME NEW j \in k + 4 .. k + 3 + c PROVE s[j] = l[last + (j - (k + 3))]
    <3>. HIDE DEF B, k, state, g
    <3>1. j - (k + 3) \in 1 .. c /\ LastOf(l, last) + 1 + (j - (k + 3)) = j
      BY <1>2, <1>3
    <3>. QED
      BY <3>1
  <2>. QED
    BY <2>1, <2>2
<1>. HIDE DEF B, k
<1>5. ASSUME NEW j \in 1 .. Len(s)
      PROVE  state(j) = ApplyUpdate(state(j - 1), s[j])
  <2>1. j \in Nat /\ j - 1 \in Nat
    BY <1>3
  <2>2. CASE j = 1
    <3>1. s[j] = Message(0, "SNAPSHOT_START", last)
      <4>1. s[j] = SnapshotMessage(B, last, 0)
        BY <1>2, <1>4, <2>2, 1 \in 1 .. k + 3, 1 - 1 = 0
      <4>. QED
        BY <4>1, <1>2 DEF SnapshotMessage, k
    <3>. QED
      BY <3>1, <2>2 DEF ApplyUpdate, Message
  <2>3. CASE j = 2
    <3>1. s[j] = Message(1, "CLEAR", 0)
      <4>1. s[j] = SnapshotMessage(B, last, 1)
        BY <1>2, <1>4, <2>3, 2 \in 1 .. k + 3, 2 - 1 = 1
      <4>. QED
        BY <4>1, <1>2 DEF SnapshotMessage, k
    <3>2. state(j) = {}
      BY <2>3, <1>2
    <3>. QED
      BY <3>1, <3>2, <2>3 DEF ApplyUpdate, Message
  <2>4. CASE j \in 3 .. k + 2
    <3>1. s[j] = SnapshotMessage(B, last, j - 1) /\ j - 1 \in 2 .. k + 1 /\ (j - 1) - 1 = j - 2
      <4>1. j \in 1 .. k + 3 /\ j - 1 \in 2 .. k + 1 /\ (j - 1) - 1 = j - 2
        BY <1>2, <2>4
      <4>. QED
        BY <1>4, <4>1
    <3>2. s[j] = Message(j - 1, "ADD", Nth(B, j - 2))
      BY <3>1, <1>2 DEF SnapshotMessage, k
    <3>3. state(j) = {Nth(B, i) : i \in 1 .. j - 2} /\ state(j - 1) = {Nth(B, i) : i \in 1 .. j - 3}
      <4>1. CASE j = 3
        <5>1. j - 1 = 2 /\ ~(j - 1 <= 1) /\ j - 1 <= k + 2 /\ ~(j <= 1) /\ j <= k + 2 /\ (j - 1) - 2 = j - 3
          BY <4>1, <2>4, <1>2
        <5>. QED
          BY <5>1
      <4>2. CASE j # 3
        <5>1. ~(j - 1 <= 1) /\ j - 1 <= k + 2 /\ ~(j <= 1) /\ j <= k + 2 /\ (j - 1) - 2 = j - 3
          BY <4>2, <2>4, <1>2
        <5>. QED
          BY <5>1
      <4>. QED
        BY <4>1, <4>2
    <3>4. 1 .. j - 2 = (1 .. j - 3) \cup {j - 2}
      BY <2>4, <1>2
    <3>5. state(j) = state(j - 1) \cup {Nth(B, j - 2)}
      <4>. HIDE DEF state
      <4>. QED
        BY <3>3, <3>4
    <3>6. ApplyUpdate(state(j - 1), s[j]) = state(j - 1) \cup {Nth(B, j - 2)}
      <4>. HIDE DEF state
      <4>. QED
        BY <3>2 DEF ApplyUpdate, Message
    <3>. QED
      BY <3>5, <3>6
  <2>5. CASE j = k + 3
    <3>1. s[j] = Message(k + 2, "SNAPSHOT_END", last)
      <4>1. s[j] = SnapshotMessage(B, last, k + 2)
        <5>1. j \in 1 .. k + 3 /\ j - 1 = k + 2
          BY <2>5, <1>2
        <5>. QED
          BY <5>1, <1>4
      <4>. QED
        BY <4>1, <1>2 DEF SnapshotMessage, k
    <3>2. state(j) = BookOf(l, last)
      <4>1. j - (k + 3) = 0 /\ ~(j <= k + 2) /\ ~(j <= 1) /\ last + 0 = last
        BY <2>5, <1>1, <1>2
      <4>. QED
        BY <4>1
    <3>3. state(j - 1) = {Nth(B, i) : i \in 1 .. k}
      <4>1. j - 1 = k + 2 /\ ~(j - 1 <= 1) /\ j - 1 <= k + 2 /\ (j - 1) - 2 = k
        BY <2>5, <1>2
      <4>. QED
        BY <4>1
    <3>. HIDE DEF state
    <3>4. state(j - 1) = state(j)
      BY <3>2, <3>3, <1>2 DEF B
    <3>. QED
      BY <3>1, <3>4 DEF ApplyUpdate, Message
  <2>6. CASE j > k + 3
    <3>1. j \in k + 4 .. k + 3 + c
      <4>1. PICK m \in Nat, n \in Nat : m = k /\ n = Len(s) /\ n = m + 3 + c
        BY <1>2, <1>3
      <4>2. j \in 1 .. n /\ j > m + 3
        BY <4>1, <2>6
      <4>3. j \in m + 4 .. m + 3 + c
        BY <4>1, <4>2
      <4>. QED
        BY <4>1, <4>3
    <3>. DEFINE i == j - (k + 3)
    <3>2. /\ i \in 1 .. c /\ last + i \in 1 .. Len(l) /\ (last + i) - 1 = last + (i - 1)
          /\ (j - 1) - (k + 3) = i - 1
      BY <3>1, <1>1, <1>2
    <3>3. s[j] = l[last + i]
      BY <3>1, <1>4
    <3>4. state(j) = BookOf(l, last + i)
      BY <3>1, <1>2
    <3>5. state(j - 1) = BookOf(l, last + (i - 1))
      <4>1. ~(j - 1 <= 1) /\ ~(j - 1 <= k + 2)
        BY <3>1, <1>2
      <4>. QED
        BY <3>2, <4>1
    <3>6. BookOf(l, last + i) = ApplyUpdate(BookOf(l, (last + i) - 1), l[last + i])
      <4>. HIDE DEF i
      <4>. QED
        BY <3>2, NextBook DEF IsLog
    <3>. QED
      BY <3>2, <3>3, <3>4, <3>5, <3>6
  <2>. QED
    BY <2>1, <2>2, <2>3, <2>4, <2>5, <2>6, <1>2
<1>6. F!IsTrace(g, base, s)
  <2>1. ASSUME NEW j \in 0 .. Len(s)
        PROVE  g[j] = IF j = 0 THEN base ELSE ApplyUpdate(g[j - 1], s[j])
    <3>1. CASE j = 0
      BY <3>1
    <3>2. CASE j # 0
      <4>1. j \in 1 .. Len(s) /\ j - 1 \in 0 .. Len(s)
        BY <3>2, <1>3
      <4>2. g[j] = state(j) /\ g[j - 1] = state(j - 1)
        BY <4>1
      <4>. HIDE DEF state, g
      <4>. QED
        BY <4>1, <4>2, <3>2, <1>5
    <3>. QED
      BY <3>1, <3>2
  <2>2. g = [j \in 0 .. Len(s) |-> g[j]]
    OBVIOUS
  <2>. HIDE DEF g
  <2>. QED
    BY <2>1, <2>2 DEF F!IsTrace
<1>7. F!Fold(base, s) = g[Len(s)]
  <2>. HIDE DEF g
  <2>. QED
    BY <1>6, F!FoldEnd
<1>8. g[Len(s)] = BookOf(l, last + c)
  <2>1. Len(s) \in 0 .. Len(s) /\ ~(Len(s) <= 1) /\ ~(Len(s) <= k + 2) /\ Len(s) - (k + 3) = c
    BY <1>2, <1>3
  <2>. QED
    BY <2>1
<1>. QED
  BY <1>7, <1>8, FoldIsFold

----------------------------------------------------------------------------
(* The consumer's methods.                                                 *)

(* A record with the fields of the consumer.                               *)
IsConsumer(c) ==
  c = [exp_seq_num_ |-> c.exp_seq_num_, packet_lost_ |-> c.packet_lost_, snapshot |-> c.snapshot,
       incremental |-> c.incremental, book |-> c.book]

(* S is the snapshot after `last' updates, up to its message q.            *)
IsQueue(S, l, last, q) ==
  DOMAIN S = 0 .. q /\ \A n \in 0 .. q : S[n] = PartOf(l, last, n)

(* I has updates of the log, each under its number.                        *)
IsKept(I, l) == \A n \in DOMAIN I : n \in 1 .. Len(l) /\ I[n] = l[n]

(* The first missing number: no further than one beyond the log.           *)
LEMMA FirstMissingNumber ==
  ASSUME NEW I, NEW N \in Nat, DOMAIN I \in SUBSET (1 .. N), NEW from \in 1 .. N + 1
  PROVE  /\ FirstMissing(I, from) \in from .. N + 1
         /\ FirstMissing(I, from) \notin DOMAIN I
         /\ \A i \in from .. FirstMissing(I, from) - 1 : i \in DOMAIN I
<1>. DEFINE D == DOMAIN I
            Miss == {n \in from .. N + 1 : n \notin D}
            IsFirst(n) == n \notin D /\ \A i \in from .. n - 1 : i \in D
<1>1. N + 1 \in Miss /\ Miss \in SUBSET Nat
  OBVIOUS
<1>2. PICK x \in Miss : \A y \in Miss : x <= y
  <2>. HIDE DEF Miss
  <2>. QED
    BY <1>1, F!SmallestNumber
<1>3. x \in from .. N + 1 /\ IsFirst(x)
  <2>1. ASSUME NEW i \in from .. x - 1 PROVE i \in D
    <3>1. i \in from .. N + 1 /\ ~(x <= i)
      BY <1>2
    <3>2. i \notin Miss
      BY <3>1, <1>2
    <3>. QED
      BY <3>1, <3>2
  <2>. QED
    BY <1>2, <2>1
<1>4. IsFiniteSet(1 .. N)
  BY FS_Interval
<1>5. IsFiniteSet(D) /\ Cardinality(D) \in Nat
  BY <1>4, FS_Subset, FS_CardinalityType
<1>6. x - from <= Cardinality(D)
  <2>1. from .. x - 1 \in SUBSET D
    BY <1>3
  <2>2. Cardinality(from .. x - 1) <= Cardinality(D)
    <3>. HIDE DEF D
    <3>. QED
      BY <2>1, <1>5, FS_Subset
  <2>3. Cardinality(from .. x - 1) = x - from
    <3>1. from \in Int /\ x - 1 \in Int /\ (x - 1) - from + 1 = x - from /\ (from > x - 1 => x - from = 0)
      BY <1>3
    <3>2. Cardinality(from .. x - 1) = IF from > x - 1 THEN 0 ELSE (x - 1) - from + 1
      BY <3>1, FS_Interval
    <3>. QED
      BY <3>1, <3>2
  <2>. QED
    BY <2>2, <2>3
<1>7. x \in from .. from + Cardinality(D)
  BY <1>3, <1>5, <1>6
<1>8. ASSUME NEW n \in from .. from + Cardinality(D), IsFirst(n) PROVE n = x
  <2>1. n \in Int /\ x \in Int /\ from <= n /\ from <= x
    BY <1>3, <1>5
  <2>2. ~(n < x)
    <3>1. n < x => n \in from .. x - 1
      BY <2>1
    <3>. QED
      BY <3>1, <1>3, <1>8
  <2>3. ~(x < n)
    <3>1. x < n => x \in from .. n - 1
      BY <2>1
    <3>. QED
      BY <3>1, <1>3, <1>8
  <2>. QED
    BY <2>1, <2>2, <2>3
<1>9. FirstMissing(I, from) = CHOOSE n \in from .. from + Cardinality(D) : IsFirst(n)
  BY DEF FirstMissing
<1>10. FirstMissing(I, from) = x
  <2>. HIDE DEF IsFirst
  <2>. QED
    BY <1>3, <1>7, <1>8, <1>9
<1>. QED
  BY <1>3, <1>10

(* No snapshot message queued: nothing to do.                              *)
LEMMA SyncWithNothing ==
  ASSUME NEW c, DOMAIN c.snapshot = {}
  PROVE  checkSnapshotSync(c) = c
BY DEF checkSnapshotSync

(* The rest of the snapshot is waited for.                                 *)
LEMMA SyncWaits ==
  ASSUME NEW l, IsLog(l), Len(l) <= MaxUpdates, NEW last \in 0 .. Len(l),
         NEW q \in Nat, q < LastOf(l, last), NEW c, IsQueue(c.snapshot, l, last, q)
  PROVE  checkSnapshotSync(c) = c
<1>. DEFINE S == c.snapshot
<1>0. LastOf(l, last) \in Nat
  <2>1. BookOf(l, last) \in SUBSET (1 .. last) /\ last \in Nat
    BY BookIds DEF IsLog
  <2>2. Cardinality(BookOf(l, last)) \in 0 .. last
    BY <2>1, NthOfBook
  <2>. QED
    BY <2>1, <2>2 DEF LastOf
<1>1. DOMAIN S = 0 .. q /\ 0 \in 0 .. q /\ q \in 0 .. q
  BY DEF IsQueue
<1>2. S[0].type_ = "SNAPSHOT_START" /\ S[q].type_ # "SNAPSHOT_END"
  <2>1. S[0] = PartOf(l, last, 0) /\ S[q] = PartOf(l, last, q)
    BY <1>1 DEF IsQueue
  <2>2. 0 \in 0 .. LastOf(l, last) /\ q \in 0 .. LastOf(l, last) /\ q # LastOf(l, last)
    BY <1>0
  <2>. QED
    BY <2>1, <2>2, SnapshotParts
<1>3. Cardinality(DOMAIN S) = q + 1 /\ (q + 1) - 1 = q
  <2>1. Cardinality(0 .. q) = IF 0 > q THEN 0 ELSE q - 0 + 1
    BY FS_Interval
  <2>. QED
    BY <1>1, <2>1
<1>. HIDE DEF S
<1>. QED
  BY <1>1, <1>2, <1>3 DEF checkSnapshotSync, S

(* A snapshot with a gap is thrown away.                                   *)
LEMMA SyncDrops ==
  ASSUME NEW c, NEW a \in Nat,
         \/ DOMAIN c.snapshot = {a} /\ a # 0
         \/ \E q \in Nat : DOMAIN c.snapshot = (0 .. q) \cup {a} /\ a > q + 1
  PROVE  checkSnapshotSync(c) = [c EXCEPT !.snapshot = NoMessages]
<1>. DEFINE D == DOMAIN c.snapshot
<1>1. CASE D = {a} /\ a # 0
  <2>1. Cardinality(D) = 1
    BY <1>1, FS_Singleton
  <2>2. 0 \in 0 .. Cardinality(D) - 1 /\ 0 \notin D /\ D # {}
    BY <2>1, <1>1
  <2>3. D # 0 .. Cardinality(D) - 1
    BY <2>2
  <2>. QED
    BY <2>2, <2>3 DEF checkSnapshotSync
<1>2. CASE \E q \in Nat : D = (0 .. q) \cup {a} /\ a > q + 1
  <2>1. PICK q \in Nat : D = (0 .. q) \cup {a} /\ a > q + 1
    BY <1>2
  <2>2. IsFiniteSet(0 .. q) /\ Cardinality(0 .. q) = q + 1
    <3>1. IsFiniteSet(0 .. q) /\ Cardinality(0 .. q) = IF 0 > q THEN 0 ELSE q - 0 + 1
      BY FS_Interval
    <3>. QED
      BY <3>1
  <2>3. a \notin 0 .. q
    BY <2>1
  <2>4. Cardinality(D) = q + 2
    <3>1. Cardinality((0 .. q) \cup {a}) = (q + 1) + 1
      BY <2>2, <2>3, FS_AddElement
    <3>. QED
      BY <3>1, <2>1
  <2>5. a \in D /\ a \notin 0 .. Cardinality(D) - 1
    BY <2>1, <2>4
  <2>6. D # {} /\ D # 0 .. Cardinality(D) - 1
    BY <2>5
  <2>. QED
    BY <2>6 DEF checkSnapshotSync
<1>. QED
  BY <1>1, <1>2

(* What recovery makes of a consumer.                                      *)
Recovered(l, next) ==
  [exp_seq_num_ |-> next, packet_lost_ |-> FALSE, snapshot |-> NoMessages,
   incremental |-> NoMessages, book |-> BookOf(l, next - 1)]

(* u is s followed by t.                                                   *)
IsJoin(u, s, t, T) ==
  /\ u \in Seq(T) /\ Len(u) = Len(s) + Len(t)
  /\ \A i \in 1 .. Len(s) : u[i] = s[i]
  /\ \A i \in 1 .. Len(t) : u[Len(s) + i] = t[i]

(* Two sequences put together.                                             *)
LEMMA ConcatJoins ==
  ASSUME NEW T, NEW s \in Seq(T), NEW t \in Seq(T)
  PROVE  IsJoin(s \o t, s, t, T)
<1>1. PICK m \in Nat, k \in Nat : m = Len(s) /\ k = Len(t)
  OBVIOUS
<1>2. /\ s \o t \in Seq(T) /\ Len(s \o t) = m + k
      /\ \A i \in 1 .. m + k : (s \o t)[i] = IF i <= m THEN s[i] ELSE t[i - m]
  BY <1>1, ConcatProperties
<1>3. \A i \in 1 .. m : i \in 1 .. m + k /\ i <= m
  OBVIOUS
<1>4. \A i \in 1 .. k : m + i \in 1 .. m + k /\ ~(m + i <= m) /\ m + i - m = i
  OBVIOUS
<1>. QED
  BY <1>1, <1>2, <1>3, <1>4 DEF IsJoin

(* A gapless set of updates from a number on ends before the first missing *)
(* one.                                                                    *)
LEMMA GaplessUpTo ==
  ASSUME NEW I, NEW N \in Nat, DOMAIN I \in SUBSET (1 .. N), NEW from \in 1 .. N + 1,
         Gapless(I, from)
  PROVE  /\ {n \in DOMAIN I : n >= from} = from .. FirstMissing(I, from) - 1
         /\ Cardinality({n \in DOMAIN I : n >= from}) = FirstMissing(I, from) - from
<1>. DEFINE R == {n \in DOMAIN I : n >= from}
            k == Cardinality(R)
            x == FirstMissing(I, from)
<1>1. x \in from .. N + 1 /\ x \notin DOMAIN I /\ \A i \in from .. x - 1 : i \in DOMAIN I
  BY FirstMissingNumber
<1>2. R \in SUBSET (1 .. N) /\ R \in SUBSET DOMAIN I
  OBVIOUS
<1>3. k \in Nat
  <2>1. IsFiniteSet(1 .. N)
    BY FS_Interval
  <2>. HIDE DEF R
  <2>. QED
    BY <1>2, <2>1, FS_Subset, FS_CardinalityType
<1>4. R = from .. from + k - 1
  BY DEF Gapless
<1>. HIDE DEF x
<1>5. x \notin R
  BY <1>1
<1>6. ~(x < from + k)
  <2>1. x < from + k => x \in from .. from + k - 1
    BY <1>1, <1>3
  <2>. QED
    BY <2>1, <1>4, <1>5
<1>7. ~(from + k < x)
  <2>1. from + k < x => from + k \in from .. x - 1
    BY <1>1, <1>3
  <2>2. from + k < x => from + k \in R
    <3>1. from + k >= from
      BY <1>3
    <3>. QED
      BY <2>1, <3>1, <1>1
  <2>3. from + k \notin from .. from + k - 1
    BY <1>3
  <2>. HIDE DEF R, k
  <2>. QED
    BY <2>2, <2>3, <1>4
<1>8. x = from + k
  BY <1>1, <1>3, <1>6, <1>7
<1>9. k = x - from /\ R = from .. x - 1
  <2>1. k = x - from /\ from + k - 1 = x - 1
    BY <1>8, <1>1, <1>3
  <2>. HIDE DEF R, k
  <2>. QED
    BY <2>1, <1>4
<1>. QED
  BY <1>9 DEF x

(* The end of a snapshot: the consumer recovers, or waits for another one. *)
LEMMA SyncEnds ==
  ASSUME NEW l, IsLog(l), Len(l) <= MaxUpdates, NEW last \in 0 .. Len(l), NEW c,
         IsQueue(c.snapshot, l, last, LastOf(l, last)), IsKept(c.incremental, l)
  PROVE  \E next \in last + 1 .. Len(l) + 1 :
           \/ checkSnapshotSync(c) = [[c EXCEPT !.snapshot = NoMessages] EXCEPT !.exp_seq_num_ = next]
           \/ /\ checkSnapshotSync(c) = Recovered(l, next)
              /\ {n \in DOMAIN c.incremental : n >= last + 1} = last + 1 .. next - 1
<1>. DEFINE S == c.snapshot
            I == c.incremental
            e == LastOf(l, last)
            next == FirstMissing(I, last + 1)
<1>0. Len(l) \in Nat /\ last \in Nat /\ last + 1 \in 1 .. Len(l) + 1
  BY DEF IsLog
<1>1. e \in Nat
  <2>1. BookOf(l, last) \in SUBSET (1 .. last)
    BY BookIds
  <2>2. Cardinality(BookOf(l, last)) \in 0 .. last
    BY <1>0, <2>1, NthOfBook
  <2>. QED
    BY <1>0, <2>2 DEF LastOf
<1>. HIDE DEF e
<1>2. /\ DOMAIN S = 0 .. e /\ 0 \in 0 .. e /\ e \in 0 .. e
      /\ \A n \in 0 .. e : S[n] = PartOf(l, last, n)
  BY <1>1 DEF IsQueue, e
<1>3. S[0].type_ = "SNAPSHOT_START" /\ S[e].type_ = "SNAPSHOT_END" /\ S[e].order_id_ = last
  BY <1>2, SnapshotParts DEF e
<1>4. Cardinality(0 .. e) = e + 1 /\ (e + 1) - 1 = e
  <2>1. Cardinality(0 .. e) = IF 0 > e THEN 0 ELSE e - 0 + 1
    BY <1>1, FS_Interval
  <2>. QED
    BY <1>1, <2>1
<1>5. DOMAIN I \in SUBSET (1 .. Len(l)) /\ \A n \in DOMAIN I : I[n] = l[n]
  BY DEF IsKept
<1>6. next \in last + 1 .. Len(l) + 1
  BY <1>0, <1>5, FirstMissingNumber
<1>7. checkSnapshotSync(c) =
        IF ~Gapless(I, last + 1)
        THEN [[c EXCEPT !.snapshot = NoMessages] EXCEPT !.exp_seq_num_ = next]
        ELSE [exp_seq_num_ |-> next, packet_lost_ |-> FALSE,
              snapshot |-> NoMessages, incremental |-> NoMessages,
              book |-> FoldLeft(ApplyUpdate, c.book, InOrder(S, 0) \o InOrder(I, last + 1))]
  <2>1. DOMAIN S # {} /\ DOMAIN S = 0 .. Cardinality(DOMAIN S) - 1
        /\ S[Cardinality(DOMAIN S) - 1] = S[e]
    BY <1>2, <1>4
  <2>. HIDE DEF S, I, next
  <2>. QED
    BY <2>1, <1>3 DEF checkSnapshotSync, S, I, next
<1>8. CASE Gapless(I, last + 1)
  <2>. DEFINE R == {n \in DOMAIN I : n >= last + 1}
              s == InOrder(S, 0) \o InOrder(I, last + 1)
              k == next - (last + 1)
  <2>1. R = last + 1 .. next - 1 /\ Cardinality(R) = k
    BY <1>0, <1>5, <1>8, GaplessUpTo
  <2>2. k \in Nat /\ last + k <= Len(l) /\ last + k = next - 1
    BY <1>0, <1>6
  <2>. HIDE DEF next
  <2>3. InOrder(S, 0) = [i \in 1 .. e + 1 |-> S[i - 1]]
    <3>1. {n \in DOMAIN S : n >= 0} = 0 .. e
      BY <1>2
    <3>2. \A i \in 1 .. e + 1 : 0 + i - 1 = i - 1
      BY <1>1
    <3>3. InOrder(S, 0) = [i \in 1 .. e + 1 |-> S[0 + i - 1]]
      <4>. HIDE DEF S
      <4>. QED
        BY <3>1, <1>4 DEF InOrder
    <3>. QED
      BY <3>2, <3>3
  <2>4. InOrder(I, last + 1) = [i \in 1 .. k |-> I[last + 1 + i - 1]]
    <3>. HIDE DEF I, k
    <3>. QED
      BY <2>1 DEF InOrder
  <2>5. \A i \in 1 .. e + 1 : S[i - 1] \in Messages /\ S[i - 1] = PartOf(l, last, i - 1)
    <3>1. \A i \in 1 .. e + 1 : i - 1 \in 0 .. e
      BY <1>1
    <3>2. \A n \in 0 .. e : PartOf(l, last, n) \in Messages
      BY SnapshotParts DEF e
    <3>. HIDE DEF S
    <3>. QED
      BY <3>1, <3>2, <1>2
  <2>6. \A i \in 1 .. k : I[last + 1 + i - 1] \in Messages /\ I[last + 1 + i - 1] = l[last + i]
    <3>1. ASSUME NEW i \in 1 .. k PROVE I[last + 1 + i - 1] \in Messages /\ I[last + 1 + i - 1] = l[last + i]
      <4>1. last + 1 + i - 1 = last + i /\ last + i \in last + 1 .. next - 1 /\ last + i \in 1 .. Len(l)
        BY <2>2, <1>0
      <4>2. last + i \in DOMAIN I
        BY <4>1, <2>1
      <4>3. l[last + i] \in Messages
        BY <4>1 DEF IsLog
      <4>. QED
        BY <4>1, <4>2, <4>3, <1>5
    <3>. QED
      BY <3>1
  <2>7. /\ s \in Seq(Messages) /\ Len(s) = e + 1 + k
        /\ \A n \in 0 .. e : s[n + 1] = PartOf(l, last, n)
        /\ \A i \in 1 .. k : s[e + 1 + i] = l[last + i]
    <3>. DEFINE s1 == InOrder(S, 0)
                s2 == InOrder(I, last + 1)
    <3>. HIDE DEF S, I, k
    <3>1. s1 \in Seq(Messages) /\ Len(s1) = e + 1 /\ \A i \in 1 .. e + 1 : s1[i] = PartOf(l, last, i - 1)
      BY <2>3, <2>5, <1>1
    <3>2. s2 \in Seq(Messages) /\ Len(s2) = k /\ \A i \in 1 .. k : s2[i] = l[last + i]
      <4>1. s2 = [i \in 1 .. k |-> l[last + i]]
        BY <2>4, <2>6, Zenon
      <4>2. \A i \in 1 .. k : l[last + i] \in Messages
        BY <2>6, Zenon
      <4>. HIDE DEF s2
      <4>. QED
        BY <2>2, <4>1, <4>2
    <3>. HIDE DEF s1, s2
    <3>3. /\ s1 \o s2 \in Seq(Messages) /\ Len(s1 \o s2) = e + 1 + k
          /\ \A i \in 1 .. e + 1 : (s1 \o s2)[i] = s1[i]
          /\ \A i \in 1 .. k : (s1 \o s2)[e + 1 + i] = s2[i]
      <4>1. IsJoin(s1 \o s2, s1, s2, Messages)
        BY <3>1, <3>2, ConcatJoins
      <4>2. Len(s1) = e + 1 /\ Len(s2) = k
        BY <3>1, <3>2
      <4>. QED
        BY <4>1, <4>2 DEF IsJoin
    <3>4. \A n \in 0 .. e : n + 1 \in 1 .. e + 1 /\ (n + 1) - 1 = n
      BY <1>1
    <3>5. \A n \in 0 .. e : (s1 \o s2)[n + 1] = PartOf(l, last, n)
      BY <3>1, <3>3, <3>4
    <3>6. s = s1 \o s2
      BY DEF s1, s2
    <3>. HIDE DEF s
    <3>. QED
      BY <3>2, <3>3, <3>5, <3>6
  <2>. HIDE DEF s, k
  <2>8. FoldLeft(ApplyUpdate, c.book, s) = BookOf(l, last + k)
    BY <2>2, <2>7, ReadSnapshot DEF e
  <2>9. checkSnapshotSync(c) = Recovered(l, next)
    BY <1>7, <1>8, <2>2, <2>8 DEF Recovered, s
  <2>. QED
    BY <1>6, <2>1, <2>9
<1>9. CASE ~Gapless(I, last + 1)
  BY <1>6, <1>7, <1>9
<1>. QED
  BY <1>8, <1>9

(* A consumer that has changed only what it queues and the number it       *)
(* expects.                                                                *)
IsWaiting(r, c, S, x) ==
  /\ IsConsumer(r) /\ r.exp_seq_num_ = x /\ r.packet_lost_ = c.packet_lost_
  /\ r.snapshot = S /\ r.incremental = c.incremental /\ r.book = c.book

(* What a snapshot message leads to: nothing is queued any more, or one    *)
(* message more is queued, or the consumer recovers.                       *)
SnapshotOutcome(r, c, l, last, a) ==
  \/ \E x \in 1 .. Len(l) + 1 : \E S :
       /\ IsWaiting(r, c, S, x)
       /\ DOMAIN S = {} \/ (a < LastOf(l, last) /\ IsQueue(S, l, last, a))
  \/ /\ a = LastOf(l, last)
     /\ \E next \in last + 1 .. Len(l) + 1 :
          /\ r = Recovered(l, next)
          /\ {n \in DOMAIN c.incremental : n >= last + 1} = last + 1 .. next - 1

(* An empty map has no messages.                                           *)
LEMMA NothingQueued == DOMAIN NoMessages = {}
BY DEF NoMessages

(* The first and the last number of a snapshot.                            *)
LEMMA SnapshotNumbers ==
  ASSUME NEW l, IsLog(l), NEW last \in 0 .. Len(l)
  PROVE  LastOf(l, last) \in 2 .. last + 2
<1>1. BookOf(l, last) \in SUBSET (1 .. last) /\ last \in Nat
  BY BookIds DEF IsLog
<1>2. Cardinality(BookOf(l, last)) \in 0 .. last
  BY <1>1, NthOfBook
<1>. QED
  BY <1>1, <1>2 DEF LastOf

(* A snapshot message queued after those before it.                        *)
LEMMA QueueGoesOn ==
  ASSUME NEW l, IsLog(l), Len(l) <= MaxUpdates, NEW last \in 0 .. Len(l),
         NEW a \in 0 .. LastOf(l, last), NEW S, NEW m, m = PartOf(l, last, a),
         \/ a = 0 /\ S = NoMessages
         \/ a > 0 /\ IsQueue(S, l, last, a - 1)
  PROVE  IsQueue(Put(S, m), l, last, a)
<1>0. LastOf(l, last) \in Nat /\ a \in Nat
  BY SnapshotNumbers DEF IsLog
<1>1. m.seq_num_ = a
  BY SnapshotParts
<1>2. DOMAIN S = 0 .. a - 1 /\ \A n \in 0 .. a - 1 : S[n] = PartOf(l, last, n)
  <2>1. CASE a = 0 /\ S = NoMessages
    <3>1. 0 .. a - 1 = {}
      BY <2>1
    <3>. QED
      BY <2>1, <3>1, NothingQueued
  <2>2. CASE a > 0 /\ IsQueue(S, l, last, a - 1)
    BY <2>2 DEF IsQueue
  <2>. QED
    BY <2>1, <2>2
<1>3. Put(S, m) = [n \in 0 .. a |-> IF n = a THEN m ELSE S[n]]
  <2>1. 0 .. a = (0 .. a - 1) \cup {a}
    BY <1>0
  <2>. QED
    BY <1>1, <1>2, <2>1 DEF Put
<1>4. \A n \in 0 .. a : n # a => n \in 0 .. a - 1
  BY <1>0
<1>. QED
  BY <1>2, <1>3, <1>4 DEF IsQueue

(* The consumer with another queue, and then checked.                      *)
LEMMA QueueLeft ==
  ASSUME NEW l, NEW c, IsConsumer(c), c.exp_seq_num_ \in 1 .. Len(l) + 1, NEW S, NEW last, NEW a,
         DOMAIN S = {} \/ (a < LastOf(l, last) /\ IsQueue(S, l, last, a)),
         NEW r, \/ r = [c EXCEPT !.snapshot = S]
                \/ \E T : r = [[c EXCEPT !.snapshot = T] EXCEPT !.snapshot = S]
  PROVE  SnapshotOutcome(r, c, l, last, a)
<1>1. IsWaiting(r, c, S, c.exp_seq_num_)
  BY DEF IsWaiting, IsConsumer
<1>. QED
  BY <1>1 DEF SnapshotOutcome

(* queueMessage with a message of a snapshot.                              *)
LEMMA SnapshotMessageQueued ==
  ASSUME NEW l, IsLog(l), Len(l) <= MaxUpdates, NEW last \in 0 .. Len(l),
         NEW a \in 0 .. LastOf(l, last), NEW m, m = PartOf(l, last, a), is_snapshot,
         NEW c, IsConsumer(c), c.exp_seq_num_ \in 1 .. Len(l) + 1, IsKept(c.incremental, l),
         \/ DOMAIN c.snapshot = {}
         \/ a > 0 /\ IsQueue(c.snapshot, l, last, a - 1)
         \/ \E q \in Nat : DOMAIN c.snapshot = 0 .. q /\ (a = 0 \/ a > q + 1)
  PROVE  SnapshotOutcome(queueMessage(c, m), c, l, last, a)
<1>. DEFINE S  == c.snapshot
            S1 == IF a \in DOMAIN S THEN Put(NoMessages, m) ELSE Put(S, m)
            c1 == [c EXCEPT !.snapshot = S1]
<1>0. LastOf(l, last) \in Nat /\ a \in Nat /\ LastOf(l, last) >= 2
  BY SnapshotNumbers DEF IsLog
<1>1. m.seq_num_ = a
  BY SnapshotParts
<1>2. queueMessage(c, m) = checkSnapshotSync(c1)
  BY <1>1 DEF queueMessage
<1>3. c1.snapshot = S1 /\ c1.incremental = c.incremental
  BY DEF IsConsumer
<1>. HIDE DEF c1
<1>4. DOMAIN S1 = {a} \/ DOMAIN S1 = DOMAIN S \cup {a}
  BY <1>1, NothingQueued DEF Put
<1>5. CASE a = 0
  <2>1. S1 = Put(NoMessages, m) \/ DOMAIN S = {}
    <3>1. \A q \in Nat : 0 \in 0 .. q
      OBVIOUS
    <3>. QED
      BY <1>5, <3>1
  <2>2. S1 = Put(NoMessages, m)
    <3>1. CASE DOMAIN S = {}
      <4>1. S1 = Put(S, m)
        BY <3>1
      <4>2. Put(S, m) = [n \in {a} |-> m] /\ Put(NoMessages, m) = [n \in {a} |-> m]
        BY <3>1, <1>1, NothingQueued DEF Put
      <4>. QED
        BY <4>1, <4>2
    <3>. QED
      BY <2>1, <3>1
  <2>3. IsQueue(S1, l, last, 0)
    BY <1>5, <2>2, QueueGoesOn
  <2>4. checkSnapshotSync(c1) = c1
    BY <1>0, <1>3, <2>3, SyncWaits
  <2>. QED
    <3>1. a < LastOf(l, last) /\ IsQueue(S1, l, last, a)
      BY <1>0, <1>5, <2>3
    <3>2. queueMessage(c, m) = [c EXCEPT !.snapshot = S1]
      BY <1>2, <2>4 DEF c1
    <3>. HIDE DEF S1
    <3>. QED
      BY <3>1, <3>2, QueueLeft
<1>6. CASE a > 0 /\ IsQueue(S, l, last, a - 1)
  <2>1. S1 = Put(S, m)
    <3>1. a \notin 0 .. a - 1
      BY <1>0
    <3>. QED
      BY <1>6, <3>1 DEF IsQueue
  <2>2. IsQueue(S1, l, last, a)
    BY <1>6, <2>1, QueueGoesOn
  <2>3. CASE a < LastOf(l, last)
    <3>1. checkSnapshotSync(c1) = c1
      BY <1>0, <1>3, <2>2, <2>3, SyncWaits
    <3>. QED
      BY <1>2, <2>2, <2>3, <3>1, QueueLeft DEF c1
  <2>4. CASE a = LastOf(l, last)
    <3>1. IsQueue(c1.snapshot, l, last, LastOf(l, last)) /\ IsKept(c1.incremental, l)
      BY <1>3, <2>2, <2>4
    <3>2. PICK next \in last + 1 .. Len(l) + 1 :
            \/ checkSnapshotSync(c1) = [[c1 EXCEPT !.snapshot = NoMessages] EXCEPT !.exp_seq_num_ = next]
            \/ /\ checkSnapshotSync(c1) = Recovered(l, next)
               /\ {n \in DOMAIN c1.incremental : n >= last + 1} = last + 1 .. next - 1
      BY <3>1, SyncEnds
    <3>3. CASE checkSnapshotSync(c1) = [[c1 EXCEPT !.snapshot = NoMessages] EXCEPT !.exp_seq_num_ = next]
      <4>1. IsWaiting(checkSnapshotSync(c1), c, NoMessages, next)
        BY <3>3 DEF c1, IsWaiting, IsConsumer
      <4>2. next \in 1 .. Len(l) + 1
        BY DEF IsLog
      <4>. QED
        BY <1>2, <4>1, <4>2, NothingQueued DEF SnapshotOutcome
    <3>4. CASE /\ checkSnapshotSync(c1) = Recovered(l, next)
               /\ {n \in DOMAIN c1.incremental : n >= last + 1} = last + 1 .. next - 1
      BY <1>2, <1>3, <2>4, <3>4 DEF SnapshotOutcome
    <3>. QED
      BY <3>2, <3>3, <3>4
  <2>. QED
    BY <1>0, <2>3, <2>4
<1>7. CASE a > 0 /\ ~IsQueue(S, l, last, a - 1)
  <2>1. \/ DOMAIN S1 = {a} /\ a # 0
        \/ \E q \in Nat : DOMAIN S1 = (0 .. q) \cup {a} /\ a > q + 1
    <3>1. CASE DOMAIN S = {}
      BY <3>1, <1>4, <1>7
    <3>2. CASE \E q \in Nat : DOMAIN S = 0 .. q /\ a > q + 1
      BY <3>2, <1>4, <1>7
    <3>. QED
      BY <3>1, <3>2, <1>7
  <2>2. checkSnapshotSync(c1) = [c1 EXCEPT !.snapshot = NoMessages]
    BY <1>0, <1>3, <2>1, SyncDrops
  <2>. QED
    BY <1>2, <2>2, NothingQueued, QueueLeft DEF c1
<1>. QED
  BY <1>0, <1>5, <1>6, <1>7

(* What an update leads to: it is taken, or recovery begins with it, or it *)
(* is kept for recovery.                                                   *)
UpdateOutcome(r, c, l, n) ==
  /\ IsConsumer(r)
  /\ \/ /\ ~c.packet_lost_ /\ n = c.exp_seq_num_
        /\ r.exp_seq_num_ = n + 1 /\ r.packet_lost_ = FALSE /\ r.book = ApplyUpdate(c.book, l[n])
        /\ r.snapshot = c.snapshot /\ r.incremental = c.incremental
     \/ /\ ~c.packet_lost_ /\ n # c.exp_seq_num_
        /\ r.exp_seq_num_ = c.exp_seq_num_ /\ r.packet_lost_ = TRUE /\ r.book = c.book
        /\ DOMAIN r.snapshot = {} /\ DOMAIN r.incremental = {n} /\ IsKept(r.incremental, l)
     \/ /\ c.packet_lost_
        /\ r.exp_seq_num_ = c.exp_seq_num_ /\ r.packet_lost_ = TRUE /\ r.book = c.book
        /\ r.snapshot = c.snapshot
        /\ DOMAIN r.incremental = DOMAIN c.incremental \cup {n} /\ IsKept(r.incremental, l)

(* An update put under its number.                                         *)
LEMMA UpdateKept ==
  ASSUME NEW l, IsLog(l), NEW n \in 1 .. Len(l), NEW I, IsKept(I, l)
  PROVE  DOMAIN Put(I, l[n]) = DOMAIN I \cup {n} /\ IsKept(Put(I, l[n]), l)
<1>1. l[n].seq_num_ = n
  BY DEF IsLog
<1>2. Put(I, l[n]) = [k \in DOMAIN I \cup {n} |-> IF k = n THEN l[n] ELSE I[k]]
  BY <1>1 DEF Put
<1>. QED
  BY <1>2 DEF IsKept

(* receiveMessage with an update.                                          *)
LEMMA UpdateReceived ==
  ASSUME NEW l, IsLog(l), Len(l) <= MaxUpdates, NEW n \in 1 .. Len(l), ~is_snapshot,
         NEW c, IsConsumer(c), c.packet_lost_ \in BOOLEAN, IsKept(c.incremental, l),
         \/ DOMAIN c.snapshot = {}
         \/ \E last \in 0 .. Len(l), q \in Nat :
              q < LastOf(l, last) /\ IsQueue(c.snapshot, l, last, q)
  PROVE  UpdateOutcome(receiveMessage(c, l[n]), c, l, n)
<1>. DEFINE m == l[n]
            r == receiveMessage(c, m)
<1>1. m.seq_num_ = n
  BY DEF IsLog
<1>2. CASE ~c.packet_lost_ /\ n = c.exp_seq_num_
  <2>1. r = [c EXCEPT !.exp_seq_num_ = @ + 1, !.book = ApplyUpdate(@, m)]
    BY <1>1, <1>2 DEF receiveMessage
  <2>2. c.packet_lost_ = FALSE
    BY <1>2
  <2>. HIDE DEF r
  <2>. QED
    BY <2>1, <2>2, <1>2 DEF IsConsumer, UpdateOutcome, r
<1>3. CASE ~c.packet_lost_ /\ n # c.exp_seq_num_
  <2>. DEFINE c1 == [startSnapshotSync(c) EXCEPT !.packet_lost_ = TRUE]
              c2 == [c1 EXCEPT !.incremental = Put(@, m)]
  <2>1. r = checkSnapshotSync(c2)
    BY <1>1, <1>3 DEF receiveMessage, queueMessage
  <2>2. /\ IsConsumer(c2) /\ c2.exp_seq_num_ = c.exp_seq_num_ /\ c2.packet_lost_ = TRUE
        /\ c2.book = c.book /\ c2.snapshot = NoMessages /\ c2.incremental = Put(NoMessages, m)
    <3>. DEFINE c0 == startSnapshotSync(c)
    <3>1. /\ IsConsumer(c0) /\ c0.exp_seq_num_ = c.exp_seq_num_ /\ c0.book = c.book
          /\ c0.snapshot = NoMessages /\ c0.incremental = NoMessages
      <4>1. c0 = [c EXCEPT !.snapshot = NoMessages, !.incremental = NoMessages]
        BY DEF startSnapshotSync
      <4>. HIDE DEF c0
      <4>2. PICK d : d = [c EXCEPT !.snapshot = NoMessages]
        OBVIOUS
      <4>3. c0 = [d EXCEPT !.incremental = NoMessages]
        BY <4>1, <4>2
      <4>4. IsConsumer(d) /\ d.exp_seq_num_ = c.exp_seq_num_ /\ d.book = c.book /\ d.snapshot = NoMessages
        BY <4>2 DEF IsConsumer
      <4>. QED
        BY <4>3, <4>4 DEF IsConsumer
    <3>. HIDE DEF c0
    <3>2. /\ IsConsumer(c1) /\ c1.exp_seq_num_ = c.exp_seq_num_ /\ c1.book = c.book
          /\ c1.snapshot = NoMessages /\ c1.incremental = NoMessages /\ c1.packet_lost_ = TRUE
      <4>1. c1 = [c0 EXCEPT !.packet_lost_ = TRUE]
        BY DEF c0
      <4>. HIDE DEF c1
      <4>. QED
        BY <3>1, <4>1 DEF IsConsumer
    <3>. HIDE DEF c1
    <3>. QED
      BY <3>2 DEF IsConsumer
  <2>. HIDE DEF c2
  <2>3. r = c2
    BY <2>1, <2>2, NothingQueued, SyncWithNothing
  <2>4. IsKept(NoMessages, l)
    BY NothingQueued DEF IsKept
  <2>5. DOMAIN Put(NoMessages, m) = {n} /\ IsKept(Put(NoMessages, m), l)
    <3>1. DOMAIN Put(NoMessages, m) = DOMAIN NoMessages \cup {n} /\ IsKept(Put(NoMessages, m), l)
      BY <2>4, UpdateKept
    <3>. QED
      BY <3>1, NothingQueued
  <2>. HIDE DEF r
  <2>. QED
    BY <2>2, <2>3, <2>5, <1>3, NothingQueued DEF UpdateOutcome, r
<1>4. CASE c.packet_lost_
  <2>. DEFINE c2 == [c EXCEPT !.incremental = Put(@, m)]
  <2>1. r = checkSnapshotSync(c2)
    BY <1>4 DEF receiveMessage, queueMessage
  <2>2. /\ IsConsumer(c2) /\ c2.exp_seq_num_ = c.exp_seq_num_ /\ c2.packet_lost_ = c.packet_lost_
        /\ c2.book = c.book /\ c2.snapshot = c.snapshot /\ c2.incremental = Put(c.incremental, m)
    BY DEF IsConsumer
  <2>. HIDE DEF c2
  <2>3. checkSnapshotSync(c2) = c2
    <3>1. CASE DOMAIN c.snapshot = {}
      BY <2>2, <3>1, SyncWithNothing
    <3>2. CASE \E last \in 0 .. Len(l), q \in Nat :
                 q < LastOf(l, last) /\ IsQueue(c.snapshot, l, last, q)
      BY <2>2, <3>2, SyncWaits
    <3>. QED
      BY <3>1, <3>2
  <2>4. DOMAIN Put(c.incremental, m) = DOMAIN c.incremental \cup {n}
        /\ IsKept(Put(c.incremental, m), l)
    BY UpdateKept
  <2>. HIDE DEF r
  <2>. QED
    BY <2>1, <2>2, <2>3, <2>4, <1>4 DEF UpdateOutcome, r
<1>. QED
  BY <1>2, <1>3, <1>4

----------------------------------------------------------------------------
(* The steps.  The log, and the numbers of the snapshots, by the names of  *)
(* the invariant.                                                          *)

(* A part of a snapshot has come, and not its end.                         *)
Unfinished ==
  IF Handling THEN inbound[Len(inbound)].type_ # "SNAPSHOT_END"
  ELSE DOMAIN consumer.snapshot # {}

(* What the invariant says of the log and of its snapshots.                *)
LEMMA LogOfStream ==
  ASSUME StreamInv
  PROVE  /\ IsLog(log) /\ Len(log) \in Nat /\ Len(log) <= MaxUpdates /\ MaxUpdates \in Nat
         /\ \A n : BookAfter(n) = BookOf(log, n)
         /\ \A last, n : Part(last, n) = PartOf(log, last, n)
         /\ \A last : EndOf(last) = LastOf(log, last)
BY BoundsAssumption DEF StreamInv, IsLog, BookAfter, BookOf, Part, PartOf, EndOf, LastOf

(* A snapshot ends with SNAPSHOT_END only.                                 *)
LEMMA HandlingUnfinished ==
  ASSUME StreamInv, inbound \in Seq(Messages), Handling, NEW last \in 0 .. last_seq_num_,
         HandlingOf(last), First + Len(inbound) - 1 # EndOf(last)
  PROVE  Unfinished
<1>. DEFINE k == Len(inbound)
            n == First + k - 1
<1>1. k \in Nat /\ k >= 1 /\ First \in Nat /\ inbound[1] \in Messages
  <2>1. k \in Nat /\ k >= 1 /\ inbound[1] \in Messages
    BY DEF Handling
  <2>. QED
    BY <2>1, BoundsAssumption DEF First, Messages
<1>2. IsLog(log) /\ Len(log) <= MaxUpdates /\ last \in 0 .. Len(log) /\ Len(log) \in Nat
  BY LogOfStream DEF StreamInv
<1>3. LastOf(log, last) \in Nat /\ EndOf(last) = LastOf(log, last)
  BY <1>2, SnapshotNumbers, LogOfStream
<1>4. n \in 0 .. LastOf(log, last) /\ n # LastOf(log, last)
  BY <1>1, <1>3 DEF HandlingOf
<1>5. inbound[k] = PartOf(log, last, n)
  BY <1>1, LogOfStream DEF HandlingOf
<1>. QED
  BY <1>2, <1>4, <1>5, SnapshotParts DEF Unfinished

(* Steps that leave the consumer alone, and what it handles, keep what is  *)
(* known of it.                                                            *)
LEMMA ConsumerStays ==
  ASSUME StreamInv, ConsumerInv, UNCHANGED <<consumer, high>>,
         stale \in BOOLEAN, stale' \in BOOLEAN, stale => stale',
         Handled \in Int, Handled' \in Int, ~stale' => Handled <= Handled',
         last_seq_num_' \in Nat, last_seq_num_ <= last_seq_num_',
         Len(log') \in Nat, Len(log) <= Len(log'),
         \A n \in 1 .. Len(log) : log'[n] = log[n],
         \A n \in 0 .. Len(log) : BookAfter(n)' = BookAfter(n)
  PROVE  ConsumerInv' /\ Floor' <= Floor /\ Floor \in Nat /\ Floor' \in Nat
<1>1. Len(log) \in Nat /\ last_seq_num_ \in Nat /\ high \in Nat /\ high >= 1
  BY LogOfStream DEF StreamInv, ConsumerInv
<1>2. Floor' <= Floor /\ Floor \in Nat /\ Floor' \in Nat
  BY <1>1 DEF Floor
<1>. DEFINE c == consumer
<1>3. c.exp_seq_num_ \in 1 .. Len(log') + 1 /\ high \in 1 .. Len(log') + 1
  BY <1>1 DEF ConsumerInv
<1>4. \A n \in DOMAIN c.incremental : n \in 1 .. Len(log') /\ c.incremental[n] = log'[n]
  BY <1>1 DEF ConsumerInv
<1>5. ASSUME c.packet_lost_
      PROVE  /\ Floor' <= last_seq_num_'
             /\ ~stale' => \A n \in DOMAIN c.incremental : n <= Handled'
  <2>1. Floor <= last_seq_num_
    BY <1>5 DEF ConsumerInv
  <2>2. Floor' <= last_seq_num_'
    BY <2>1, <1>1, <1>2
  <2>3. ASSUME ~stale', NEW n \in DOMAIN c.incremental PROVE n <= Handled'
    <3>1. n \in Int
      BY <2>3, <1>4
    <3>2. ~stale /\ Handled <= Handled'
      BY <2>3
    <3>3. n <= Handled
      BY <2>3, <3>2, <1>5 DEF ConsumerInv
    <3>. QED
      BY <3>1, <3>2, <3>3
  <2>. QED
    BY <2>2, <2>3
<1>6. ASSUME ~c.packet_lost_
      PROVE  /\ c.book = BookAfter(c.exp_seq_num_ - 1)'
             /\ DOMAIN c.snapshot = {}
             /\ ~stale' => /\ c.exp_seq_num_ = high
                           /\ high - 1 <= Handled' \/ high - 1 <= last_seq_num_'
  <2>1. c.exp_seq_num_ - 1 \in 0 .. Len(log)
    BY <1>1 DEF ConsumerInv
  <2>2. c.book = BookAfter(c.exp_seq_num_ - 1)' /\ DOMAIN c.snapshot = {}
    BY <1>6, <2>1 DEF ConsumerInv
  <2>3. ~stale' => /\ c.exp_seq_num_ = high
                   /\ high - 1 <= Handled' \/ high - 1 <= last_seq_num_'
    BY <1>1, <1>6 DEF ConsumerInv
  <2>. QED
    BY <2>2, <2>3
<1>7. ConsumerInv'
  <2>1. /\ c = [exp_seq_num_ |-> c.exp_seq_num_, packet_lost_ |-> c.packet_lost_,
                snapshot |-> c.snapshot, incremental |-> c.incremental, book |-> c.book]
        /\ c.packet_lost_ \in BOOLEAN /\ c.book \subseteq 1 .. MaxUpdates
    BY DEF ConsumerInv
  <2>2. consumer' = c /\ high' = high
    OBVIOUS
  <2>. HIDE DEF c
  <2>. QED
    BY <2>1, <2>2, <1>3, <1>4, <1>5, <1>6 DEF ConsumerInv
<1>. QED
  BY <1>2, <1>7

(* And so does what is known of the datagram being handled.                *)
LEMMA InboundStays ==
  ASSUME StreamInv, InboundInv, UNCHANGED <<inbound, is_snapshot, consumer, stale, heard>>,
         flushed' \in Nat, flushed <= flushed',
         Floor \in Nat, Floor' \in Nat, Floor' <= Floor,
         last_seq_num_' \in Nat, last_seq_num_ <= last_seq_num_',
         snapshotFaults' \in Nat, snapshotFaults <= snapshotFaults',
         \A n \in 1 .. Len(log) : log'[n] = log[n],
         \A n \in 0 .. Len(log) : BookAfter(n)' = BookAfter(n),
         Unfinished => \A last \in 0 .. last_seq_num_, n \in Nat :
                         GoesOn(last, n) => GoesOn(last, n)'
  PROVE  InboundInv'
<1>1. /\ Len(log) \in Nat /\ flushed \in 0 .. Len(log) /\ last_seq_num_ \in 0 .. Len(log)
      /\ snapshotFaults \in Nat /\ inbound \in Seq(Messages) /\ is_snapshot \in BOOLEAN
  BY LogOfStream DEF StreamInv, InboundInv
<1>2. /\ (Handling <=> Handling') /\ First' = First /\ Handled' = Handled
      /\ (Handling => First \in Nat)
  <2>1. Handling => inbound[1] \in Messages
    BY <1>1 DEF Handling
  <2>. QED
    BY <2>1, BoundsAssumption DEF Handling, First, Handled, Messages
<1>3. /\ \A last \in 0 .. last_seq_num_ : EndOf(last)' = EndOf(last)
      /\ \A last \in 0 .. last_seq_num_ : \A n : Part(last, n)' = Part(last, n)
  <2>1. \A last \in 0 .. last_seq_num_ : BookAfter(last)' = BookAfter(last)
    BY <1>1
  <2>. QED
    BY <2>1 DEF EndOf, Part
<1>4. \A last \in 0 .. last_seq_num_ : \A q : Queued(last, q) => Queued(last, q)'
  BY <1>3 DEF Queued
<1>5. /\ \A last \in Floor .. last_seq_num_ : last \in 0 .. last_seq_num_ /\ last \in Floor' .. last_seq_num_'
  BY <1>1
<1>6. ASSUME NEW last \in 0 .. last_seq_num_, Handling, HandlingOf(last)
      PROVE  HandlingOf(last)'
  <2>. DEFINE end == First + Len(inbound) - 1
  <2>1. Len(inbound) \in Nat /\ Len(inbound) >= 1 /\ end \in Nat
    BY <1>1, <1>2, <1>6 DEF Handling
  <2>2. CASE end = EndOf(last)
    BY <1>2, <1>3, <1>6, <2>2 DEF HandlingOf
  <2>3. CASE end # EndOf(last)
    <3>1. PICK e \in Nat : e = end
      BY <2>1
    <3>2. GoesOn(last, e)
      BY <1>6, <2>3, <3>1 DEF HandlingOf
    <3>3. Unfinished
      BY <1>1, <1>6, <2>3, HandlingUnfinished
    <3>4. GoesOn(last, e)'
      BY <3>2, <3>3
    <3>5. First' + Len(inbound') - 1 = e
      BY <1>2, <3>1
    <3>6. GoesOn(last, First + Len(inbound) - 1)'
      BY <3>4, <3>5 DEF GoesOn
    <3>. QED
      BY <1>2, <1>3, <1>6, <3>6 DEF HandlingOf
  <2>. QED
    BY <2>2, <2>3
<1>7. ~is_snapshot' => \A i \in 1 .. Len(inbound') :
                       /\ inbound'[i].seq_num_ \in 1 .. flushed'
                       /\ inbound'[i] = log'[inbound'[i].seq_num_]
                       /\ ~stale' => inbound'[i].seq_num_ = Handled' + i
  <2>. SUFFICES ASSUME ~is_snapshot, NEW i \in 1 .. Len(inbound)
                PROVE /\ inbound[i].seq_num_ \in 1 .. flushed'
                      /\ inbound[i] = log'[inbound[i].seq_num_]
                      /\ ~stale => inbound[i].seq_num_ = Handled + i
    BY <1>2
  <2>1. /\ inbound[i].seq_num_ \in 1 .. flushed
        /\ inbound[i] = log[inbound[i].seq_num_]
        /\ ~stale => inbound[i].seq_num_ = Handled + i
    BY DEF InboundInv
  <2>2. inbound[i].seq_num_ \in 1 .. Len(log)
    BY <1>1, <2>1
  <2>. QED
    BY <1>1, <2>1, <2>2, SMTT(30)
<1>8. ASSUME Handling'
      PROVE  /\ consumer'.packet_lost_
             /\ \E last \in Floor' .. last_seq_num_' :
                  /\ HandlingOf(last)'
                  /\ \/ DOMAIN consumer'.snapshot = {}
                     \/ First' > 0 /\ Queued(last, First - 1)'
                     \/ Broken'
  <2>1. Handling /\ consumer.packet_lost_
    BY <1>2, <1>8 DEF InboundInv
  <2>2. PICK last \in Floor .. last_seq_num_ :
          /\ HandlingOf(last)
          /\ \/ DOMAIN consumer.snapshot = {}
             \/ First > 0 /\ Queued(last, First - 1)
             \/ Broken
    BY <2>1 DEF InboundInv
  <2>3. HandlingOf(last)'
    BY <1>5, <1>6, <2>1, <2>2
  <2>4. Queued(last, First - 1) => Queued(last, First - 1)'
    <3>1. last \in 0 .. last_seq_num_
      BY <1>5
    <3>. QED
      BY <3>1, <1>2, <1>3 DEF Queued
  <2>5. Broken => Broken'
    <3>. SUFFICES ASSUME Broken PROVE Broken'
      OBVIOUS
    <3>1. PICK old \in Floor .. last_seq_num_, q \in 0 .. MaxUpdates + 1 :
            Queued(old, q) /\ (First = 0 \/ First > q + 1)
      BY DEF Broken
    <3>2. Queued(old, q)' /\ old \in Floor' .. last_seq_num_' /\ snapshotFaults' > 0
      BY <1>1, <1>4, <1>5, <3>1, SMTT(30) DEF Broken
    <3>. QED
      BY <1>2, <3>1, <3>2 DEF Broken
  <2>. QED
    BY <1>2, <1>5, <2>1, <2>2, <2>3, <2>4, <2>5
<1>9. ASSUME ~Handling'
      PROVE  \/ DOMAIN consumer'.snapshot = {}
             \/ \E last \in Floor' .. last_seq_num_', q \in 0 .. MaxUpdates + 1 :
                  Queued(last, q)' /\ GoesOn(last, q)'
  <2>1. ~Handling
    BY <1>2, <1>9
  <2>2. CASE DOMAIN consumer.snapshot = {}
    BY <2>2
  <2>3. CASE DOMAIN consumer.snapshot # {}
    <3>1. PICK last \in Floor .. last_seq_num_, q \in 0 .. MaxUpdates + 1 :
            Queued(last, q) /\ GoesOn(last, q)
      BY <2>1, <2>3 DEF InboundInv
    <3>2. Unfinished
      BY <2>1, <2>3 DEF Unfinished
    <3>3. Queued(last, q)' /\ GoesOn(last, q)'
      BY <1>4, <1>5, <3>1, <3>2
    <3>. QED
      BY <1>5, <3>1, <3>3
  <2>. QED
    BY <2>2, <2>3
<1>. QED
  BY <1>1, <1>7, <1>8, <1>9 DEF InboundInv

(* What is left of a sequence after its head.                              *)
LEMMA TailParts ==
  ASSUME NEW T, NEW s \in Seq(T), s # << >>
  PROVE  /\ Len(s) \in Nat /\ Len(s) >= 1 /\ Head(s) = s[1] /\ Head(s) \in T
         /\ Tail(s) \in Seq(T) /\ Len(Tail(s)) = Len(s) - 1
         /\ \A i \in 1 .. Len(s) - 1 : Tail(s)[i] = s[i + 1]
         /\ Tail(s) = << >> <=> Len(s) = 1
<1>1. /\ Len(s) \in Nat /\ Len(s) >= 1 /\ Head(s) = s[1] /\ Head(s) \in T
      /\ Tail(s) \in Seq(T) /\ Len(Tail(s)) = Len(s) - 1
  OBVIOUS
<1>2. \A i \in 1 .. Len(s) - 1 : Tail(s)[i] = s[i + 1]
  OBVIOUS
<1>3. Tail(s) = << >> <=> Len(Tail(s)) = 0
  BY <1>1, EmptySeq
<1>. QED
  BY <1>1, <1>2, <1>3

(* The datagrams of a snapshot: three messages, then one in each.          *)
LEMMA DatagramsOfSnapshot ==
  ASSUME NEW l, IsLog(l), Len(l) <= MaxUpdates, NEW last \in 0 .. Len(l),
         NEW all, all = SnapshotDatagrams(BookOf(l, last), last)
  PROVE  /\ all \in Seq(Seq(Messages)) /\ Len(all) = LastOf(l, last) - 1
         /\ all[1] = <<PartOf(l, last, 0), PartOf(l, last, 1), PartOf(l, last, 2)>>
         /\ \A i \in 2 .. Len(all) : all[i] = <<PartOf(l, last, i + 1)>>
<1>. DEFINE k == Cardinality(BookOf(l, last))
            s == <<<<PartOf(l, last, 0), PartOf(l, last, 1), PartOf(l, last, 2)>>>>
            t == [i \in 1 .. k |-> <<PartOf(l, last, i + 2)>>]
<1>1. LastOf(l, last) = k + 2 /\ k \in Nat
  <2>1. LastOf(l, last) = k + 2 /\ LastOf(l, last) \in 2 .. last + 2 /\ last \in Nat
    BY SnapshotNumbers DEF LastOf, IsLog
  <2>2. BookOf(l, last) \in SUBSET (1 .. last)
    BY BookIds
  <2>3. k \in 0 .. last
    BY <2>1, <2>2, NthOfBook
  <2>. QED
    BY <2>1, <2>3
<1>2. all = s \o t
  BY DEF SnapshotDatagrams, PartOf
<1>. HIDE DEF k
<1>3. \A n \in 0 .. k + 2 : PartOf(l, last, n) \in Messages
  BY <1>1, SnapshotParts
<1>4. s \in Seq(Seq(Messages)) /\ Len(s) = 1
      /\ s[1] = <<PartOf(l, last, 0), PartOf(l, last, 1), PartOf(l, last, 2)>>
  <2>1. PartOf(l, last, 0) \in Messages /\ PartOf(l, last, 1) \in Messages /\ PartOf(l, last, 2) \in Messages
    BY <1>1, <1>3
  <2>. QED
    BY <2>1
<1>5. t \in Seq(Seq(Messages)) /\ Len(t) = k /\ \A i \in 1 .. k : t[i] = <<PartOf(l, last, i + 2)>>
  <2>1. ASSUME NEW i \in 1 .. k PROVE <<PartOf(l, last, i + 2)>> \in Seq(Messages)
    <3>1. PartOf(l, last, i + 2) \in Messages
      BY <1>1, <1>3
    <3>. QED
      BY <3>1
  <2>. QED
    BY <1>1, <2>1
<1>. HIDE DEF s, t
<1>6. IsJoin(all, s, t, Seq(Messages))
  BY <1>2, <1>4, <1>5, ConcatJoins
<1>7. all \in Seq(Seq(Messages)) /\ Len(all) = k + 1 /\ all[1] = s[1]
  BY <1>1, <1>4, <1>5, <1>6 DEF IsJoin
<1>8. ASSUME NEW i \in 2 .. k + 1 PROVE all[i] = <<PartOf(l, last, i + 1)>>
  <2>1. PICK j \in 1 .. k : j = i - 1
    BY <1>1
  <2>2. all[1 + j] = t[j]
    BY <2>1, <1>4, <1>5, <1>6 DEF IsJoin
  <2>3. 1 + j = i /\ j + 2 = i + 1
    BY <2>1, <1>1
  <2>. QED
    BY <2>2, <2>3, <1>5
<1>. QED
  BY <1>1, <1>4, <1>7, <1>8

(* The next datagram of the snapshot, and what is left after it.           *)
LEMMA NextDatagram ==
  ASSUME StreamInv, PublishingInv, publishing # << >>
  PROVE  /\ Head(publishing) \in Seq(Messages) /\ Len(Head(publishing)) >= 1
         /\ Head(publishing) = publishing[1] /\ NextNumber \in Nat
         /\ \A i \in 1 .. Len(Head(publishing)) :
              Head(publishing)[i] = Part(last_seq_num_, NextNumber + i - 1)
         /\ NextNumber + Len(Head(publishing)) - 1 <= EndOf(last_seq_num_)
         /\ IF Tail(publishing) = << >>
            THEN NextNumber + Len(Head(publishing)) - 1 = EndOf(last_seq_num_)
            ELSE Tail(publishing)[1][1].seq_num_ = NextNumber + Len(Head(publishing))
<1>. DEFINE all == SnapshotDatagrams(BookOf(log, last_seq_num_), last_seq_num_)
            p == publishing
            k == Len(all)
            d == k - Len(p) + 1
            P(n) == PartOf(log, last_seq_num_, n)
            e == LastOf(log, last_seq_num_)
<1>1. IsLog(log) /\ Len(log) <= MaxUpdates /\ last_seq_num_ \in 0 .. Len(log)
  BY LogOfStream DEF StreamInv
<1>2. /\ all \in Seq(Seq(Messages)) /\ Len(all) = e - 1 /\ all[1] = <<P(0), P(1), P(2)>>
      /\ \A i \in 2 .. Len(all) : all[i] = <<P(i + 1)>>
  BY <1>1, DatagramsOfSnapshot
<1>3. e \in Nat /\ e >= 2 /\ k = e - 1 /\ EndOf(last_seq_num_) = e
      /\ \A n : Part(last_seq_num_, n) = P(n)
  <2>1. e \in 2 .. last_seq_num_ + 2 /\ last_seq_num_ \in Nat
    BY <1>1, SnapshotNumbers DEF StreamInv, IsLog
  <2>. QED
    BY <2>1, <1>2, LogOfStream
<1>4. /\ p \in Seq(Seq(Messages)) /\ Len(p) \in Nat /\ Len(p) >= 1 /\ Len(p) <= k
      /\ \A i \in 1 .. Len(p) : p[i] = all[k - Len(p) + i]
  <2>1. all = SnapshotDatagrams(BookAfter(last_seq_num_), last_seq_num_)
    BY LogOfStream
  <2>. HIDE DEF all
  <2>. QED
    BY <2>1 DEF PublishingInv
<1>. HIDE DEF all, e, P
<1>5. /\ Head(p) = p[1] /\ p[1] = all[d] /\ d \in 1 .. k
      /\ Tail(p) = << >> <=> d = k
      /\ Tail(p) # << >> => Tail(p)[1] = all[d + 1]
  <2>1. Head(p) = p[1] /\ p[1] = all[d] /\ d \in 1 .. k
    BY <1>3, <1>4
  <2>2. /\ Tail(p) = << >> <=> Len(p) = 1
        /\ \A i \in 1 .. Len(p) - 1 : Tail(p)[i] = p[i + 1]
    BY <1>4, TailParts
  <2>3. ASSUME Len(p) # 1 PROVE Tail(p)[1] = all[d + 1]
    <3>1. 1 \in 1 .. Len(p) - 1 /\ 2 \in 1 .. Len(p)
      <4>1. PICK n \in Nat : n = Len(p) /\ n >= 1 /\ n # 1
        BY <1>4, <2>3
      <4>2. 1 \in 1 .. n - 1 /\ 2 \in 1 .. n
        BY <4>1
      <4>. QED
        BY <4>1, <4>2
    <3>2. k \in Int /\ Len(p) \in Int
      BY <1>3, <1>4
    <3>3. k - Len(p) + 2 = d + 1
      <4>. HIDE DEF k, p
      <4>. QED
        BY <3>2
    <3>4. Tail(p)[1] = p[2]
      BY <2>2, <3>1
    <3>. QED
      BY <3>1, <3>3, <3>4, <1>4
  <2>4. d = k <=> Len(p) = 1
    <3>1. PICK m \in Int, n \in Int : m = k /\ n = Len(p)
      BY <1>3, <1>4
    <3>2. d = m - n + 1
      BY <3>1
    <3>. HIDE DEF k, p, d
    <3>3. d = m <=> n = 1
      BY <3>2
    <3>. QED
      BY <3>1, <3>3
  <2>. HIDE DEF k, p, d
  <2>. QED
    BY <2>1, <2>2, <2>3, <2>4
<1>. HIDE DEF d
<1>6. \A n \in 0 .. e : P(n) \in Messages /\ P(n).seq_num_ = n
  BY <1>1, SnapshotParts DEF e, P
<1>7. ASSUME d # k PROVE Tail(p)[1][1].seq_num_ = d + 2
  <2>1. d + 1 \in 2 .. k /\ d + 2 \in 0 .. e /\ (d + 1) + 1 = d + 2
    BY <1>3, <1>5, <1>7
  <2>2. all[d + 1] = <<P(d + 2)>>
    BY <2>1, <1>2
  <2>3. P(d + 2).seq_num_ = d + 2
    BY <2>1, <1>6
  <2>4. Tail(p)[1] = all[d + 1]
    BY <1>5, <1>7
  <2>. HIDE DEF k, p
  <2>5. Tail(p)[1] = <<P(d + 2)>>
    BY <2>2, <2>4, Zenon
  <2>6. \A m : <<m>>[1] = m
    OBVIOUS
  <2>. QED
    BY <2>3, <2>5, <2>6, Zenon
<1>. DEFINE Starts(a, h) ==
              /\ p[1] \in Seq(Messages) /\ Len(p[1]) = h /\ h >= 1 /\ NextNumber = a
              /\ \A i \in 1 .. h : p[1][i] = P(a + i - 1)
              /\ a + h - 1 <= e /\ (d = k => a + h - 1 = e) /\ d + 2 = a + h
<1>8. ASSUME d = 1 PROVE Starts(0, 3)
  <2>1. p[1] = <<P(0), P(1), P(2)>>
    BY <1>8, <1>5, <1>2
  <2>2. P(0) \in Messages /\ P(1) \in Messages /\ P(2) \in Messages /\ P(0).seq_num_ = 0
    BY <1>3, <1>6
  <2>3. /\ p[1] \in Seq(Messages) /\ Len(p[1]) = 3 /\ p[1][1].seq_num_ = 0
        /\ p[1][1] = P(0) /\ p[1][2] = P(1) /\ p[1][3] = P(2)
    BY <2>1, <2>2
  <2>4. NextNumber = 0
    BY <2>3 DEF NextNumber
  <2>5. ASSUME NEW i \in 1 .. 3 PROVE p[1][i] = P(0 + i - 1)
    <3>1. (i = 1 /\ 0 + i - 1 = 0) \/ (i = 2 /\ 0 + i - 1 = 1) \/ (i = 3 /\ 0 + i - 1 = 2)
      OBVIOUS
    <3>. QED
      BY <3>1, <2>3
  <2>6. 0 + 3 - 1 <= e /\ (d = k => 0 + 3 - 1 = e) /\ d + 2 = 0 + 3
    BY <1>3, <1>8
  <2>. QED
    BY <2>3, <2>4, <2>5, <2>6
<1>9. ASSUME d # 1 PROVE Starts(d + 1, 1)
  <2>1. d \in 2 .. k /\ d + 1 \in 0 .. e
    BY <1>9, <1>5, <1>3
  <2>2. p[1] = <<P(d + 1)>> /\ P(d + 1) \in Messages /\ P(d + 1).seq_num_ = d + 1
    BY <2>1, <1>5, <1>2, <1>6
  <2>3. p[1] \in Seq(Messages) /\ Len(p[1]) = 1 /\ p[1][1] = P(d + 1) /\ p[1][1].seq_num_ = d + 1
    BY <2>2
  <2>4. NextNumber = d + 1
    BY <2>3 DEF NextNumber
  <2>5. ASSUME NEW i \in 1 .. 1 PROVE p[1][i] = P((d + 1) + i - 1)
    <3>1. i = 1 /\ (d + 1) + i - 1 = d + 1
      BY <2>1
    <3>. QED
      BY <3>1, <2>3
  <2>6. (d + 1) + 1 - 1 <= e /\ (d = k => (d + 1) + 1 - 1 = e) /\ d + 2 = (d + 1) + 1
    BY <1>3, <2>1
  <2>. QED
    BY <2>1, <2>3, <2>4, <2>5, <2>6
<1>10. PICK a \in Nat, h \in Nat : Starts(a, h)
  <2>1. d + 1 \in Nat /\ 0 \in Nat /\ 3 \in Nat /\ 1 \in Nat
    BY <1>5
  <2>. HIDE DEF Starts
  <2>. QED
    BY <2>1, <1>8, <1>9
<1>11. Tail(p) # << >> => Tail(p)[1][1].seq_num_ = a + h
  BY <1>5, <1>7, <1>10
<1>12. \A i \in 1 .. h : Head(p)[i] = Part(last_seq_num_, a + i - 1)
  BY <1>3, <1>5, <1>10
<1>. QED
  BY <1>3, <1>5, <1>10, <1>11, <1>12

(* At first nothing has been sent.                                         *)
LEMMA SyncInit ==
  ASSUME Init
  PROVE  SyncInv
<1>1. log \in Seq(Messages) /\ Len(log) = 0 /\ BoundsAssumption
  BY BoundsAssumption DEF Init
<1>2. StreamInv
  <2>1. wire \in Seq(Nat \X Nat) /\ Len(wire) = 0
    BY DEF Init
  <2>2. \A n \in 1 .. 0 : FALSE
    OBVIOUS
  <2>3. /\ flushed = 0 /\ last_seq_num_ = 0 /\ heard = 0 /\ stale = FALSE /\ snapshotFaults = 0
        /\ MaxUpdates \in Nat
    BY BoundsAssumption DEF Init
  <2>4. log \in Seq(Messages) /\ Len(log) <= MaxUpdates
        /\ flushed \in 0 .. Len(log) /\ last_seq_num_ \in 0 .. Len(log) /\ heard \in 0 .. flushed
        /\ stale \in BOOLEAN /\ snapshotFaults \in Nat
    <3>1. 0 \in 0 .. 0 /\ 0 \in Nat /\ 0 <= MaxUpdates /\ FALSE \in BOOLEAN
      BY <2>3
    <3>. QED
      BY <1>1, <2>3, <3>1, Zenon
  <2>5. \A n \in 1 .. Len(log) : FALSE
    BY <1>1, <2>2
  <2>6. \A i \in 1 .. Len(wire) : FALSE
    BY <2>1, <2>2
  <2>. QED
    BY <2>1, <2>4, <2>5, <2>6 DEF StreamInv
<1>3. PublishingInv
  <2>1. IsLog(log) /\ Len(log) <= MaxUpdates /\ last_seq_num_ \in 0 .. Len(log)
        /\ BookAfter(last_seq_num_) = BookOf(log, last_seq_num_)
    BY <1>2, LogOfStream DEF StreamInv
  <2>2. LastOf(log, last_seq_num_) \in 2 .. last_seq_num_ + 2 /\ last_seq_num_ \in Nat
    BY <2>1, SnapshotNumbers DEF Init
  <2>3. Len(SnapshotDatagrams(BookAfter(last_seq_num_), last_seq_num_)) = LastOf(log, last_seq_num_) - 1
    BY <2>1, DatagramsOfSnapshot
  <2>4. publishing \in Seq(Seq(Messages)) /\ Len(publishing) = 0
    BY DEF Init
  <2>. QED
    BY <2>2, <2>3, <2>4 DEF PublishingInv
<1>4. InboundInv
  <2>1. inbound \in Seq(Messages) /\ Len(inbound) = 0 /\ inbound = << >> /\ is_snapshot = FALSE
    BY DEF Init
  <2>2. DOMAIN consumer.snapshot = {}
    BY NothingQueued DEF Init
  <2>3. ~Handling
    BY <2>1 DEF Handling
  <2>4. \A i \in 1 .. Len(inbound) : FALSE
    BY <2>1
  <2>. QED
    BY <2>1, <2>2, <2>3, <2>4 DEF InboundInv
<1>5. ConsumerInv
  <2>1. /\ consumer.exp_seq_num_ = 1 /\ consumer.packet_lost_ = FALSE /\ consumer.book = {}
        /\ consumer.snapshot = NoMessages /\ consumer.incremental = NoMessages
        /\ consumer = [exp_seq_num_ |-> consumer.exp_seq_num_, packet_lost_ |-> consumer.packet_lost_,
                       snapshot |-> consumer.snapshot, incremental |-> consumer.incremental,
                       book |-> consumer.book]
    BY DEF Init
  <2>2. BookAfter(0) = {}
    BY <1>1, <1>2, FirstBook, LogOfStream
  <2>3. high = 1 /\ last_seq_num_ = 0
    BY DEF Init
  <2>4. /\ consumer.exp_seq_num_ \in 1 .. Len(log) + 1 /\ high \in 1 .. Len(log) + 1
        /\ consumer.packet_lost_ \in BOOLEAN /\ consumer.book \subseteq 1 .. MaxUpdates
    <3>1. 1 \in 1 .. 0 + 1 /\ FALSE \in BOOLEAN /\ {} \subseteq 1 .. MaxUpdates
      OBVIOUS
    <3>. QED
      BY <1>1, <2>1, <2>3, <3>1, Zenon
  <2>5. DOMAIN consumer.incremental = {} /\ DOMAIN consumer.snapshot = {}
    BY <2>1, NothingQueued
  <2>6. consumer.book = BookAfter(consumer.exp_seq_num_ - 1)
    <3>1. consumer.exp_seq_num_ - 1 = 0
      BY <2>1
    <3>. QED
      BY <3>1, <2>1, <2>2
  <2>7. consumer.exp_seq_num_ = high /\ high - 1 <= last_seq_num_
    BY <2>1, <2>3
  <2>. QED
    BY <2>1, <2>4, <2>5, <2>6, <2>7 DEF ConsumerInv
<1>. QED
  BY <1>2, <1>3, <1>4, <1>5 DEF SyncInv

(* The numbers of the invariant are numbers.                               *)
LEMMA HandledNumber ==
  ASSUME SyncInv
  PROVE  /\ Handled \in Int /\ Handled <= heard /\ Floor \in Nat /\ heard \in 0 .. Len(log)
         /\ last_seq_num_ \in Nat /\ snapshotFaults \in Nat /\ flushed \in Nat
<1>1. Len(inbound) \in Nat /\ Len(log) \in Nat
  BY LogOfStream DEF SyncInv, InboundInv
<1>2. heard \in 0 .. Len(log) /\ last_seq_num_ \in Nat /\ snapshotFaults \in Nat /\ flushed \in Nat
  BY <1>1 DEF SyncInv, StreamInv
<1>3. Floor \in Nat
  BY <1>1 DEF SyncInv, ConsumerInv, Floor
<1>. QED
  BY <1>1, <1>2, <1>3 DEF Handled

(* An update is numbered.                                                  *)
LEMMA NumberStep ==
  ASSUME SyncInv, Number
  PROVE  SyncInv'
<1>0. StreamInv /\ PublishingInv /\ InboundInv /\ ConsumerInv
  BY DEF SyncInv
<1>1. /\ IsLog(log) /\ Len(log) \in Nat /\ MaxUpdates \in Nat /\ log \in Seq(Messages)
      /\ Len(log) < MaxUpdates
  BY <1>0, LogOfStream DEF Number, StreamInv
<1>. DEFINE n == Len(log) + 1
<1>2. PICK m : /\ log' = Append(log, m) /\ m \in Messages /\ m.seq_num_ = n
               /\ m.type_ \in {"ADD", "CANCEL"} /\ m.order_id_ \in 1 .. n
  <2>. DEFINE A == {i \in 1 .. n - 1 : log[i].type_ = "ADD"}
              new == Cardinality(A) + 1
  <2>1. new \in 1 .. n
    <3>1. IsFiniteSet(1 .. n - 1) /\ Cardinality(1 .. n - 1) = n - 1
      <4>1. /\ IsFiniteSet(1 .. n - 1)
            /\ Cardinality(1 .. n - 1) = IF 1 > n - 1 THEN 0 ELSE (n - 1) - 1 + 1
        <5>1. 1 \in Int /\ n - 1 \in Int
          BY <1>1
        <5>. HIDE DEF n
        <5>. QED
          BY <5>1, FS_Interval
      <4>. QED
        BY <1>1, <4>1
    <3>2. A \in SUBSET (1 .. n - 1)
      OBVIOUS
    <3>3. IsFiniteSet(A) /\ Cardinality(A) <= n - 1
      <4>. HIDE DEF A, n
      <4>. QED
        BY <3>1, <3>2, FS_Subset
    <3>4. Cardinality(A) \in Nat
      BY <3>3, FS_CardinalityType
    <3>. HIDE DEF A
    <3>. QED
      BY <3>3, <3>4, <1>1
  <2>2. BookAfter(n - 1) \in SUBSET (1 .. n - 1)
    <3>1. n - 1 \in 0 .. Len(log) /\ BookAfter(n - 1) = BookOf(log, n - 1)
      BY <1>0, <1>1, LogOfStream
    <3>. QED
      BY <3>1, <1>1, BookIds
  <2>3. \/ log' = Append(log, Message(n, "ADD", new))
        \/ \E id \in BookAfter(n - 1) : log' = Append(log, Message(n, "CANCEL", id))
    BY Zenon DEF Number
  <2>. HIDE DEF new
  <2>4. CASE log' = Append(log, Message(n, "ADD", new))
    <3>1. n \in 0 .. MaxUpdates + 2 /\ new \in 0 .. MaxUpdates
      BY <2>1, <1>1
    <3>2. Message(n, "ADD", new) \in Messages
      BY <3>1 DEF Message, Messages
    <3>. QED
      BY <2>1, <2>4, <3>2 DEF Message
  <2>5. CASE \E id \in BookAfter(n - 1) : log' = Append(log, Message(n, "CANCEL", id))
    <3>1. PICK id \in BookAfter(n - 1) : log' = Append(log, Message(n, "CANCEL", id))
      BY <2>5
    <3>2. id \in 1 .. n /\ id \in 0 .. MaxUpdates /\ n \in 0 .. MaxUpdates + 2
      BY <2>2, <1>1
    <3>3. Message(n, "CANCEL", id) \in Messages
      BY <3>2 DEF Message, Messages
    <3>. QED
      BY <3>1, <3>2, <3>3 DEF Message
  <2>. QED
    BY <2>3, <2>4, <2>5
<1>3. /\ log' \in Seq(Messages) /\ Len(log') = n /\ log'[n] = m
      /\ \A i \in 1 .. Len(log) : log'[i] = log[i]
  BY <1>1, <1>2
<1>4. \A k \in 0 .. Len(log) : BookAfter(k)' = BookAfter(k)
  <2>1. \A k \in 0 .. Len(log) : BookOf(log', k) = BookOf(log, k)
    BY <1>1, <1>2, EarlierBook
  <2>. QED
    BY <2>1 DEF BookOf, BookAfter
<1>5. UNCHANGED <<flushed, last_seq_num_, wire, publishing, inbound, is_snapshot, consumer,
                  snapshotFaults, stale, high, heard>>
  BY DEF Number, inboundVars
<1>6. StreamInv'
  <2>1. \A i \in 1 .. Len(log') : /\ log'[i].seq_num_ = i /\ log'[i].type_ \in {"ADD", "CANCEL"}
                                  /\ log'[i].order_id_ \in 1 .. i
    <3>1. \A i \in 1 .. Len(log') : i = n \/ i \in 1 .. Len(log)
      BY <1>1, <1>3
    <3>. QED
      BY <3>1, <1>1, <1>2, <1>3 DEF IsLog
  <2>2. Len(log') <= MaxUpdates /\ flushed \in 0 .. Len(log') /\ last_seq_num_ \in 0 .. Len(log')
    BY <1>0, <1>1, <1>3 DEF StreamInv
  <2>. QED
    BY <2>1, <2>2, <1>0, <1>3, <1>5 DEF StreamInv
<1>7. PublishingInv'
  <2>1. BookAfter(last_seq_num_)' = BookAfter(last_seq_num_)
    <3>1. last_seq_num_ \in 0 .. Len(log) /\ last_seq_num_' = last_seq_num_
      BY <1>0, <1>5 DEF StreamInv
    <3>2. PICK k \in 0 .. Len(log) : k = last_seq_num_
      BY <3>1
    <3>. QED
      BY <3>1, <3>2, <1>4 DEF BookAfter
  <2>. QED
    BY <2>1, <1>0, <1>5 DEF PublishingInv
<1>8. Handled' = Handled /\ Handled \in Int /\ last_seq_num_ \in Nat /\ flushed \in Nat /\ snapshotFaults \in Nat
  BY <1>5, HandledNumber DEF Handled
<1>9. ConsumerInv' /\ Floor' <= Floor /\ Floor \in Nat /\ Floor' \in Nat
  <2>1. Len(log') \in Nat /\ Len(log) <= Len(log')
    BY <1>1, <1>3
  <2>2. stale \in BOOLEAN /\ stale' = stale
    BY <1>0, <1>5 DEF StreamInv
  <2>. QED
    BY <1>0, <1>3, <1>4, <1>5, <1>8, <2>1, <2>2, ConsumerStays
<1>10. InboundInv'
  <2>1. \A last \in 0 .. last_seq_num_, k \in Nat : GoesOn(last, k) => GoesOn(last, k)'
    BY <1>5 DEF GoesOn, NextNumber
  <2>. QED
    BY <1>0, <1>3, <1>4, <1>5, <1>8, <1>9, <2>1, InboundStays
<1>. QED
  BY <1>6, <1>7, <1>9, <1>10 DEF SyncInv

(* A step that leaves the log and the consumer alone.                      *)
LEMMA QuietStep ==
  ASSUME SyncInv, StreamInv', PublishingInv',
         UNCHANGED <<log, inbound, is_snapshot, consumer, stale, high, heard>>,
         flushed <= flushed', last_seq_num_ <= last_seq_num_', snapshotFaults <= snapshotFaults',
         Unfinished => \A last \in 0 .. last_seq_num_, n \in Nat :
                         GoesOn(last, n) => GoesOn(last, n)'
  PROVE  SyncInv'
<1>0. StreamInv /\ PublishingInv /\ InboundInv /\ ConsumerInv
  BY DEF SyncInv
<1>1. Len(log) \in Nat /\ stale \in BOOLEAN
  BY <1>0, LogOfStream DEF StreamInv
<1>2. /\ Len(log') \in Nat /\ Len(log) <= Len(log') /\ \A n \in 1 .. Len(log) : log'[n] = log[n]
      /\ \A n \in 0 .. Len(log) : BookAfter(n)' = BookAfter(n)
  BY <1>1 DEF BookAfter
<1>3. Handled' = Handled /\ Handled \in Int
  BY HandledNumber DEF Handled
<1>4. flushed' \in Nat /\ last_seq_num_' \in Nat /\ snapshotFaults' \in Nat
  <2>1. Len(log') \in Nat /\ flushed' \in 0 .. Len(log') /\ last_seq_num_' \in 0 .. Len(log')
    BY <1>2 DEF StreamInv
  <2>. QED
    BY <2>1 DEF StreamInv
<1>5. ConsumerInv' /\ Floor' <= Floor /\ Floor \in Nat /\ Floor' \in Nat
  BY <1>0, <1>1, <1>2, <1>3, <1>4, ConsumerStays
<1>6. InboundInv'
  BY <1>0, <1>2, <1>4, <1>5, InboundStays
<1>. QED
  BY <1>5, <1>6 DEF SyncInv

(* The datagram of the numbered updates leaves.                            *)
LEMMA FlushStep ==
  ASSUME SyncInv, Flush
  PROVE  SyncInv'
<1>. DEFINE k == Len(wire)
            d == <<flushed + 1, Len(log)>>
<1>0. StreamInv /\ PublishingInv
  BY DEF SyncInv
<1>1. /\ flushed' = Len(log) /\ wire' = Append(wire, d) /\ flushed < Len(log)
      /\ UNCHANGED <<log, last_seq_num_, publishing, inbound, is_snapshot, consumer, faults,
                     snapshotFaults, stale, high, heard>>
  BY DEF Flush, inboundVars
<1>2. /\ Len(log) \in Nat /\ flushed \in 0 .. Len(log) /\ last_seq_num_ \in 0 .. Len(log)
      /\ heard \in 0 .. flushed /\ snapshotFaults \in Nat /\ wire \in Seq(Nat \X Nat) /\ k \in Nat
  BY <1>0, LogOfStream DEF StreamInv
<1>3. d \in Nat \X Nat /\ d[1] = flushed + 1 /\ d[2] = Len(log)
  BY <1>2
<1>. HIDE DEF d
<1>4. /\ wire' \in Seq(Nat \X Nat) /\ Len(wire') = k + 1 /\ wire'[k + 1] = d
      /\ \A i \in 1 .. k : wire'[i] = wire[i]
  BY <1>1, <1>2, <1>3
<1>5. ASSUME NEW i \in 1 .. k
      PROVE  /\ wire[i][1] \in Nat /\ wire[i][2] \in Nat /\ wire[i][1] >= 1
             /\ wire[i][2] \in 1 .. flushed
  <2>1. wire[i] \in Nat \X Nat
    BY <1>2
  <2>. QED
    BY <2>1, <1>0 DEF StreamInv
<1>6. ASSUME NEW i \in 1 .. Len(wire')
      PROVE  wire'[i][1] >= 1 /\ wire'[i][2] \in 1 .. flushed'
  <2>1. CASE i \in 1 .. k
    <3>1. wire'[i] = wire[i] /\ wire[i][1] >= 1 /\ wire[i][2] \in 1 .. flushed
      BY <2>1, <1>4, <1>5
    <3>. QED
      BY <3>1, <1>1, <1>2
  <2>2. CASE i = k + 1
    BY <2>2, <1>1, <1>2, <1>3, <1>4
  <2>. QED
    BY <2>1, <2>2, <1>2, <1>4
<1>7. ASSUME ~stale', NEW i \in 1 .. Len(wire')
      PROVE  /\ heard' < wire'[i][1] /\ wire'[i][1] <= wire'[i][2]
             /\ \A j \in 1 .. i - 1 : wire'[j][2] < wire'[i][1]
  <2>1. CASE i \in 1 .. k
    <3>1. /\ heard < wire[i][1] /\ wire[i][1] <= wire[i][2]
          /\ \A j \in 1 .. i - 1 : wire[j][2] < wire[i][1]
      BY <2>1, <1>0, <1>1, <1>7 DEF StreamInv
    <3>2. \A j \in 1 .. i - 1 : j \in 1 .. k
      BY <2>1, <1>2
    <3>. QED
      BY <2>1, <3>1, <3>2, <1>1, <1>4
  <2>2. CASE i = k + 1
    <3>1. \A j \in 1 .. i - 1 : j \in 1 .. k /\ wire'[j][2] \in 1 .. flushed
      <4>1. i - 1 = k
        BY <2>2, <1>2
      <4>2. \A j \in 1 .. k : wire'[j] = wire[j] /\ wire[j][2] \in 1 .. flushed
        BY <1>4, <1>5
      <4>. QED
        BY <4>1, <4>2
    <3>2. wire'[i][1] = flushed + 1 /\ wire'[i][2] = Len(log) /\ heard' = heard
      BY <2>2, <1>1, <1>3, <1>4
    <3>3. PICK f \in Nat, n \in Nat, h \in Nat :
            f = flushed /\ n = Len(log) /\ h = heard' /\ h <= f /\ f < n
      <4>1. /\ flushed \in Nat /\ Len(log) \in Nat /\ heard \in Nat
            /\ heard <= flushed /\ flushed < Len(log)
        BY <1>1, <1>2
      <4>. QED
        BY <3>2, <4>1
    <3>. QED
      BY <3>1, <3>2, <3>3
  <2>. QED
    BY <2>1, <2>2, <1>2, <1>4
<1>8. StreamInv'
  <2>1. flushed' \in 0 .. Len(log') /\ heard' \in 0 .. flushed'
    BY <1>1, <1>2
  <2>. QED
    BY <2>1, <1>0, <1>1, <1>4, <1>6, <1>7 DEF StreamInv
<1>9. PublishingInv'
  BY <1>0, <1>1 DEF PublishingInv, BookAfter
<1>10. \A last \in 0 .. last_seq_num_, n \in Nat : GoesOn(last, n) => GoesOn(last, n)'
  BY <1>1 DEF GoesOn, NextNumber
<1>. QED
  BY <1>1, <1>2, <1>8, <1>9, <1>10, QuietStep

(* What is left of the wire without one of its datagrams.                  *)
LEMMA WithoutParts ==
  ASSUME NEW T, NEW s \in Seq(T), NEW i \in 1 .. Len(s)
  PROVE  /\ Without(s, i) \in Seq(T) /\ Len(Without(s, i)) = Len(s) - 1
         /\ \A j \in 1 .. Len(s) - 1 :
              Without(s, i)[j] = IF j < i THEN s[j] ELSE s[j + 1]
<1>. DEFINE t == SubSeq(s, 1, i - 1)
            u == SubSeq(s, i + 1, Len(s))
            n == Len(s)
<1>1. n \in Nat /\ i \in 1 .. n
  OBVIOUS
<1>2. t \in Seq(T) /\ Len(t) = i - 1 /\ \A j \in 1 .. i - 1 : t[j] = s[j]
  BY <1>1
<1>3. u \in Seq(T) /\ Len(u) = n - i /\ \A j \in 1 .. n - i : u[j] = s[i + j]
  BY <1>1
<1>. HIDE DEF t, u
<1>4. IsJoin(Without(s, i), t, u, T)
  BY <1>2, <1>3, ConcatJoins DEF Without, t, u
<1>5. Without(s, i) \in Seq(T) /\ Len(Without(s, i)) = n - 1
  BY <1>1, <1>2, <1>3, <1>4 DEF IsJoin
<1>6. ASSUME NEW j \in 1 .. n - 1, j < i PROVE Without(s, i)[j] = s[j]
  <2>1. j \in 1 .. i - 1
    BY <1>1, <1>6
  <2>. QED
    BY <2>1, <1>2, <1>4 DEF IsJoin
<1>7. ASSUME NEW j \in 1 .. n - 1, ~(j < i) PROVE Without(s, i)[j] = s[j + 1]
  <2>1. PICK a \in 1 .. n - i : a = j - i + 1
    BY <1>1, <1>7
  <2>2. Without(s, i)[(i - 1) + a] = u[a]
    BY <2>1, <1>2, <1>3, <1>4 DEF IsJoin
  <2>3. (i - 1) + a = j /\ i + a = j + 1
    BY <2>1, <1>1
  <2>. QED
    BY <2>1, <2>2, <2>3, <1>3
<1>. QED
  BY <1>5, <1>6, <1>7

(* A datagram less under way: those left are still in order.               *)
LEMMA WireShrinks ==
  ASSUME StreamInv, NEW i \in 1 .. Len(wire), NEW w, w = Without(wire, i)
  PROVE  /\ w \in Seq(Nat \X Nat)
         /\ \A a \in 1 .. Len(w) : w[a][1] >= 1 /\ w[a][2] \in 1 .. flushed
         /\ ~stale => \A a \in 1 .. Len(w) :
                        /\ heard < w[a][1] /\ w[a][1] <= w[a][2]
                        /\ \A j \in 1 .. a - 1 : w[j][2] < w[a][1]
                        /\ i = 1 => wire[1][2] < w[a][1]
<1>. DEFINE k    == Len(wire)
            f(a) == IF a < i THEN a ELSE a + 1
<1>1. wire \in Seq(Nat \X Nat) /\ k \in Nat /\ i \in 1 .. k
  BY DEF StreamInv
<1>2. /\ w \in Seq(Nat \X Nat) /\ Len(w) = k - 1
      /\ \A a \in 1 .. k - 1 : w[a] = wire[f(a)]
  BY <1>1, WithoutParts
<1>3. \A a \in 1 .. k - 1 : /\ f(a) \in 1 .. k /\ (i = 1 => 1 \in 1 .. f(a) - 1)
                            /\ \A j \in 1 .. a - 1 : j \in 1 .. k - 1 /\ f(j) \in 1 .. f(a) - 1
  BY <1>1
<1>. HIDE DEF f
<1>4. \A a \in 1 .. Len(w) : w[a][1] >= 1 /\ w[a][2] \in 1 .. flushed
  <2>1. \A j \in 1 .. k : wire[j][1] >= 1 /\ wire[j][2] \in 1 .. flushed
    BY DEF StreamInv
  <2>2. \A a \in 1 .. k - 1 : w[a] = wire[f(a)] /\ f(a) \in 1 .. k
    BY <1>2, <1>3
  <2>. QED
    BY <2>1, <2>2, <1>2
<1>5. ASSUME ~stale, NEW a \in 1 .. Len(w)
      PROVE  /\ heard < w[a][1] /\ w[a][1] <= w[a][2]
             /\ \A j \in 1 .. a - 1 : w[j][2] < w[a][1]
             /\ i = 1 => wire[1][2] < w[a][1]
  <2>1. a \in 1 .. k - 1 /\ w[a] = wire[f(a)] /\ f(a) \in 1 .. k
    BY <1>2, <1>3
  <2>2. /\ heard < wire[f(a)][1] /\ wire[f(a)][1] <= wire[f(a)][2]
        /\ \A j \in 1 .. f(a) - 1 : wire[j][2] < wire[f(a)][1]
    BY <1>5, <2>1 DEF StreamInv
  <2>3. \A j \in 1 .. a - 1 : w[j] = wire[f(j)] /\ f(j) \in 1 .. f(a) - 1
    BY <1>2, <1>3, <2>1
  <2>4. i = 1 => 1 \in 1 .. f(a) - 1
    BY <1>3, <2>1
  <2>. QED
    BY <2>1, <2>2, <2>3, <2>4
<1>. QED
  BY <1>2, <1>4, <1>5

(* A datagram of the incremental stream is lost.                           *)
LEMMA LoseIncrementalStep ==
  ASSUME SyncInv, NEW i \in 1 .. Len(wire), LoseIncremental(i)
  PROVE  SyncInv'
<1>0. StreamInv /\ PublishingInv
  BY DEF SyncInv
<1>1. /\ wire' = Without(wire, i)
      /\ UNCHANGED <<log, flushed, last_seq_num_, publishing, inbound, is_snapshot, consumer,
                     snapshotFaults, stale, high, heard>>
  BY DEF LoseIncremental, inboundVars, exchangeVars
<1>2. Len(log) \in Nat /\ flushed \in Nat /\ last_seq_num_ \in Nat /\ snapshotFaults \in Nat
  BY HandledNumber, LogOfStream, <1>0
<1>3. StreamInv'
  <2>. DEFINE w == Without(wire, i)
  <2>1. /\ w \in Seq(Nat \X Nat)
        /\ \A a \in 1 .. Len(w) : w[a][1] >= 1 /\ w[a][2] \in 1 .. flushed
        /\ ~stale => \A a \in 1 .. Len(w) :
                        /\ heard < w[a][1] /\ w[a][1] <= w[a][2]
                        /\ \A j \in 1 .. a - 1 : w[j][2] < w[a][1]
    BY <1>0, WireShrinks
  <2>2. wire' = w
    BY <1>1
  <2>. HIDE DEF w
  <2>. QED
    BY <2>1, <2>2, <1>0, <1>1 DEF StreamInv
<1>4. PublishingInv'
  BY <1>0, <1>1 DEF PublishingInv, BookAfter
<1>5. \A last \in 0 .. last_seq_num_, n \in Nat : GoesOn(last, n) => GoesOn(last, n)'
  BY <1>1 DEF GoesOn, NextNumber
<1>. QED
  BY <1>1, <1>2, <1>3, <1>4, <1>5, QuietStep

(* When nothing is left to be sent, the next snapshot may be any.          *)
LEMMA NothingPublished == StreamInv /\ publishing = << >> => PublishingInv
<1>. SUFFICES ASSUME StreamInv, publishing = << >>
              PROVE  PublishingInv
  OBVIOUS
<1>. DEFINE all == SnapshotDatagrams(BookAfter(last_seq_num_), last_seq_num_)
<1>1. IsLog(log) /\ Len(log) <= MaxUpdates /\ last_seq_num_ \in 0 .. Len(log)
      /\ BookAfter(last_seq_num_) = BookOf(log, last_seq_num_)
  BY LogOfStream DEF StreamInv
<1>2. Len(all) = LastOf(log, last_seq_num_) - 1
  BY <1>1, DatagramsOfSnapshot
<1>3. LastOf(log, last_seq_num_) \in 2 .. last_seq_num_ + 2 /\ last_seq_num_ \in Nat
  BY <1>1, SnapshotNumbers DEF StreamInv, IsLog
<1>4. publishing \in Seq(Seq(Messages)) /\ Len(publishing) = 0
  OBVIOUS
<1>5. 0 <= Len(all) /\ \A i \in 1 .. Len(publishing) : FALSE
  BY <1>2, <1>3, <1>4
<1>. HIDE DEF all
<1>6. Len(publishing) <= Len(all)
  BY <1>4, <1>5
<1>. QED
  BY <1>4, <1>5, <1>6 DEF PublishingInv, all

(* The synthetizer takes in an update, between two snapshots.              *)
LEMMA SynthetizeStep ==
  ASSUME SyncInv, Synthetize
  PROVE  SyncInv'
<1>0. StreamInv /\ PublishingInv
  BY DEF SyncInv
<1>1. /\ last_seq_num_' = last_seq_num_ + 1 /\ last_seq_num_ < Len(log) /\ publishing = << >>
      /\ UNCHANGED <<log, flushed, wire, publishing, inbound, is_snapshot, consumer,
                     snapshotFaults, stale, high, heard>>
  BY DEF Synthetize, inboundVars
<1>2. Len(log) \in Nat /\ flushed \in Nat /\ last_seq_num_ \in Nat /\ snapshotFaults \in Nat
  BY HandledNumber, LogOfStream, <1>0
<1>3. StreamInv'
  <2>1. last_seq_num_' \in 0 .. Len(log')
    BY <1>1, <1>2
  <2>. QED
    BY <2>1, <1>0, <1>1 DEF StreamInv
<1>4. PublishingInv'
  <2>1. (StreamInv /\ publishing = << >> => PublishingInv)'
    BY NothingPublished, PTL
  <2>. QED
    BY <2>1, <1>1, <1>3
<1>5. \A last \in 0 .. last_seq_num_, n \in Nat : GoesOn(last, n) => GoesOn(last, n)'
  BY <1>1 DEF GoesOn
<1>. QED
  BY <1>1, <1>2, <1>3, <1>4, <1>5, QuietStep

(* A snapshot begins.                                                      *)
LEMMA PublishSnapshotStep ==
  ASSUME SyncInv, PublishSnapshot
  PROVE  SyncInv'
<1>. DEFINE all == SnapshotDatagrams(BookOf(log, last_seq_num_), last_seq_num_)
<1>0. StreamInv /\ PublishingInv
  BY DEF SyncInv
<1>1. /\ publishing' = all /\ publishing = << >>
      /\ UNCHANGED <<log, flushed, last_seq_num_, wire, inbound, is_snapshot, consumer,
                     snapshotFaults, stale, high, heard>>
  BY <1>0, LogOfStream DEF PublishSnapshot, inboundVars, exchangeVars
<1>2. /\ Len(log) \in Nat /\ flushed \in Nat /\ last_seq_num_ \in Nat /\ snapshotFaults \in Nat
      /\ IsLog(log) /\ Len(log) <= MaxUpdates /\ last_seq_num_ \in 0 .. Len(log)
  BY HandledNumber, LogOfStream, <1>0 DEF StreamInv
<1>3. StreamInv'
  BY <1>0, <1>1 DEF StreamInv
<1>4. /\ all \in Seq(Seq(Messages)) /\ Len(all) = LastOf(log, last_seq_num_) - 1
      /\ all[1] = <<PartOf(log, last_seq_num_, 0), PartOf(log, last_seq_num_, 1),
                    PartOf(log, last_seq_num_, 2)>>
  BY <1>2, DatagramsOfSnapshot
<1>5. all[1][1].seq_num_ = 0
  <2>1. 0 \in 0 .. LastOf(log, last_seq_num_)
    BY <1>2, SnapshotNumbers
  <2>2. PartOf(log, last_seq_num_, 0).seq_num_ = 0
    BY <1>2, <2>1, SnapshotParts
  <2>. QED
    BY <1>4, <2>2
<1>6. PublishingInv'
  <2>1. SnapshotDatagrams(BookAfter(last_seq_num_), last_seq_num_)' = all
    BY <1>0, <1>1, LogOfStream DEF BookAfter
  <2>2. LastOf(log, last_seq_num_) \in 2 .. last_seq_num_ + 2
    BY <1>2, SnapshotNumbers
  <2>3. Len(all) \in Nat /\ \A i \in 1 .. Len(all) : Len(all) - Len(all) + i = i
    BY <1>4, <1>2, <2>2
  <2>. HIDE DEF all
  <2>4. Len(all) <= Len(all) /\ \A i \in 1 .. Len(all) : all[i] = all[Len(all) - Len(all) + i]
    BY <2>3
  <2>. QED
    BY <2>1, <2>4, <1>1, <1>4 DEF PublishingInv
<1>7. \A last \in 0 .. last_seq_num_, n \in Nat : GoesOn(last, n) => GoesOn(last, n)'
  <2>1. NextNumber' = 0
    BY <1>1, <1>5 DEF NextNumber
  <2>. QED
    BY <1>1, <2>1 DEF GoesOn
<1>. QED
  BY <1>1, <1>2, <1>3, <1>6, <1>7, QuietStep

(* A datagram of the snapshot leaves, and the rest of it stays.            *)
LEMMA PublishingShrinks ==
  ASSUME StreamInv, PublishingInv, publishing # << >>,
         publishing' = Tail(publishing), UNCHANGED <<log, last_seq_num_>>
  PROVE  PublishingInv'
<1>. DEFINE all == SnapshotDatagrams(BookAfter(last_seq_num_), last_seq_num_)
            k   == Len(all)
            n   == Len(publishing)
<1>1. /\ publishing \in Seq(Seq(Messages)) /\ n <= k
      /\ \A i \in 1 .. n : publishing[i] = all[k - n + i]
  BY DEF PublishingInv
<1>2. /\ n \in Nat /\ n >= 1 /\ Tail(publishing) \in Seq(Seq(Messages))
      /\ Len(Tail(publishing)) = n - 1
      /\ \A i \in 1 .. n - 1 : Tail(publishing)[i] = publishing[i + 1]
  BY <1>1, TailParts
<1>3. k \in Nat
  <2>1. IsLog(log) /\ Len(log) <= MaxUpdates /\ last_seq_num_ \in 0 .. Len(log)
        /\ BookAfter(last_seq_num_) = BookOf(log, last_seq_num_)
    BY LogOfStream DEF StreamInv
  <2>2. all \in Seq(Seq(Messages))
    BY <2>1, DatagramsOfSnapshot
  <2>. HIDE DEF all
  <2>. QED
    BY <2>2
<1>. HIDE DEF all
<1>4. SnapshotDatagrams(BookAfter(last_seq_num_), last_seq_num_)' = all
  BY DEF all, BookAfter
<1>. HIDE DEF k, n
<1>5. n - 1 <= k /\ \A i \in 1 .. n - 1 : i + 1 \in 1 .. n /\ k - n + (i + 1) = k - (n - 1) + i
  BY <1>1, <1>2, <1>3
<1>6. \A i \in 1 .. n - 1 : Tail(publishing)[i] = all[k - (n - 1) + i]
  BY <1>1, <1>2, <1>5
<1>7. /\ publishing' \in Seq(Seq(Messages)) /\ Len(publishing') <= Len(all)
      /\ \A i \in 1 .. Len(publishing') : publishing'[i] = all[Len(all) - Len(publishing') + i]
  BY <1>2, <1>5, <1>6 DEF k
<1>. QED
  BY <1>4, <1>7 DEF PublishingInv

(* A datagram of a snapshot is lost, but not its beginning while the rest  *)
(* of another is waited for.                                               *)
LEMMA LoseSnapshotStep ==
  ASSUME SyncInv, LoseSnapshot, NextNumber = 0 => ~Unfinished
  PROVE  SyncInv'
<1>0. StreamInv /\ PublishingInv
  BY DEF SyncInv
<1>1. /\ publishing # << >> /\ publishing' = Tail(publishing)
      /\ snapshotFaults' = snapshotFaults + 1
      /\ UNCHANGED <<log, flushed, last_seq_num_, wire, inbound, is_snapshot, consumer,
                     stale, high, heard>>
  BY DEF LoseSnapshot, inboundVars, exchangeVars
<1>2. Len(log) \in Nat /\ flushed \in Nat /\ last_seq_num_ \in Nat /\ snapshotFaults \in Nat
  BY HandledNumber, LogOfStream, <1>0
<1>3. StreamInv'
  <2>1. snapshotFaults' \in Nat
    BY <1>1, <1>2
  <2>. QED
    BY <2>1, <1>0, <1>1 DEF StreamInv
<1>4. PublishingInv'
  BY <1>0, <1>1, PublishingShrinks
<1>5. PICK h \in Nat : h >= 1 /\ (publishing' # << >> => NextNumber' = NextNumber + h)
  <2>1. /\ Head(publishing) \in Seq(Messages) /\ Len(Head(publishing)) >= 1
        /\ Tail(publishing) # << >> =>
             Tail(publishing)[1][1].seq_num_ = NextNumber + Len(Head(publishing))
    BY <1>0, <1>1, NextDatagram
  <2>2. Len(Head(publishing)) \in Nat
    BY <2>1
  <2>. QED
    BY <1>1, <2>1, <2>2 DEF NextNumber
<1>6. ASSUME Unfinished, NEW last \in 0 .. last_seq_num_, NEW n \in Nat, GoesOn(last, n)
      PROVE  GoesOn(last, n)'
  <2>1. NextNumber \in Nat /\ NextNumber # 0 /\ NextNumber >= n + 1
    <3>1. NextNumber \in Nat
      BY <1>0, <1>1, NextDatagram
    <3>. QED
      BY <1>1, <1>6, <3>1 DEF GoesOn
  <2>2. publishing' # << >> => NextNumber' > n + 1
    BY <1>5, <2>1
  <2>3. snapshotFaults' > 0
    BY <1>1, <1>2
  <2>. QED
    BY <2>2, <2>3 DEF GoesOn
<1>. QED
  BY <1>1, <1>2, <1>3, <1>4, <1>6, QuietStep

(* A datagram of a snapshot leaves, and in recovery it arrives.            *)
LEMMA SendSnapshotStep ==
  ASSUME SyncInv, SendSnapshot
  PROVE  SyncInv'
<1>0. StreamInv /\ PublishingInv /\ InboundInv /\ ConsumerInv
  BY DEF SyncInv
<1>1. /\ publishing # << >> /\ publishing' = Tail(publishing) /\ inbound = << >>
      /\ UNCHANGED <<log, flushed, last_seq_num_, wire, consumer, snapshotFaults, stale, high, heard>>
  BY DEF SendSnapshot, exchangeVars
<1>2. /\ Len(log) \in Nat /\ flushed \in Nat /\ last_seq_num_ \in Nat /\ snapshotFaults \in Nat
      /\ last_seq_num_ \in 0 .. Len(log)
  BY HandledNumber, LogOfStream, <1>0 DEF StreamInv
<1>3. StreamInv'
  BY <1>0, <1>1 DEF StreamInv
<1>4. PublishingInv'
  BY <1>0, <1>1, PublishingShrinks
<1>5. ~Handling /\ Handled = heard
  <2>1. Len(inbound) = 0 /\ heard \in Int
    BY <1>1, HandledNumber
  <2>. QED
    BY <1>1, <2>1 DEF Handling, Handled
<1>6. CASE ~consumer.packet_lost_
  <2>1. UNCHANGED <<inbound, is_snapshot>>
    BY <1>6 DEF SendSnapshot, inboundVars
  <2>2. ~Unfinished
    BY <1>0, <1>5, <1>6 DEF ConsumerInv, Unfinished
  <2>. QED
    BY <1>1, <1>2, <1>3, <1>4, <2>1, <2>2, QuietStep
<1>7. CASE consumer.packet_lost_
  <2>1. inbound' = Head(publishing) /\ is_snapshot' = TRUE
    BY <1>7 DEF SendSnapshot
  <2>2. Handled' = heard
    BY <1>1, <2>1 DEF Handled
  <2>3. ConsumerInv' /\ Floor' <= Floor /\ Floor \in Nat /\ Floor' \in Nat
    <3>1. Handled \in Int /\ Handled' \in Int /\ Handled <= Handled'
      BY <1>5, <2>2, HandledNumber
    <3>2. stale \in BOOLEAN /\ stale' = stale
      BY <1>0, <1>1 DEF StreamInv
    <3>3. /\ Len(log') \in Nat /\ Len(log) <= Len(log') /\ \A n \in 1 .. Len(log) : log'[n] = log[n]
          /\ \A n \in 0 .. Len(log) : BookAfter(n)' = BookAfter(n)
          /\ last_seq_num_' \in Nat /\ last_seq_num_ <= last_seq_num_'
      BY <1>1, <1>2 DEF BookAfter
    <3>. QED
      BY <1>0, <1>1, <3>1, <3>2, <3>3, ConsumerStays
  <2>. DEFINE h == Len(Head(publishing))
              end == NextNumber + h - 1
  <2>4. /\ Head(publishing) \in Seq(Messages) /\ h \in Nat /\ h >= 1 /\ NextNumber \in Nat
        /\ Head(publishing) = publishing[1]
        /\ \A i \in 1 .. h : Head(publishing)[i] = Part(last_seq_num_, NextNumber + i - 1)
        /\ end <= EndOf(last_seq_num_)
        /\ Tail(publishing) = << >> => end = EndOf(last_seq_num_)
        /\ Tail(publishing) # << >> => Tail(publishing)[1][1].seq_num_ = NextNumber + h
    <3>1. /\ Head(publishing) \in Seq(Messages) /\ Len(Head(publishing)) >= 1
          /\ Head(publishing) = publishing[1] /\ NextNumber \in Nat
          /\ \A i \in 1 .. Len(Head(publishing)) :
               Head(publishing)[i] = Part(last_seq_num_, NextNumber + i - 1)
          /\ NextNumber + Len(Head(publishing)) - 1 <= EndOf(last_seq_num_)
          /\ IF Tail(publishing) = << >>
             THEN NextNumber + Len(Head(publishing)) - 1 = EndOf(last_seq_num_)
             ELSE Tail(publishing)[1][1].seq_num_ = NextNumber + Len(Head(publishing))
      BY <1>0, <1>1, NextDatagram
    <3>2. h \in Nat
      BY <3>1
    <3>. QED
      BY <3>1, <3>2
  <2>5. First' = NextNumber /\ Handling'
    <3>1. Head(publishing) # << >>
      BY <2>4
    <3>. QED
      BY <2>1, <2>4, <3>1 DEF First, NextNumber, Handling
  <2>6. /\ \A last \in 0 .. last_seq_num_ : EndOf(last)' = EndOf(last)
        /\ \A last \in 0 .. last_seq_num_ : \A n : Part(last, n)' = Part(last, n)
        /\ \A last \in 0 .. last_seq_num_ : \A q : Queued(last, q) => Queued(last, q)'
    BY <1>1 DEF EndOf, Part, Queued, BookAfter
  <2>7. HandlingOf(last_seq_num_)'
    <3>2. PICK e \in Int : e = end
      <4>1. NextNumber \in Nat /\ h \in Nat
        BY <2>4
      <4>. HIDE DEF h
      <4>2. end \in Int
        BY <4>1
      <4>. QED
        BY <4>2
    <3>1. ASSUME e # EndOf(last_seq_num_) PROVE GoesOn(last_seq_num_, e)'
      <4>1. NextNumber' = NextNumber + h /\ publishing' # << >>
        BY <3>1, <3>2, <1>1, <2>4 DEF NextNumber
      <4>2. NextNumber' = e + 1
        BY <2>4, <3>2, <4>1
      <4>. QED
        BY <4>1, <4>2, <1>1 DEF GoesOn
    <3>3. First' + Len(inbound') - 1 = e
      BY <2>1, <2>5, <3>2
    <3>4. e <= EndOf(last_seq_num_)' /\ (e = EndOf(last_seq_num_)' \/ GoesOn(last_seq_num_, e)')
      <4>1. EndOf(last_seq_num_)' = EndOf(last_seq_num_)
        BY <1>1 DEF EndOf, BookAfter
      <4>. QED
        BY <4>1, <2>4, <3>1, <3>2 DEF GoesOn
    <3>5. First' >= 0
      BY <2>4, <2>5
    <3>6. \A i \in 1 .. Len(inbound') : inbound'[i] = Part(last_seq_num_, First + i - 1)'
      BY <1>1, <2>1, <2>4, <2>5 DEF Part, BookAfter
    <3>. QED
      BY <1>1, <3>3, <3>4, <3>5, <3>6 DEF HandlingOf, GoesOn
  <2>8. \/ DOMAIN consumer'.snapshot = {}
        \/ First' > 0 /\ Queued(last_seq_num_, First - 1)'
        \/ Broken'
    <3>1. CASE DOMAIN consumer.snapshot = {}
      BY <3>1, <1>1
    <3>2. CASE DOMAIN consumer.snapshot # {}
      <4>1. PICK last \in Floor .. last_seq_num_, q \in 0 .. MaxUpdates + 1 :
              Queued(last, q) /\ GoesOn(last, q)
        BY <1>0, <1>5, <3>2 DEF InboundInv
      <4>2. last \in 0 .. last_seq_num_ /\ last \in Floor' .. last_seq_num_'
        BY <1>1, <1>2, <2>3
      <4>3. q \in Nat
        BY BoundsAssumption
      <4>4. CASE last = last_seq_num_ /\ NextNumber = q + 1
        <5>1. First' > 0 /\ First' - 1 = q
          BY <2>5, <4>3, <4>4
        <5>2. Queued(last_seq_num_, q)'
          BY <2>6, <4>1, <4>2, <4>4, <1>1 DEF Queued, Part, EndOf, BookAfter
        <5>. QED
          BY <5>1, <5>2 DEF Queued
      <4>5. CASE snapshotFaults > 0 /\ (NextNumber = 0 \/ NextNumber > q + 1)
        <5>1. snapshotFaults' > 0 /\ Queued(last, q)' /\ (First' = 0 \/ First' > q + 1)
          BY <1>1, <2>5, <2>6, <4>1, <4>2, <4>5
        <5>. QED
          BY <5>1, <4>2 DEF Broken
      <4>. QED
        BY <4>1, <4>4, <4>5, <1>1 DEF GoesOn
    <3>. QED
      BY <3>1, <3>2
  <2>9. last_seq_num_ \in Floor' .. last_seq_num_'
    BY <1>0, <1>1, <1>2, <1>7, <2>3 DEF ConsumerInv
  <2>10. InboundInv'
    <3>1. inbound' \in Seq(Messages) /\ is_snapshot' = TRUE /\ consumer'.packet_lost_
      BY <1>1, <1>7, <2>1, <2>4
    <3>2. \E last \in Floor' .. last_seq_num_' :
            /\ HandlingOf(last)'
            /\ \/ DOMAIN consumer'.snapshot = {}
               \/ First' > 0 /\ Queued(last, First - 1)'
               \/ Broken'
      <4>1. PICK last : last = last_seq_num_ /\ last' = last
        OBVIOUS
      <4>2. HandlingOf(last)' /\ (Queued(last_seq_num_, First - 1)' => Queued(last, First - 1)')
        BY <4>1, <1>1, <2>7 DEF HandlingOf, Queued, GoesOn, Part, EndOf
      <4>. QED
        BY <4>1, <4>2, <2>8, <2>9
    <3>. QED
      BY <3>1, <3>2, <2>5 DEF InboundInv
  <2>. QED
    BY <1>3, <1>4, <2>3, <2>10 DEF SyncInv
<1>. QED
  BY <1>6, <1>7

(* A datagram of the incremental stream arrives.                           *)
LEMMA ReceiveIncrementalStep ==
  ASSUME SyncInv, NEW i \in 1 .. Len(wire), NEW duplicate \in BOOLEAN,
         ReceiveIncremental(i, duplicate)
  PROVE  SyncInv'
<1>0. StreamInv /\ PublishingInv /\ InboundInv /\ ConsumerInv
  BY DEF SyncInv
<1>1. /\ inbound = << >> /\ inbound' = SubSeq(log, wire[i][1], wire[i][2]) /\ is_snapshot' = FALSE
      /\ wire' = IF duplicate THEN wire ELSE Without(wire, i)
      /\ stale' = (stale \/ (i > 1 \/ duplicate))
      /\ heard' = IF wire[i][2] > heard THEN wire[i][2] ELSE heard
      /\ UNCHANGED <<log, flushed, last_seq_num_, publishing, consumer, snapshotFaults, high>>
  BY DEF ReceiveIncremental, exchangeVars
<1>2. /\ Len(log) \in Nat /\ flushed \in 0 .. Len(log) /\ last_seq_num_ \in 0 .. Len(log)
      /\ snapshotFaults \in Nat /\ heard \in 0 .. flushed /\ stale \in BOOLEAN
      /\ wire \in Seq(Nat \X Nat) /\ Len(wire) \in Nat /\ log \in Seq(Messages) /\ IsLog(log)
  BY <1>0, LogOfStream DEF StreamInv
<1>3. PICK a \in Nat, b \in Nat :
        /\ a = wire[i][1] /\ b = wire[i][2] /\ a >= 1 /\ b \in 1 .. flushed
        /\ ~stale => heard < a /\ a <= b
  <2>1. wire[i] \in Nat \X Nat
    BY <1>2
  <2>2. wire[i][1] >= 1 /\ wire[i][2] \in 1 .. flushed
        /\ (~stale => heard < wire[i][1] /\ wire[i][1] <= wire[i][2])
    BY <1>0 DEF StreamInv
  <2>. QED
    BY <2>1, <2>2
<1>4. heard' = (IF b > heard THEN b ELSE heard) /\ heard' \in 0 .. flushed
  BY <1>1, <1>2, <1>3
<1>5. stale' \in BOOLEAN /\ (stale => stale') /\ (~stale' => ~stale /\ i = 1 /\ ~duplicate)
  <2>1. stale' = (stale \/ (i > 1 \/ duplicate))
    BY <1>1
  <2>2. stale \in BOOLEAN /\ (i > 1) \in BOOLEAN
    BY <1>2
  <2>3. stale' \in BOOLEAN /\ (stale => stale') /\ (~stale' => ~stale /\ ~(i > 1) /\ ~duplicate)
    BY <2>1, <2>2, Zenon
  <2>4. ~(i > 1) => i = 1
    BY <1>2
  <2>. QED
    BY <2>3, <2>4
<1>6. StreamInv'
  <2>. DEFINE w == Without(wire, i)
  <2>1. /\ w \in Seq(Nat \X Nat)
        /\ \A k \in 1 .. Len(w) : w[k][1] >= 1 /\ w[k][2] \in 1 .. flushed
        /\ ~stale => \A k \in 1 .. Len(w) :
                        /\ heard < w[k][1] /\ w[k][1] <= w[k][2]
                        /\ \A j \in 1 .. k - 1 : w[j][2] < w[k][1]
                        /\ i = 1 => wire[1][2] < w[k][1]
    BY <1>0, WireShrinks
  <2>2. wire' = IF duplicate THEN wire ELSE w
    BY <1>1
  <2>. HIDE DEF w
  <2>3. ASSUME ~stale', NEW k \in 1 .. Len(wire')
        PROVE  /\ heard' < wire'[k][1] /\ wire'[k][1] <= wire'[k][2]
               /\ \A j \in 1 .. k - 1 : wire'[j][2] < wire'[k][1]
    <3>1. ~stale /\ wire' = w /\ i = 1
      BY <1>5, <2>2, <2>3
    <3>2. /\ heard < w[k][1] /\ w[k][1] <= w[k][2] /\ b < w[k][1]
          /\ \A j \in 1 .. k - 1 : w[j][2] < w[k][1]
      BY <2>1, <2>3, <3>1, <1>3
    <3>. QED
      BY <1>4, <3>1, <3>2
  <2>4. /\ wire' \in Seq(Nat \X Nat)
        /\ \A k \in 1 .. Len(wire') : wire'[k][1] >= 1 /\ wire'[k][2] \in 1 .. flushed
    <3>1. \A k \in 1 .. Len(wire) : wire[k][1] >= 1 /\ wire[k][2] \in 1 .. flushed
      BY <1>0 DEF StreamInv
    <3>. QED
      BY <2>1, <2>2, <3>1, <1>2
  <2>. QED
    BY <2>3, <2>4, <1>0, <1>1, <1>4, <1>5 DEF StreamInv
<1>7. PublishingInv'
  BY <1>0, <1>1 DEF PublishingInv, BookAfter
<1>8. PICK N \in Nat, h \in Nat :
        /\ N = Len(log) /\ h = heard /\ a \in Nat /\ a >= 1 /\ b \in 1 .. N
        /\ heard' = (IF b > h THEN b ELSE h) /\ (~stale => h < a /\ a <= b)
  <2>1. Len(log) \in Nat /\ heard \in Nat /\ b \in 1 .. Len(log)
    <3>1. flushed \in 0 .. Len(log) /\ Len(log) \in Nat /\ heard \in 0 .. flushed
      BY <1>2
    <3>2. b \in 1 .. flushed
      BY <1>3
    <3>3. PICK f \in Nat, n \in Nat : f = flushed /\ n = Len(log) /\ f <= n
      BY <3>1
    <3>4. heard \in Nat /\ b \in 1 .. n
      BY <3>1, <3>2, <3>3
    <3>. QED
      BY <3>3, <3>4
  <2>. QED
    BY <2>1, <1>3, <1>4
<1>9. PICK k \in Nat : /\ inbound' \in Seq(Messages) /\ Len(inbound') = k
                       /\ k = IF a <= b THEN b - a + 1 ELSE 0
                       /\ \A j \in 1 .. k : inbound'[j] = log[a + j - 1]
  <2>1. CASE a <= b
    <3>1. /\ a \in 1 .. N /\ b \in 1 .. N /\ b - a + 1 \in Nat
          /\ a \in 1 .. N + 1 /\ b \in a - 1 .. N
      BY <2>1, <1>8
    <3>2. /\ SubSeq(log, a, b) \in Seq(Messages) /\ Len(SubSeq(log, a, b)) = b - a + 1
          /\ \A j \in 1 .. b - a + 1 : SubSeq(log, a, b)[j] = log[a + j - 1]
      <4>1. log \in Seq(Messages) /\ a \in 1 .. Len(log) + 1 /\ b \in a - 1 .. Len(log)
        BY <3>1, <1>2, <1>8
      <4>. QED
        BY <4>1, SubSeqProperties
    <3>. QED
      BY <2>1, <3>1, <3>2, <1>1, <1>3
  <2>2. CASE ~(a <= b)
    <3>1. SubSeq(log, a, b) = << >>
      <4>1. 1 .. (1 + b) - a = {}
        BY <2>2, <1>8
      <4>2. SubSeq(log, a, b) = [j \in 1 .. (1 + b) - a |-> log[(j + a) - 1]]
        OBVIOUS
      <4>. QED
        BY <4>1, <4>2
    <3>2. inbound' = << >> /\ \A j \in 1 .. 0 : FALSE
      BY <3>1, <1>1, <1>3
    <3>. QED
      BY <2>2, <3>2
  <2>. QED
    BY <2>1, <2>2
<1>10. /\ ~Handling /\ ~Handling' /\ Handled = h /\ Handled' = heard' - k
  BY <1>1, <1>2, <1>9, <1>8 DEF Handling, Handled
<1>11. ConsumerInv' /\ Floor' <= Floor /\ Floor \in Nat /\ Floor' \in Nat
  <2>1. Handled \in Int /\ Handled' \in Int
    BY <1>8, <1>10
  <2>2. ~stale' => Handled <= Handled'
    <3>1. k = IF a <= b THEN b - a + 1 ELSE 0
      BY <1>9
    <3>. QED
      BY <3>1, <1>8, <1>5, <1>10
  <2>3. /\ Len(log') \in Nat /\ Len(log) <= Len(log') /\ \A n \in 1 .. Len(log) : log'[n] = log[n]
        /\ \A n \in 0 .. Len(log) : BookAfter(n)' = BookAfter(n)
        /\ last_seq_num_' \in Nat /\ last_seq_num_ <= last_seq_num_'
    BY <1>1, <1>2 DEF BookAfter
  <2>. QED
    BY <1>0, <1>1, <1>2, <1>5, <2>1, <2>2, <2>3, ConsumerStays
<1>12. ASSUME NEW j \in 1 .. Len(inbound')
       PROVE  /\ inbound'[j].seq_num_ \in 1 .. flushed'
              /\ inbound'[j] = log'[inbound'[j].seq_num_]
              /\ ~stale' => inbound'[j].seq_num_ = Handled' + j
  <2>1. PICK n \in Nat : n = a + j - 1 /\ n \in 1 .. flushed /\ n \in 1 .. Len(log) /\ a <= b
    <3>1. j \in 1 .. k /\ k = IF a <= b THEN b - a + 1 ELSE 0
      BY <1>9
    <3>2. a <= b
      BY <3>1
    <3>3. PICK f \in Nat : f = flushed /\ b \in 1 .. f
      BY <1>2, <1>3
    <3>4. a + j - 1 \in 1 .. f /\ a + j - 1 \in 1 .. N
      BY <3>1, <3>2, <3>3, <1>8
    <3>. QED
      BY <3>2, <3>3, <3>4, <1>8
  <2>2. inbound'[j] = log[n] /\ log[n].seq_num_ = n
    BY <2>1, <1>2, <1>9 DEF IsLog
  <2>3. ~stale' => n = Handled' + j
    <3>1. j \in 1 .. k /\ k = IF a <= b THEN b - a + 1 ELSE 0
      BY <1>9
    <3>. QED
      BY <3>1, <2>1, <1>8, <1>5, <1>10
  <2>. QED
    BY <2>1, <2>2, <2>3, <1>1
<1>13. \/ DOMAIN consumer'.snapshot = {}
       \/ \E last \in Floor' .. last_seq_num_', q \in 0 .. MaxUpdates + 1 :
            Queued(last, q)' /\ GoesOn(last, q)'
  <2>1. CASE DOMAIN consumer.snapshot = {}
    BY <2>1, <1>1
  <2>2. CASE DOMAIN consumer.snapshot # {}
    <3>1. PICK last \in Floor .. last_seq_num_, q \in 0 .. MaxUpdates + 1 :
            Queued(last, q) /\ GoesOn(last, q)
      BY <1>0, <1>10, <2>2 DEF InboundInv
    <3>2. last \in Floor' .. last_seq_num_'
      BY <1>1, <1>2, <1>11
    <3>3. Queued(last, q)' /\ GoesOn(last, q)'
      BY <1>1, <3>1 DEF Queued, Part, EndOf, BookAfter, GoesOn, NextNumber
    <3>. QED
      BY <3>2, <3>3
  <2>. QED
    BY <2>1, <2>2
<1>14. InboundInv'
  BY <1>1, <1>9, <1>10, <1>12, <1>13 DEF InboundInv
<1>. QED
  BY <1>6, <1>7, <1>11, <1>14 DEF SyncInv

(* A range within a range.                                                 *)
LEMMA Between ==
  ASSUME NEW f \in Nat, NEW k \in Nat, NEW z \in 0 .. k, NEW m \in f .. z
  PROVE  m \in 0 .. k
OBVIOUS

(* What handling a message leaves alone.                                   *)
LEMMA HandleLeaves ==
  ASSUME SyncInv, HandleMessage
  PROVE  /\ StreamInv' /\ PublishingInv' /\ StreamInv /\ InboundInv /\ ConsumerInv
         /\ inbound # << >> /\ inbound \in Seq(Messages) /\ Head(inbound) = inbound[1]
         /\ Len(inbound) \in Nat /\ Len(inbound) >= 1
         /\ inbound' \in Seq(Messages) /\ Len(inbound') = Len(inbound) - 1
         /\ \A i \in 1 .. Len(inbound') : i + 1 \in 1 .. Len(inbound) /\ inbound'[i] = inbound[i + 1]
         /\ inbound' = << >> <=> Len(inbound) = 1
         /\ consumer' = receiveMessage(consumer, Head(inbound))
         /\ high' = IF consumer'.packet_lost_ \/ consumer'.exp_seq_num_ < high
                    THEN high ELSE consumer'.exp_seq_num_
         /\ UNCHANGED <<log, flushed, last_seq_num_, publishing, is_snapshot, snapshotFaults,
                        stale, heard>>
         /\ IsLog(log) /\ Len(log) \in Nat /\ Len(log) <= MaxUpdates /\ MaxUpdates \in Nat
         /\ flushed \in 0 .. Len(log) /\ last_seq_num_ \in 0 .. Len(log) /\ heard \in Nat
         /\ Floor \in Nat /\ stale \in BOOLEAN /\ is_snapshot \in BOOLEAN
         /\ IsConsumer(consumer) /\ consumer.packet_lost_ \in BOOLEAN
         /\ IsKept(consumer.incremental, log)
         /\ consumer.exp_seq_num_ \in 1 .. Len(log) + 1 /\ high \in 1 .. Len(log) + 1
<1>0. StreamInv /\ PublishingInv /\ InboundInv /\ ConsumerInv
  BY DEF SyncInv
<1>1. /\ inbound # << >> /\ inbound' = Tail(inbound)
      /\ UNCHANGED <<log, flushed, last_seq_num_, wire, publishing, is_snapshot, snapshotFaults,
                     stale, heard>>
  BY DEF HandleMessage, exchangeVars
<1>2. StreamInv' /\ PublishingInv'
  BY <1>0, <1>1 DEF StreamInv, PublishingInv, BookAfter
<1>3. inbound \in Seq(Messages) /\ is_snapshot \in BOOLEAN
  BY <1>0 DEF InboundInv
<1>4. /\ Len(inbound) \in Nat /\ Len(inbound) >= 1 /\ Head(inbound) = inbound[1]
      /\ Tail(inbound) \in Seq(Messages) /\ Len(Tail(inbound)) = Len(inbound) - 1
      /\ \A i \in 1 .. Len(inbound) - 1 : Tail(inbound)[i] = inbound[i + 1]
      /\ Tail(inbound) = << >> <=> Len(inbound) = 1
  BY <1>1, <1>3, TailParts
<1>5. \A i \in 1 .. Len(inbound) - 1 : i + 1 \in 1 .. Len(inbound)
  BY <1>4
<1>6. /\ consumer' = receiveMessage(consumer, Head(inbound))
      /\ high' = IF consumer'.packet_lost_ \/ consumer'.exp_seq_num_ < high
                 THEN high ELSE consumer'.exp_seq_num_
  BY DEF HandleMessage
<1>7. /\ IsLog(log) /\ Len(log) \in Nat /\ Len(log) <= MaxUpdates /\ MaxUpdates \in Nat
      /\ flushed \in 0 .. Len(log) /\ last_seq_num_ \in 0 .. Len(log) /\ heard \in Nat
      /\ Floor \in Nat /\ stale \in BOOLEAN
  <2>1. IsLog(log) /\ Len(log) \in Nat /\ Len(log) <= MaxUpdates /\ MaxUpdates \in Nat
    BY <1>0, LogOfStream
  <2>2. flushed \in 0 .. Len(log) /\ last_seq_num_ \in 0 .. Len(log) /\ stale \in BOOLEAN
    BY <1>0 DEF StreamInv
  <2>3. heard \in Nat /\ Floor \in Nat
    BY HandledNumber
  <2>. QED
    BY <2>1, <2>2, <2>3
<1>8. /\ IsConsumer(consumer) /\ consumer.packet_lost_ \in BOOLEAN
      /\ IsKept(consumer.incremental, log)
      /\ consumer.exp_seq_num_ \in 1 .. Len(log) + 1 /\ high \in 1 .. Len(log) + 1
  BY <1>0 DEF ConsumerInv, IsConsumer, IsKept
<1>. QED
  BY <1>0, <1>1, <1>2, <1>3, <1>4, <1>5, <1>6, <1>7, <1>8

(* The next message is an update.                                          *)
LEMMA HandleUpdateStep ==
  ASSUME SyncInv, HandleMessage, ~is_snapshot
  PROVE  SyncInv'
<1>. DEFINE c == consumer
            r == consumer'
<1>1. PICK n \in 1 .. Len(log) :
        /\ inbound[1] = log[n] /\ (~stale => n = Handled + 1)
        /\ Handled \in Int /\ Handled' = Handled + 1 /\ ~Handling /\ ~Handling'
  <2>1. 1 \in 1 .. Len(inbound)
    BY HandleLeaves
  <2>2. /\ inbound[1].seq_num_ \in 1 .. flushed /\ inbound[1] = log[inbound[1].seq_num_]
        /\ ~stale => inbound[1].seq_num_ = Handled + 1
    BY <2>1, HandleLeaves DEF InboundInv
  <2>3. inbound[1].seq_num_ \in 1 .. Len(log)
    BY <2>2, HandleLeaves
  <2>4. ~is_snapshot' /\ heard' = heard /\ heard \in Nat /\ Len(inbound) \in Nat
        /\ Len(inbound') = Len(inbound) - 1
    BY HandleLeaves
  <2>5. Handled \in Int /\ Handled' = Handled + 1
    BY <2>4 DEF Handled
  <2>6. ~Handling /\ ~Handling'
    BY <2>4 DEF Handling
  <2>. QED
    BY <2>2, <2>3, <2>5, <2>6
<1>2. UpdateOutcome(r, c, log, n)
  <2>1. \/ DOMAIN c.snapshot = {}
        \/ \E last \in 0 .. Len(log), q \in Nat :
             q < LastOf(log, last) /\ IsQueue(c.snapshot, log, last, q)
    <3>1. CASE DOMAIN c.snapshot # {}
      <4>1. PICK last \in Floor .. last_seq_num_, q \in 0 .. MaxUpdates + 1 : Queued(last, q)
        BY <1>1, <3>1, HandleLeaves DEF InboundInv
      <4>2. last \in 0 .. Len(log) /\ q \in Nat
        <5>1. /\ Floor \in Nat /\ last_seq_num_ \in 0 .. Len(log) /\ Len(log) \in Nat
              /\ MaxUpdates \in Nat
          BY HandleLeaves
        <5>2. \A m \in Floor .. last_seq_num_ : m \in 0 .. Len(log)
          BY <5>1, Between
        <5>3. \A m \in 0 .. MaxUpdates + 1 : m \in Nat
          BY <5>1
        <5>. QED
          BY <5>2, <5>3
      <4>3. q < LastOf(log, last) /\ IsQueue(c.snapshot, log, last, q)
        BY <4>1, LogOfStream, HandleLeaves DEF Queued, IsQueue
      <4>. QED
        BY <4>2, <4>3
    <3>. QED
      BY <3>1
  <2>2. r = receiveMessage(c, log[n])
    BY <1>1, HandleLeaves
  <2>3. /\ IsLog(log) /\ Len(log) <= MaxUpdates /\ IsConsumer(c) /\ c.packet_lost_ \in BOOLEAN
        /\ IsKept(c.incremental, log)
    BY HandleLeaves
  <2>. QED
    BY <2>1, <2>2, <2>3, UpdateReceived
<1>3. \A last, q : /\ BookAfter(last)' = BookAfter(last) /\ GoesOn(last, q)' = GoesOn(last, q)
  BY HandleLeaves DEF BookAfter, GoesOn, NextNumber
<1>4. /\ ~is_snapshot' /\ inbound' \in Seq(Messages) /\ is_snapshot' \in BOOLEAN
      /\ \A i \in 1 .. Len(inbound') :
           /\ inbound'[i].seq_num_ \in 1 .. flushed'
           /\ inbound'[i] = log'[inbound'[i].seq_num_]
           /\ ~stale' => inbound'[i].seq_num_ = Handled' + i
  <2>1. ASSUME NEW i \in 1 .. Len(inbound')
        PROVE  /\ inbound'[i].seq_num_ \in 1 .. flushed'
               /\ inbound'[i] = log'[inbound'[i].seq_num_]
               /\ ~stale' => inbound'[i].seq_num_ = Handled' + i
    <3>1. i + 1 \in 1 .. Len(inbound) /\ inbound'[i] = inbound[i + 1]
      BY HandleLeaves
    <3>2. /\ inbound'[i].seq_num_ \in 1 .. flushed
          /\ inbound'[i] = log[inbound'[i].seq_num_]
          /\ ~stale => inbound'[i].seq_num_ = Handled + (i + 1)
      BY <3>1, HandleLeaves DEF InboundInv
    <3>3. UNCHANGED <<log, flushed, stale>>
      BY HandleLeaves
    <3>4. Handled + (i + 1) = Handled' + i
      BY <1>1
    <3>. QED
      BY <3>2, <3>3, <3>4
  <2>. QED
    BY <2>1, HandleLeaves
<1>5. PICK N \in Nat, h \in Nat :
        /\ N = Len(log) /\ h = high /\ h \in 1 .. N + 1 /\ n \in 1 .. N /\ N <= MaxUpdates
        /\ MaxUpdates \in Nat
  BY HandleLeaves
<1>6. CASE ~c.packet_lost_ /\ n = c.exp_seq_num_
  <2>1. /\ IsConsumer(r) /\ r.exp_seq_num_ = n + 1 /\ r.packet_lost_ = FALSE
        /\ r.book = ApplyUpdate(c.book, log[n])
        /\ r.snapshot = c.snapshot /\ r.incremental = c.incremental
    BY <1>2, <1>6, Zenon DEF UpdateOutcome
  <2>2. DOMAIN c.snapshot = {} /\ c.book = BookAfter(n - 1) /\ (~stale => n = h)
    BY <1>5, <1>6, HandleLeaves DEF ConsumerInv
  <2>3. r.book = BookOf(log, n)
    <3>1. BookAfter(n - 1) = BookOf(log, n - 1) /\ log \in Seq(Messages)
      BY LogOfStream, HandleLeaves DEF IsLog
    <3>. QED
      BY <2>1, <2>2, <3>1, NextBook
  <2>4. r.book \subseteq 1 .. MaxUpdates
    <3>1. n \in 0 .. Len(log) /\ IsLog(log) /\ 1 .. n \subseteq 1 .. MaxUpdates
      BY <1>5, HandleLeaves
    <3>2. BookOf(log, n) \in SUBSET (1 .. n)
      BY <3>1, BookIds
    <3>. QED
      BY <2>3, <3>1, <3>2
  <2>5. high' = IF n + 1 < h THEN h ELSE n + 1
    BY <2>1, <1>5, HandleLeaves
  <2>6. /\ r.exp_seq_num_ \in 1 .. Len(log') + 1 /\ high' \in 1 .. Len(log') + 1
        /\ ~stale' => r.exp_seq_num_ = high' /\ high' - 1 <= Handled'
    <3>1. log' = log /\ stale' = stale
      BY HandleLeaves
    <3>2. n + 1 \in 1 .. N + 1 /\ high' \in 1 .. N + 1
      BY <1>5, <2>5
    <3>3. ~stale => high' = n + 1 /\ high' - 1 = Handled'
      BY <1>1, <1>5, <2>2, <2>5
    <3>4. Handled' <= Handled'
      BY <1>1
    <3>5. r.exp_seq_num_ \in 1 .. Len(log') + 1 /\ high' \in 1 .. Len(log') + 1
      BY <1>5, <2>1, <3>1, <3>2
    <3>. QED
      BY <2>1, <3>1, <3>3, <3>4, <3>5
  <2>7. r.book = BookAfter(c.exp_seq_num_ - 1)'
    <3>1. r.exp_seq_num_ - 1 = n
      BY <2>1
    <3>2. BookAfter(n)' = BookOf(log, n)
      BY <1>3, LogOfStream, HandleLeaves
    <3>. QED
      BY <2>3, <3>1, <3>2 DEF BookAfter
  <2>8. \A k \in DOMAIN r.incremental : k \in 1 .. Len(log') /\ r.incremental[k] = log'[k]
    BY <2>1, HandleLeaves DEF IsKept
  <2>9. r.packet_lost_ \in BOOLEAN
    BY <2>1
  <2>10. ConsumerInv'
    BY <2>1, <2>2, <2>4, <2>6, <2>7, <2>8, <2>9 DEF ConsumerInv, IsConsumer
  <2>11. InboundInv'
    BY <1>1, <1>4, <2>1, <2>2 DEF InboundInv
  <2>. QED
    BY <2>10, <2>11, HandleLeaves DEF SyncInv
<1>7. ASSUME r.packet_lost_ = TRUE, r.exp_seq_num_ = c.exp_seq_num_, r.book = c.book, IsConsumer(r),
             IsKept(r.incremental, log), \A k \in DOMAIN r.incremental : ~stale => k <= Handled',
             Floor' <= last_seq_num_, Floor' \in Nat
      PROVE  ConsumerInv'
  <2>1. /\ log' = log /\ stale' = stale /\ last_seq_num_' = last_seq_num_ /\ high' = high
        /\ c.book \subseteq 1 .. MaxUpdates
    BY <1>7, HandleLeaves DEF ConsumerInv
  <2>2. /\ r.exp_seq_num_ \in 1 .. Len(log') + 1 /\ high' \in 1 .. Len(log') + 1
        /\ r.packet_lost_ \in BOOLEAN /\ r.book \subseteq 1 .. MaxUpdates
    BY <1>7, <2>1, HandleLeaves
  <2>3. \A k \in DOMAIN r.incremental : k \in 1 .. Len(log') /\ r.incremental[k] = log'[k]
    BY <1>7, <2>1 DEF IsKept
  <2>. QED
    BY <1>7, <2>1, <2>2, <2>3 DEF ConsumerInv, IsConsumer
<1>8. CASE ~c.packet_lost_ /\ n # c.exp_seq_num_
  <2>1. /\ IsConsumer(r) /\ r.exp_seq_num_ = c.exp_seq_num_ /\ r.packet_lost_ = TRUE
        /\ r.book = c.book /\ DOMAIN r.snapshot = {} /\ DOMAIN r.incremental = {n}
        /\ IsKept(r.incremental, log)
    BY <1>2, <1>8, Zenon DEF UpdateOutcome
  <2>2. high' = h /\ stale' = stale
    BY <2>1, <1>5, HandleLeaves
  <2>3. \A k \in DOMAIN r.incremental : ~stale => k <= Handled'
    <3>1. ~stale => n <= Handled'
      BY <1>1
    <3>. QED
      BY <3>1, <2>1
  <2>4. Floor' <= last_seq_num_ /\ Floor' \in Nat
    <3>1. Floor' = IF ~stale /\ ~(n > h) THEN h - 1 ELSE 0
      <4>1. DOMAIN r.incremental # {} /\ (\A k \in DOMAIN r.incremental : k > high') <=> n > h
        BY <2>1, <2>2
      <4>. QED
        BY <2>1, <2>2, <4>1 DEF Floor
    <3>2. ~stale => c.exp_seq_num_ = high /\ (high - 1 <= Handled \/ high - 1 <= last_seq_num_)
      BY <1>8, HandleLeaves DEF ConsumerInv
    <3>3. ~stale => n # h /\ (h - 1 <= n - 1 \/ h - 1 <= last_seq_num_)
      BY <3>2, <1>1, <1>5, <1>8
    <3>4. PICK f \in Nat : f = last_seq_num_
      BY HandleLeaves
    <3>. QED
      BY <1>5, <3>1, <3>2, <3>3, <3>4
  <2>5. ConsumerInv'
    BY <1>7, <2>1, <2>3, <2>4
  <2>6. InboundInv'
    BY <1>1, <1>4, <2>1 DEF InboundInv
  <2>. QED
    BY <2>5, <2>6, HandleLeaves DEF SyncInv
<1>9. CASE c.packet_lost_
  <2>. DEFINE I == DOMAIN c.incremental
  <2>1. /\ IsConsumer(r) /\ r.exp_seq_num_ = c.exp_seq_num_ /\ r.packet_lost_ = TRUE
        /\ r.book = c.book /\ r.snapshot = c.snapshot /\ DOMAIN r.incremental = I \cup {n}
        /\ IsKept(r.incremental, log)
    BY <1>2, <1>9, Zenon DEF UpdateOutcome
  <2>2. high' = h /\ stale' = stale /\ last_seq_num_' = last_seq_num_
    BY <2>1, <1>5, HandleLeaves
  <2>3. ASSUME ~stale, NEW k \in I PROVE k \in 1 .. N /\ k <= Handled
    BY <1>5, <1>9, <2>3, HandleLeaves DEF ConsumerInv
  <2>4. \A k \in DOMAIN r.incremental : ~stale => k <= Handled'
    <3>1. \A k \in I : ~stale => k \in Int /\ k <= Handled
      BY <2>3
    <3>2. \A k \in I : ~stale => k <= Handled'
      BY <1>1, <3>1
    <3>3. ~stale => n <= Handled'
      BY <1>1
    <3>. QED
      BY <3>2, <3>3, <2>1
  <2>5. Floor' \in Nat /\ Floor' <= Floor
    <3>1. Floor = IF ~stale /\ ~(I # {} /\ \A k \in I : k > h) THEN h - 1 ELSE 0
      BY <1>5, <1>9 DEF Floor
    <3>2. Floor' = IF ~stale /\ ~(\A k \in I \cup {n} : k > h) THEN h - 1 ELSE 0
      BY <2>1, <2>2 DEF Floor
    <3>3. ASSUME ~stale, I # {}, \A k \in I : k > h PROVE \A k \in I \cup {n} : k > h
      <4>1. PICK k \in I : k > h
        BY <3>3
      <4>2. k \in 1 .. N /\ k <= Handled
        BY <2>3, <3>3
      <4>3. n > h
        BY <1>1, <1>5, <3>3, <4>1, <4>2
      <4>. QED
        BY <3>3, <4>3
    <3>4. h - 1 \in Nat
      BY <1>5
    <3>. QED
      BY <3>1, <3>2, <3>3, <3>4
  <2>6. Floor \in Nat /\ Floor <= last_seq_num_ /\ last_seq_num_ \in Nat
    BY <1>9, HandleLeaves DEF ConsumerInv
  <2>7. Floor' <= last_seq_num_
    BY <2>5, <2>6
  <2>8. ConsumerInv'
    BY <1>7, <2>1, <2>4, <2>5, <2>7
  <2>9. \/ DOMAIN r.snapshot = {}
        \/ \E last \in Floor' .. last_seq_num_', q \in 0 .. MaxUpdates + 1 :
             Queued(last, q)' /\ GoesOn(last, q)'
    <3>1. CASE DOMAIN c.snapshot = {}
      BY <2>1, <3>1
    <3>2. CASE DOMAIN c.snapshot # {}
      <4>1. PICK last \in Floor .. last_seq_num_, q \in 0 .. MaxUpdates + 1 :
              Queued(last, q) /\ GoesOn(last, q)
        BY <1>1, <3>2, HandleLeaves DEF InboundInv
      <4>2. last \in Floor' .. last_seq_num_'
        BY <2>2, <2>5, <2>6
      <4>3. Queued(last, q)'
        BY <4>1, <2>1, <1>3 DEF Queued, Part, EndOf
      <4>4. GoesOn(last, q)'
        BY <4>1, <1>3
      <4>. QED
        BY <4>2, <4>3, <4>4
    <3>. QED
      BY <3>1, <3>2
  <2>10. InboundInv'
    BY <1>1, <1>4, <2>9 DEF InboundInv
  <2>. QED
    BY <2>8, <2>10, HandleLeaves DEF SyncInv
<1>. QED
  BY <1>6, <1>8, <1>9

(* The next message is one of a snapshot.                                  *)
LEMMA HandleSnapshotStep ==
  ASSUME SyncInv, HandleMessage, is_snapshot
  PROVE  SyncInv'
<1>. DEFINE c == consumer
            r == consumer'
            I == DOMAIN consumer.incremental
<1>1. Handling /\ c.packet_lost_ = TRUE /\ is_snapshot' = TRUE /\ Handled = heard /\ Handled' = heard
  <2>1. Handling
    BY HandleLeaves DEF Handling
  <2>2. c.packet_lost_ = TRUE
    BY <2>1, HandleLeaves DEF InboundInv
  <2>3. is_snapshot' = is_snapshot /\ heard' = heard /\ is_snapshot \in BOOLEAN
    BY HandleLeaves
  <2>. QED
    BY <2>1, <2>2, <2>3 DEF Handled
<1>2. PICK last \in Floor .. last_seq_num_ :
        /\ HandlingOf(last)
        /\ \/ DOMAIN c.snapshot = {}
           \/ First > 0 /\ Queued(last, First - 1)
           \/ Broken
  BY <1>1, HandleLeaves DEF InboundInv
<1>3. PICK k \in Nat, N \in Nat, z \in Nat, x \in Nat, f \in Nat :
        /\ k = Len(inbound) /\ k >= 1 /\ N = Len(log) /\ z = last_seq_num_ /\ x = high
        /\ f = Floor /\ f <= last /\ last <= z /\ z <= N /\ x \in 1 .. N + 1 /\ last \in 0 .. N
        /\ N <= MaxUpdates
  <2>1. /\ Len(inbound) \in Nat /\ Len(inbound) >= 1 /\ Len(log) \in Nat /\ last_seq_num_ \in Nat
        /\ high \in Nat /\ Floor \in Nat /\ Floor <= last /\ last <= last_seq_num_
        /\ last_seq_num_ <= Len(log) /\ high \in 1 .. Len(log) + 1 /\ last \in 0 .. Len(log)
        /\ Len(log) <= MaxUpdates
    BY HandleLeaves
  <2>. QED
    BY <2>1
<1>4. PICK a \in Nat, e \in Nat :
        /\ a = First /\ e = EndOf(last) /\ e = LastOf(log, last) /\ e \in 2 .. last + 2
        /\ a + k - 1 <= e /\ a \in 0 .. e
        /\ \A i \in 1 .. k : inbound[i] = PartOf(log, last, a + i - 1)
        /\ a + k - 1 = e \/ GoesOn(last, a + k - 1)
  <2>1. inbound[1] \in Messages
    BY <1>3, HandleLeaves
  <2>2. First \in Nat
    BY <2>1, HandleLeaves DEF First, Messages
  <2>3. LastOf(log, last) \in 2 .. last + 2
    BY <1>3, SnapshotNumbers, HandleLeaves
  <2>4. EndOf(last) = LastOf(log, last) /\ \A n : Part(last, n) = PartOf(log, last, n)
    BY LogOfStream, HandleLeaves
  <2>5. PICK a \in Nat, e \in Nat : a = First /\ e = EndOf(last) /\ e = LastOf(log, last)
                                    /\ e \in 2 .. last + 2
    BY <1>3, <2>2, <2>3, <2>4
  <2>6. /\ a + k - 1 <= e /\ \A i \in 1 .. k : inbound[i] = Part(last, a + i - 1)
        /\ a + k - 1 = e \/ GoesOn(last, a + k - 1)
    BY <1>2, <1>3, <2>5 DEF HandlingOf
  <2>7. a \in 0 .. e
    BY <1>3, <2>5, <2>6
  <2>. QED
    BY <2>4, <2>5, <2>6, <2>7
<1>5. inbound[1] = PartOf(log, last, a) /\ r = queueMessage(c, inbound[1])
  <2>1. 1 \in 1 .. k /\ a + 1 - 1 = a
    BY <1>3
  <2>2. r = receiveMessage(c, inbound[1])
    BY HandleLeaves
  <2>3. receiveMessage(c, inbound[1]) = queueMessage(c, inbound[1])
    BY <1>1 DEF receiveMessage
  <2>. QED
    BY <1>4, <2>1, <2>2, <2>3
<1>6. SnapshotOutcome(r, c, log, last, a)
  <2>1. \/ DOMAIN c.snapshot = {}
        \/ a > 0 /\ IsQueue(c.snapshot, log, last, a - 1)
        \/ \E q \in Nat : DOMAIN c.snapshot = 0 .. q /\ (a = 0 \/ a > q + 1)
    <3>1. Queued(last, a - 1) => IsQueue(c.snapshot, log, last, a - 1)
      BY LogOfStream, HandleLeaves DEF Queued, IsQueue
    <3>2. Broken => \E q \in Nat : DOMAIN c.snapshot = 0 .. q /\ (a = 0 \/ a > q + 1)
      <4>1. \A q \in 0 .. MaxUpdates + 1 : q \in Nat
        BY HandleLeaves
      <4>. QED
        BY <4>1, <1>4 DEF Broken, Queued
    <3>3. \/ DOMAIN c.snapshot = {}
          \/ a > 0 /\ Queued(last, a - 1)
          \/ Broken
      BY <1>2, <1>4
    <3>. QED
      BY <3>1, <3>2, <3>3
  <2>2. /\ IsLog(log) /\ Len(log) <= MaxUpdates /\ last \in 0 .. Len(log) /\ IsConsumer(c)
        /\ c.exp_seq_num_ \in 1 .. Len(log) + 1 /\ IsKept(c.incremental, log)
        /\ a \in 0 .. LastOf(log, last)
    BY <1>3, <1>4, HandleLeaves
  <2>. QED
    BY <1>5, <2>1, <2>2, SnapshotMessageQueued
<1>7. \A n, q : /\ BookAfter(n)' = BookAfter(n) /\ GoesOn(n, q)' = GoesOn(n, q)
  BY HandleLeaves DEF BookAfter, GoesOn, NextNumber
<1>8. UNCHANGED <<log, last_seq_num_, stale>> /\ inbound' \in Seq(Messages) /\ Len(inbound') = k - 1
      /\ (\A i \in 1 .. k - 1 : inbound'[i] = inbound[i + 1]) /\ (inbound' = << >> <=> k = 1)
  BY <1>3, HandleLeaves
<1>9. CASE \E next \in 1 .. Len(log) + 1 : \E S :
             /\ IsWaiting(r, c, S, next)
             /\ DOMAIN S = {} \/ (a < LastOf(log, last) /\ IsQueue(S, log, last, a))
  <2>1. PICK next \in 1 .. Len(log) + 1 : \E S :
             /\ IsWaiting(r, c, S, next)
             /\ DOMAIN S = {} \/ (a < LastOf(log, last) /\ IsQueue(S, log, last, a))
    BY <1>9
  <2>2. PICK S : /\ IsWaiting(r, c, S, next)
                 /\ DOMAIN S = {} \/ (a < LastOf(log, last) /\ IsQueue(S, log, last, a))
    BY <2>1
  <2>3. /\ IsConsumer(r) /\ r.exp_seq_num_ = next /\ r.packet_lost_ = TRUE
        /\ r.snapshot = S /\ r.incremental = c.incremental /\ r.book = c.book /\ high' = high
    <3>1. /\ IsConsumer(r) /\ r.exp_seq_num_ = next /\ r.packet_lost_ = c.packet_lost_
          /\ r.snapshot = S /\ r.incremental = c.incremental /\ r.book = c.book
      BY <2>2, Zenon DEF IsWaiting
    <3>2. r.packet_lost_ = TRUE
      BY <3>1, <1>1
    <3>. QED
      BY <3>1, <3>2, HandleLeaves
  <2>4. Floor' = Floor
    BY <1>1, <1>8, <2>3 DEF Floor
  <2>5. ConsumerInv'
    <3>1. /\ c.book \subseteq 1 .. MaxUpdates
          /\ \A n \in I : n \in 1 .. Len(log) /\ c.incremental[n] = log[n]
          /\ Floor <= last_seq_num_
          /\ ~stale => \A n \in I : n <= Handled
      BY <1>1, HandleLeaves DEF ConsumerInv
    <3>2. /\ r.exp_seq_num_ \in 1 .. Len(log') + 1 /\ high' \in 1 .. Len(log') + 1
          /\ r.packet_lost_ \in BOOLEAN /\ r.book \subseteq 1 .. MaxUpdates
      BY <1>8, <2>3, <3>1, HandleLeaves
    <3>3. \A n \in DOMAIN r.incremental : n \in 1 .. Len(log') /\ r.incremental[n] = log'[n]
      BY <1>8, <2>3, <3>1
    <3>4. Floor' <= last_seq_num_' /\ (~stale' => \A n \in DOMAIN r.incremental : n <= Handled')
      BY <1>1, <1>8, <2>3, <2>4, <3>1
    <3>. QED
      BY <2>3, <3>2, <3>3, <3>4 DEF ConsumerInv, IsConsumer
  <2>6. last \in Floor' .. last_seq_num_'
    BY <1>8, <2>4
  <2>7. ASSUME DOMAIN S # {} PROVE Queued(last, a)' /\ a < e /\ a \in 0 .. MaxUpdates + 1
    <3>1. a < e /\ IsQueue(S, log, last, a)
      BY <2>2, <2>7, <1>4
    <3>2. EndOf(last)' = e /\ \A n : Part(last, n)' = PartOf(log, last, n)
      <4>1. BookAfter(last)' = BookOf(log, last)
        BY <1>7, LogOfStream, HandleLeaves
      <4>. QED
        BY <4>1, <1>4 DEF EndOf, LastOf, Part, PartOf
    <3>3. a \in 0 .. MaxUpdates + 1
      <4>1. PICK M \in Nat : M = MaxUpdates
        BY HandleLeaves
      <4>. QED
        BY <4>1, <1>3, <1>4, <3>1
    <3>4. DOMAIN r.snapshot = 0 .. a /\ \A n \in 0 .. a : r.snapshot[n] = Part(last, n)'
      BY <2>3, <3>1, <3>2 DEF IsQueue
    <3>. QED
      BY <3>1, <3>2, <3>3, <3>4 DEF Queued
  <2>8. CASE k = 1
    <3>1. ~Handling' /\ is_snapshot' \in BOOLEAN
      BY <1>1, <1>8, <2>8 DEF Handling
    <3>2. ASSUME DOMAIN S # {} PROVE Queued(last, a)' /\ GoesOn(last, a)'
      <4>1. a + k - 1 = a
        BY <2>8
      <4>2. GoesOn(last, a)
        BY <4>1, <1>4, <2>7, <3>2
      <4>. QED
        BY <4>2, <1>7, <2>7, <3>2
    <3>. QED
      BY <1>1, <1>8, <2>3, <2>5, <2>6, <2>7, <3>1, <3>2, HandleLeaves DEF InboundInv, SyncInv
  <2>9. CASE k # 1
    <3>1. Handling' /\ k - 1 \in Nat /\ k - 1 >= 1
      BY <1>1, <1>3, <1>8, <2>9 DEF Handling
    <3>2. First' = a + 1
      <4>1. 1 \in 1 .. k - 1 /\ 1 + 1 \in 1 .. k /\ a + (1 + 1) - 1 = a + 1 /\ a + 1 \in 0 .. e
        BY <1>3, <1>4, <3>1
      <4>2. inbound'[1] = PartOf(log, last, a + 1)
        BY <4>1, <1>4, <1>8
      <4>3. PartOf(log, last, a + 1).seq_num_ = a + 1
        <5>1. PICK b \in 0 .. LastOf(log, last) : b = a + 1
          BY <4>1, <1>4
        <5>2. IsLog(log) /\ Len(log) <= MaxUpdates /\ last \in 0 .. Len(log)
          BY <1>3, HandleLeaves
        <5>3. PartOf(log, last, b).seq_num_ = b
          BY <5>2, SnapshotParts
        <5>. QED
          BY <5>1, <5>3
      <4>. QED
        BY <4>2, <4>3 DEF First
    <3>3. HandlingOf(last)'
      <4>1. PICK t \in Nat : t = a + k - 1
        <5>1. a + k - 1 \in Nat
          BY <3>1
        <5>. QED
          BY <5>1
      <4>2. First' + Len(inbound') - 1 = t /\ First' >= 0
        BY <4>1, <1>3, <1>8, <3>2
      <4>3. EndOf(last)' = e /\ \A n : Part(last, n)' = PartOf(log, last, n)
        <5>1. BookAfter(last)' = BookOf(log, last)
          BY <1>7, LogOfStream, HandleLeaves
        <5>. QED
          BY <5>1, <1>4 DEF EndOf, LastOf, Part, PartOf
      <4>4. t <= e /\ (t = e \/ GoesOn(last, t)')
        BY <4>1, <1>4, <1>7
      <4>5. ASSUME NEW i \in 1 .. Len(inbound') PROVE inbound'[i] = PartOf(log, last, First' + i - 1)
        <5>1. i \in 1 .. k - 1 /\ i + 1 \in 1 .. k /\ a + (i + 1) - 1 = (a + 1) + i - 1
          BY <1>3, <1>8, <4>5
        <5>2. inbound'[i] = PartOf(log, last, a + (i + 1) - 1)
          BY <5>1, <1>4, <1>8
        <5>. QED
          BY <5>1, <5>2, <3>2
      <4>6. \A i \in 1 .. Len(inbound') : inbound'[i] = Part(last, First + i - 1)'
        BY <4>3, <4>5 DEF Part, PartOf
      <4>. QED
        BY <4>2, <4>3, <4>4, <4>6 DEF HandlingOf, GoesOn
    <3>4. \/ DOMAIN r.snapshot = {}
          \/ First' > 0 /\ Queued(last, First - 1)'
      <4>1. First' > 0 /\ First' - 1 = a
        BY <3>2, <1>4
      <4>2. CASE DOMAIN S # {}
        <5>1. Queued(last, a)'
          BY <2>7, <4>2
        <5>. QED
          BY <5>1, <4>1 DEF Queued
      <4>. QED
        BY <4>2, <2>3
    <3>. QED
      BY <1>1, <1>8, <2>3, <2>5, <2>6, <3>1, <3>3, <3>4, HandleLeaves DEF InboundInv, SyncInv
  <2>. QED
    BY <2>8, <2>9
<1>10. CASE /\ a = LastOf(log, last)
            /\ \E next \in last + 1 .. Len(log) + 1 :
                 /\ r = Recovered(log, next)
                 /\ {n \in I : n >= last + 1} = last + 1 .. next - 1
  <2>1. PICK next \in last + 1 .. N + 1 :
                 /\ r = Recovered(log, next)
                 /\ {n \in I : n >= last + 1} = last + 1 .. next - 1
    BY <1>3, <1>10
  <2>2. /\ IsConsumer(r) /\ r.exp_seq_num_ = next /\ r.packet_lost_ = FALSE
        /\ r.snapshot = NoMessages /\ r.incremental = NoMessages /\ r.book = BookOf(log, next - 1)
    BY <2>1 DEF Recovered, IsConsumer
  <2>3. next \in Nat /\ next \in 1 .. N + 1 /\ next - 1 \in 0 .. N
    BY <1>3
  <2>4. high' = IF next < x THEN x ELSE next
    BY <1>3, <2>2, HandleLeaves
  <2>5. r.book \subseteq 1 .. MaxUpdates
    <3>1. next - 1 \in 0 .. Len(log) /\ IsLog(log) /\ 1 .. next - 1 \subseteq 1 .. MaxUpdates
      BY <1>3, <2>3, HandleLeaves
    <3>2. BookOf(log, next - 1) \in SUBSET (1 .. next - 1)
      BY <3>1, BookIds
    <3>. QED
      BY <2>2, <3>1, <3>2
  <2>6. ASSUME ~stale PROVE next >= x
    <3>1. f = IF ~(I # {} /\ \A n \in I : n > x) THEN x - 1 ELSE 0
      BY <1>1, <1>3, <2>6 DEF Floor
    <3>2. CASE ~(I # {} /\ \A n \in I : n > x)
      BY <1>3, <2>3, <3>1, <3>2
    <3>3. CASE I # {} /\ \A n \in I : n > x
      <4>1. CASE last + 1 > x
        BY <1>3, <2>3, <4>1
      <4>2. CASE ~(last + 1 > x)
        <5>1. \A n \in I : n \in Nat
          BY HandleLeaves DEF IsKept
        <5>2. \A n \in I : n \in last + 1 .. next - 1
          <6>1. \A n \in I : n >= last + 1
            BY <1>3, <3>3, <4>2, <5>1
          <6>. QED
            BY <6>1, <2>1
        <5>3. PICK n \in I : n > x
          BY <3>3
        <5>. QED
          BY <5>1, <5>2, <5>3, <1>3, <2>3
      <4>. QED
        BY <4>1, <4>2
    <3>. QED
      BY <3>2, <3>3
  <2>7. ASSUME ~stale PROVE next - 1 <= Handled \/ next - 1 <= z
    <3>1. CASE next = last + 1
      BY <1>3, <3>1
    <3>2. CASE next # last + 1
      <4>1. next - 1 \in last + 1 .. next - 1
        BY <1>3, <2>3, <3>2
      <4>2. next - 1 \in I
        BY <2>1, <4>1
      <4>. QED
        BY <2>7, <4>2, <1>1, HandleLeaves DEF ConsumerInv
    <3>. QED
      BY <3>1, <3>2
  <2>8. ConsumerInv'
    <3>1. /\ r.exp_seq_num_ \in 1 .. Len(log') + 1 /\ high' \in 1 .. Len(log') + 1
          /\ r.packet_lost_ \in BOOLEAN
      BY <1>3, <1>8, <2>2, <2>3, <2>4
    <3>2. DOMAIN r.incremental = {} /\ DOMAIN r.snapshot = {}
      BY <2>2, NothingQueued
    <3>3. r.book = BookAfter(c.exp_seq_num_ - 1)'
      <4>1. BookAfter(next - 1)' = BookOf(log, next - 1)
        BY <1>7, LogOfStream, HandleLeaves
      <4>. QED
        BY <4>1, <2>2 DEF BookAfter
    <3>4. ~stale' => /\ r.exp_seq_num_ = high'
                     /\ high' - 1 <= Handled' \/ high' - 1 <= last_seq_num_'
      <4>1. ~stale => high' = next
        BY <1>3, <2>3, <2>4, <2>6
      <4>2. ~stale => next - 1 <= Handled' \/ next - 1 <= last_seq_num_'
        BY <1>1, <1>3, <1>8, <2>7
      <4>. QED
        BY <4>1, <4>2, <1>8, <2>2
    <3>. QED
      BY <2>2, <2>5, <3>1, <3>2, <3>3, <3>4 DEF ConsumerInv, IsConsumer
  <2>9. InboundInv'
    <3>1. k = 1
      <4>1. a = e /\ a + k - 1 <= e /\ k >= 1
        BY <1>3, <1>4, <1>10
      <4>. QED
        BY <4>1
    <3>2. ~Handling'
      BY <1>8, <3>1 DEF Handling
    <3>3. DOMAIN r.snapshot = {}
      BY <2>2, NothingQueued
    <3>. QED
      BY <1>1, <1>8, <3>2, <3>3 DEF InboundInv
  <2>. QED
    BY <2>8, <2>9, HandleLeaves DEF SyncInv
<1>. QED
  BY <1>6, <1>9, <1>10, Zenon DEF SnapshotOutcome

(* With no snapshot datagram lost so far, what comes next of a snapshot    *)
(* goes on with the part that is there.                                    *)
LEMMA NothingLost ==
  ASSUME SyncInv, snapshotFaults = 0, Unfinished, publishing # << >>
  PROVE  NextNumber # 0
<1>0. StreamInv /\ InboundInv
  BY DEF SyncInv
<1>1. PICK n \in Nat : \E last : GoesOn(last, n)
  <2>1. CASE Handling
    <3>1. PICK last \in Floor .. last_seq_num_ : HandlingOf(last)
      BY <1>0, <2>1 DEF InboundInv
    <3>2. /\ Len(inbound) \in Nat /\ Len(inbound) >= 1 /\ inbound[1] \in Messages
          /\ last \in 0 .. Len(log) /\ IsLog(log) /\ Len(log) <= MaxUpdates
      <4>1. inbound \in Seq(Messages) /\ inbound # << >>
        BY <1>0, <2>1 DEF Handling, InboundInv
      <4>2. Len(inbound) \in Nat /\ Len(inbound) >= 1 /\ inbound[1] \in Messages
        BY <4>1
      <4>3. Floor \in Nat /\ last_seq_num_ \in 0 .. Len(log) /\ Len(log) \in Nat
        BY <1>0, HandledNumber, LogOfStream DEF StreamInv
      <4>4. last \in 0 .. Len(log)
        BY <4>3
      <4>. QED
        BY <1>0, <4>2, <4>4, LogOfStream
    <3>3. First \in Nat
      BY <3>2, BoundsAssumption DEF First, Messages
    <3>4. PICK k \in Nat, e \in Nat : k = Len(inbound) /\ k >= 1 /\ e = First + k - 1
      <4>1. Len(inbound) \in Nat /\ Len(inbound) >= 1
        BY <3>2
      <4>2. First + Len(inbound) - 1 \in Nat
        BY <3>3, <4>1
      <4>. QED
        BY <4>1, <4>2
    <3>5. inbound[k] = Part(last, e) /\ (e = EndOf(last) \/ GoesOn(last, e))
      BY <3>1, <3>4 DEF HandlingOf
    <3>6. ASSUME e = EndOf(last) PROVE FALSE
      <4>1. e = LastOf(log, last) /\ inbound[k] = PartOf(log, last, e)
        BY <1>0, <3>5, <3>6, LogOfStream
      <4>2. e \in 0 .. LastOf(log, last)
        BY <4>1
      <4>3. inbound[k].type_ = "SNAPSHOT_END"
        BY <3>2, <4>1, <4>2, SnapshotParts
      <4>. QED
        BY <2>1, <3>4, <4>3 DEF Unfinished
    <3>. QED
      BY <3>5, <3>6
  <2>2. CASE ~Handling
    <3>1. PICK last \in Floor .. last_seq_num_, q \in 0 .. MaxUpdates + 1 : GoesOn(last, q)
      BY <1>0, <2>2 DEF InboundInv, Unfinished
    <3>. QED
      BY <3>1, BoundsAssumption
  <2>. QED
    BY <2>1, <2>2
<1>2. NextNumber = n + 1
  BY <1>1 DEF GoesOn
<1>. QED
  BY <1>2

----------------------------------------------------------------------------
(* The theorems.                                                           *)

(* The network does not lose the beginning of a snapshot while the rest of *)
(* another is waited for.                                                  *)
LosesApart     == LoseSnapshot /\ NextNumber = 0 => ~Unfinished
SnapshotsApart == [][LosesApart]_vars

(* One step keeps the invariant, unless it disorders a snapshot.           *)
LEMMA SyncStep ==
  ASSUME SyncInv, Next, LosesApart, ~disordered'
  PROVE  SyncInv'
<1>1. CASE Number
  BY <1>1, NumberStep
<1>2. CASE Flush
  BY <1>2, FlushStep
<1>3. CASE Synthetize
  BY <1>3, SynthetizeStep
<1>4. CASE PublishSnapshot
  BY <1>4, PublishSnapshotStep
<1>5. CASE SendSnapshot
  BY <1>5, SendSnapshotStep
<1>6. CASE LoseSnapshot
  BY <1>6, LoseSnapshotStep DEF LosesApart
<1>7. CASE HandleMessage
  BY <1>7, HandleUpdateStep, HandleSnapshotStep
<1>8. CASE \E i \in 1 .. Len(wire), duplicate \in BOOLEAN : ReceiveIncremental(i, duplicate)
  BY <1>8, ReceiveIncrementalStep
<1>9. CASE \E i \in 1 .. Len(wire) : LoseIncremental(i)
  BY <1>9, LoseIncrementalStep
<1>10. CASE \E i \in 1 .. Len(publishing), duplicate \in BOOLEAN : DisorderSnapshot(i, duplicate)
  BY <1>10 DEF DisorderSnapshot
<1>. QED
  BY <1>1, <1>2, <1>3, <1>4, <1>5, <1>6, <1>7, <1>8, <1>9, <1>10 DEF Next

(* Whether something was is a truth value.                                 *)
LEMMA DisorderKnown ==
  ASSUME disordered \in BOOLEAN, [Next]_vars
  PROVE  disordered' \in BOOLEAN
BY DEF Next, Number, Flush, Synthetize, PublishSnapshot, SendSnapshot, LoseSnapshot, HandleMessage,
       ReceiveIncremental, LoseIncremental, DisorderSnapshot, vars

(* What is disordered stays so.                                            *)
LEMMA DisorderStays ==
  ASSUME Next
  PROVE  disordered => disordered'
BY DEF Next, Number, Flush, Synthetize, PublishSnapshot, SendSnapshot, LoseSnapshot, HandleMessage,
       ReceiveIncremental, LoseIncremental, DisorderSnapshot

(* And so does no step.                                                    *)
LEMMA SyncStutter ==
  ASSUME SyncInv, UNCHANGED vars
  PROVE  SyncInv'
<1>1. /\ UNCHANGED <<log, flushed, last_seq_num_, wire, publishing, inbound, is_snapshot, consumer,
                     snapshotFaults, stale, high, heard>>
  BY DEF vars, exchangeVars, inboundVars
<1>2. StreamInv' /\ PublishingInv'
  BY <1>1 DEF SyncInv, StreamInv, PublishingInv, BookAfter
<1>3. \A last \in 0 .. last_seq_num_, n \in Nat : GoesOn(last, n) => GoesOn(last, n)'
  BY <1>1 DEF GoesOn, NextNumber
<1>4. flushed <= flushed' /\ last_seq_num_ <= last_seq_num_' /\ snapshotFaults <= snapshotFaults'
  <2>1. flushed \in Nat /\ last_seq_num_ \in Nat /\ snapshotFaults \in Nat
    BY HandledNumber
  <2>. QED
    BY <1>1, <2>1
<1>. QED
  BY <1>1, <1>2, <1>3, <1>4, QuietStep

(* What recovery rests on holds however often the incremental stream       *)
(* loses, duplicates and reorders datagrams and the snapshot stream loses  *)
(* them, if the beginning of a snapshot is not lost while an unfinished    *)
(* one is queued, and until a snapshot datagram is duplicated or overtaken *)
(* (publishSnapShot, checkSnapshotSync).                                   *)
THEOREM RecoveryInvariant == Spec /\ SnapshotsApart => []RecoveryInv
<1>1. Init => RecoveryInv
  <2>1. Init => disordered = FALSE
    BY DEF Init
  <2>. QED
    BY <2>1, SyncInit DEF RecoveryInv
<1>2. RecoveryInv /\ [Next]_vars /\ [LosesApart]_vars => RecoveryInv'
  <2>. SUFFICES ASSUME RecoveryInv, [Next]_vars, [LosesApart]_vars PROVE RecoveryInv'
    OBVIOUS
  <2>1. disordered' \in BOOLEAN
    BY DisorderKnown DEF RecoveryInv
  <2>2. ASSUME UNCHANGED vars, ~disordered' PROVE SyncInv'
    BY <2>2, SyncStutter DEF RecoveryInv, vars
  <2>3. ASSUME Next, LosesApart, ~disordered' PROVE SyncInv'
    BY <2>3, SyncStep, DisorderStays DEF RecoveryInv
  <2>. QED
    BY <2>1, <2>2, <2>3 DEF RecoveryInv
<1>. QED
  BY <1>1, <1>2, PTL DEF Spec, SnapshotsApart

(* With at most one fault of the snapshot stream, as in the run            *)
(* market_data, it holds of every behaviour.                               *)
THEOREM RecoveryInvariantOneLoss ==
  ASSUME MaxSnapshotFaults <= 1
  PROVE  Spec => []RecoveryInv
<1>1. Init => RecoveryInv
  <2>1. Init => disordered = FALSE
    BY DEF Init
  <2>. QED
    BY <2>1, SyncInit DEF RecoveryInv
<1>2. RecoveryInv /\ [Next]_vars => RecoveryInv'
  <2>. SUFFICES ASSUME RecoveryInv, [Next]_vars PROVE RecoveryInv'
    OBVIOUS
  <2>1. disordered' \in BOOLEAN
    BY DisorderKnown DEF RecoveryInv
  <2>2. ASSUME UNCHANGED vars, ~disordered' PROVE SyncInv'
    BY <2>2, SyncStutter DEF RecoveryInv, vars
  <2>3. ASSUME Next, ~disordered' PROVE SyncInv'
    <3>1. SyncInv
      BY <2>3, DisorderStays DEF RecoveryInv
    <3>2. ASSUME LoseSnapshot, Unfinished PROVE NextNumber # 0
      <4>1. snapshotFaults < MaxSnapshotFaults /\ publishing # << >>
        BY <3>2 DEF LoseSnapshot
      <4>2. snapshotFaults = 0
        BY <3>1, <4>1, HandledNumber, BoundsAssumption DEF SyncInv
      <4>. QED
        BY <3>1, <3>2, <4>1, <4>2, NothingLost
    <3>. QED
      BY <2>3, <3>1, <3>2, SyncStep DEF LosesApart
  <2>. QED
    BY <2>1, <2>2, <2>3 DEF RecoveryInv
<1>. QED
  BY <1>1, <1>2, PTL DEF Spec

(* What the invariant says of the numbers and of the book.                 *)
LEMMA SyncImplies == RecoveryInv => disordered \/ (TypeOK /\ InStep /\ NoRollback)
<1>. SUFFICES ASSUME SyncInv, disordered \in BOOLEAN
              PROVE  TypeOK /\ InStep /\ NoRollback
  BY DEF RecoveryInv
<1>0. StreamInv /\ InboundInv /\ ConsumerInv
  BY DEF SyncInv
<1>1. InStep /\ NoRollback
  BY <1>0 DEF ConsumerInv, InStep, NoRollback
<1>2. /\ IsLog(log) /\ Len(log) \in Nat /\ Len(log) <= MaxUpdates /\ MaxUpdates \in Nat
      /\ flushed \in 0 .. Len(log) /\ last_seq_num_ \in 0 .. Len(log) /\ heard \in 0 .. flushed
      /\ Floor \in Nat
  BY <1>0, LogOfStream, HandledNumber DEF StreamInv
<1>3. \A n \in 1 .. Len(log) : log[n] \in Messages
  BY <1>2 DEF IsLog
<1>4. ASSUME NEW n \in DOMAIN consumer.snapshot PROVE consumer.snapshot[n] \in Messages
  <2>1. PICK last \in Floor .. last_seq_num_, q \in Int : Queued(last, q)
    <3>1. Handling => First \in Int
      <4>1. Handling => inbound[1] \in Messages
        BY <1>0 DEF Handling, InboundInv
      <4>. QED
        BY <4>1, BoundsAssumption DEF First, Messages
    <3>2. Handling => First - 1 \in Int
      BY <3>1
    <3>3. CASE Handling
      BY <1>0, <1>2, <1>4, <3>2, <3>3 DEF InboundInv, Broken
    <3>4. CASE ~Handling
      BY <1>0, <1>2, <1>4, <3>4 DEF InboundInv
    <3>. QED
      BY <3>3, <3>4
  <2>2. last \in 0 .. Len(log)
    BY <1>2
  <2>3. n \in 0 .. q /\ q < LastOf(log, last) /\ consumer.snapshot[n] = PartOf(log, last, n)
    BY <1>0, <1>4, <2>1, LogOfStream DEF Queued
  <2>4. n \in 0 .. LastOf(log, last)
    <3>1. LastOf(log, last) \in 2 .. last + 2 /\ last \in Nat
      BY <1>2, <2>2, SnapshotNumbers
    <3>. QED
      BY <2>3, <3>1
  <2>. QED
    BY <1>2, <2>2, <2>3, <2>4, SnapshotParts
<1>5. \A n \in DOMAIN consumer.incremental : consumer.incremental[n] \in Messages
  BY <1>0, <1>3 DEF ConsumerInv
<1>6. /\ consumer.exp_seq_num_ \in 1 .. Len(log) + 1 /\ high \in 1 .. Len(log) + 1
      /\ consumer.packet_lost_ \in BOOLEAN /\ consumer.book \subseteq 1 .. MaxUpdates
  BY <1>0, <1>2 DEF ConsumerInv
<1>7. last_seq_num_ <= Len(log) /\ flushed <= Len(log) /\ heard \in 0 .. flushed /\ stale \in BOOLEAN
  BY <1>0, <1>2 DEF StreamInv
<1>8. TypeOK
  BY <1>2, <1>3, <1>4, <1>5, <1>6, <1>7 DEF TypeOK
<1>. QED
  BY <1>1, <1>8

(* The numbers of the exchange and of the consumer stay in their ranges:   *)
(* recovery never makes the consumer expect one beyond the next update     *)
(* (checkSnapshotSync).                                                    *)
THEOREM NumbersInRange == Spec /\ SnapshotsApart => [](disordered \/ TypeOK)
BY RecoveryInvariant, SyncImplies, PTL

(* A consumer that is in step has exactly the engine's book as of the last *)
(* update it took (recvCallbacks, checkSnapshotSync).                      *)
THEOREM ConsumerInStep == Spec /\ SnapshotsApart => [](disordered \/ InStep)
BY RecoveryInvariant, SyncImplies, PTL

(* Recovery never goes back to an older book than was shown, unless the    *)
(* network reorders (checkSnapshotSync).                                   *)
THEOREM NeverRollsBack == Spec /\ SnapshotsApart => [](disordered \/ NoRollback)
BY RecoveryInvariant, SyncImplies, PTL

(* All three, of every behaviour with at most one fault of the snapshot    *)
(* stream, a loss.                                                         *)
THEOREM InStepOneLoss ==
  ASSUME MaxSnapshotFaults <= 1
  PROVE  Spec => [](disordered \/ (TypeOK /\ InStep /\ NoRollback))
BY RecoveryInvariantOneLoss, SyncImplies, PTL
=============================================================================
