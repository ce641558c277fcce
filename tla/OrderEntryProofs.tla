-------------------------- MODULE OrderEntryProofs --------------------------
(***************************************************************************)
(* Order entry, for every number of clients, of requests, restarts and     *)
(* refused sends and every limit of the sequencer: the order server never  *)
(* reads garbage, always knows the socket of a client it has to answer,    *)
(* and each trade engine gets its responses in order.  In behaviours in    *)
(* which std::sort keeps the order of equal times, the matching engine     *)
(* gets each client's requests in order, once and without a gap.           *)
(*                                                                         *)
(* The first part is about streams of half messages, the second about the  *)
(* loops over a receive buffer, the third about the steps.                 *)
(***************************************************************************)
EXTENDS OrderEntry, FiniteSetTheorems, SequenceTheorems, TLAPS

Gateway == INSTANCE FoldLemmas WITH Op <- recvResponse
Server  == INSTANCE FoldLemmas WITH Op <- recvRequest

(* The folds of the library are those of the lemmas.                       *)
LEMMA GatewayFold ==
  ASSUME NEW g, NEW ms
  PROVE  FoldLeft(recvResponse, g, ms) = Gateway!Fold(g, ms)
BY Zenon DEF FoldLeft, MapThenFoldSet, Max, Gateway!Fold, Gateway!FoldLeft,
   Gateway!MapThenFoldSet, Gateway!Max

LEMMA ServerFold ==
  ASSUME NEW sv, NEW rs
  PROVE  FoldLeft(recvRequest, sv, rs) = Server!Fold(sv, rs)
BY Zenon DEF FoldLeft, MapThenFoldSet, Max, Server!Fold, Server!FoldLeft,
   Server!MapThenFoldSet, Server!Max

----------------------------------------------------------------------------
(* Streams.                                                                *)

(* The end of a sequence.                                                  *)
LEMMA Suffix ==
  ASSUME NEW T, NEW w \in Seq(T), NEW m \in 0 .. Len(w)
  PROVE  /\ SubSeq(w, m + 1, Len(w)) \in Seq(T)
         /\ Len(SubSeq(w, m + 1, Len(w))) = Len(w) - m
         /\ \A i \in 1 .. Len(w) - m : SubSeq(w, m + 1, Len(w))[i] = w[i + m]
<1>1. Len(w) \in Nat /\ m \in Nat /\ m <= Len(w)
  OBVIOUS
<1>. QED
  BY <1>1

(* A sequence after another.                                                *)
LEMMA ConcatParts ==
  ASSUME NEW T, NEW r \in Seq(T), NEW u \in Seq(T)
  PROVE  /\ r \o u \in Seq(T) /\ Len(r \o u) = Len(r) + Len(u)
         /\ Len(r) \in Nat /\ Len(u) \in Nat
         /\ \A i \in 1 .. Len(r) + Len(u) :
              (r \o u)[i] = IF i <= Len(r) THEN r[i] ELSE u[i - Len(r)]
OBVIOUS

(* A read takes a beginning of what is in the connection.                  *)
LEMMA PrefixOfConcat ==
  ASSUME NEW T, NEW a \in Seq(T), NEW b \in Seq(T), NEW k \in 0 .. Len(b)
  PROVE  /\ SubSeq(b, 1, k) \in Seq(T) /\ Len(SubSeq(b, 1, k)) = k
         /\ a \o SubSeq(b, 1, k) \in Seq(T)
         /\ Len(a \o SubSeq(b, 1, k)) = Len(a) + k
         /\ a \o SubSeq(b, 1, k) = SubSeq(a \o b, 1, Len(a) + k)
         /\ \A i \in 1 .. Len(a) + k : (a \o SubSeq(b, 1, k))[i] = (a \o b)[i]
<1>. DEFINE p == SubSeq(b, 1, k)
            w == a \o b
            v == a \o p
            y == SubSeq(w, 1, Len(a) + k)
<1>1. /\ Len(a) \in Nat /\ Len(b) \in Nat /\ k \in Nat /\ k <= Len(b)
  OBVIOUS
<1>2. p \in Seq(T) /\ Len(p) = k /\ \A i \in 1 .. k : p[i] = b[i]
  BY <1>1
<1>. HIDE DEF p
<1>3. v \in Seq(T) /\ Len(v) = Len(a) + k
  BY <1>1, <1>2
<1>4. w \in Seq(T) /\ Len(w) = Len(a) + Len(b)
  OBVIOUS
<1>5. \A i \in 1 .. Len(a) + k : v[i] = w[i]
  BY <1>1, <1>2
<1>. HIDE DEF v, w
<1>6. y \in Seq(T) /\ Len(y) = Len(a) + k /\ \A i \in 1 .. Len(a) + k : y[i] = w[i]
  BY <1>1, <1>4
<1>. HIDE DEF y
<1>7. v = y
  BY <1>3, <1>5, <1>6, SeqEqual
<1>. QED
  BY <1>2, <1>3, <1>5, <1>7 DEF p, v, w, y

(* What is kept of a read and what is not yet read follow one another,     *)
(* wherever the kept part begins.                                          *)
SplitsAt(T, a, b, k, m) ==
  LET v == a \o SubSeq(b, 1, k)
      rest == SubSeq(v, m + 1, Len(v))
      next == SubSeq(b, k + 1, Len(b))
  IN rest \in Seq(T) /\ next \in Seq(T) /\ rest \o next = SubSeq(a \o b, m + 1, Len(a \o b))

LEMMA SplitConcat ==
  ASSUME NEW T, NEW a \in Seq(T), NEW b \in Seq(T), NEW k \in 0 .. Len(b),
         NEW m \in Nat, m <= Len(a) + k
  PROVE  SplitsAt(T, a, b, k, m)
<1>. DEFINE v == a \o SubSeq(b, 1, k)
            w == a \o b
            r == SubSeq(v, m + 1, Len(v))
            u == SubSeq(b, k + 1, Len(b))
            x == r \o u
            y == SubSeq(w, m + 1, Len(w))
            n == Len(a) + Len(b) - m
<1>1. /\ Len(a) \in Nat /\ Len(b) \in Nat /\ k \in Nat /\ k <= Len(b)
      /\ m \in Nat /\ m <= Len(a) + k /\ n \in Nat
  OBVIOUS
<1>2. v \in Seq(T) /\ Len(v) = Len(a) + k /\ \A i \in 1 .. Len(v) : v[i] = w[i]
  BY PrefixOfConcat
<1>3. u \in Seq(T) /\ Len(u) = Len(b) - k /\ \A i \in 1 .. Len(u) : u[i] = b[i + k]
  BY <1>1
<1>4. /\ w \in Seq(T) /\ Len(w) = Len(a) + Len(b)
      /\ \A i \in 1 .. Len(b) : w[i + Len(a)] = b[i]
  BY <1>1
<1>. HIDE DEF v, w, u
<1>5. r \in Seq(T) /\ Len(r) = Len(a) + k - m /\ \A i \in 1 .. Len(r) : r[i] = v[i + m]
  <2>1. m \in 0 .. Len(v)
    BY <1>1, <1>2
  <2>. QED
    BY <1>2, <2>1, Suffix
<1>10. Len(w) \in Nat /\ n = Len(w) - m /\ m <= Len(w)
  BY <1>1, <1>4
<1>11. Len(r) \in Nat /\ Len(u) \in Nat /\ n = Len(r) + Len(u)
  <2>. HIDE DEF r
  <2>. QED
    BY <1>1, <1>3, <1>5
<1>. HIDE DEF r, n
<1>6. y \in Seq(T) /\ Len(y) = n /\ \A i \in 1 .. n : y[i] = w[i + m]
  BY <1>1, <1>4, <1>10, Suffix
<1>. HIDE DEF y
<1>7. /\ x \in Seq(T) /\ Len(x) = n
      /\ \A i \in 1 .. Len(r) + Len(u) : x[i] = IF i <= Len(r) THEN r[i] ELSE u[i - Len(r)]
  BY <1>3, <1>5, <1>11, ConcatParts
<1>. HIDE DEF x
<1>8. ASSUME NEW i \in 1 .. n PROVE x[i] = w[i + m]
  <2>0. i \in 1 .. Len(r) + Len(u)
    BY <1>7, <1>11
  <2>1. CASE i <= Len(r)
    <3>1. i \in 1 .. Len(r) /\ i + m \in 1 .. Len(v)
      BY <1>1, <1>2, <1>5, <1>11, <2>1
    <3>. QED
      BY <1>2, <1>5, <1>7, <2>0, <2>1, <3>1
  <2>2. CASE i > Len(r)
    <3>. DEFINE j == i - Len(r)
    <3>1. /\ j \in 1 .. Len(u) /\ j + k \in 1 .. Len(b) /\ j + k + Len(a) = i + m
      BY <1>1, <1>3, <1>5, <1>11, <2>2, SMTT(30)
    <3>2. ~(i <= Len(r))
      BY <1>1, <1>5, <2>2
    <3>3. x[i] = u[j]
      BY <1>7, <2>0, <3>2
    <3>. HIDE DEF j
    <3>. QED
      BY <1>3, <1>4, <3>1, <3>3
  <2>. QED
    BY <1>11, <2>1, <2>2
<1>9. x = y
  BY <1>6, <1>7, <1>8, SeqEqual
<1>. QED
  BY <1>3, <1>5, <1>9 DEF v, w, r, u, x, y, SplitsAt

(* A stream of whole messages can be followed by any other.                *)
LEMMA StreamConcat ==
  ASSUME NEW s, NEW a, NEW b, WholeStream(a, s), RequestStream(b, s)
  PROVE  /\ RequestStream(a \o b, s)
         /\ Len(b) % 2 = 0 => WholeStream(a \o b, s)
<1>. DEFINE w == a \o b
            n == Len(a) \div 2
<1>1. /\ a \in Seq(RequestUnits) /\ b \in Seq(RequestUnits)
      /\ Len(a) \in Nat /\ Len(b) \in Nat /\ n \in Nat /\ Len(a) = 2 * n
  BY DEF WholeStream, RequestStream
<1>2. /\ w \in Seq(RequestUnits) /\ Len(w) = 2 * n + Len(b)
      /\ \A i \in 1 .. Len(w) : i <= 2 * n => i \in 1 .. Len(a) /\ w[i] = a[i]
      /\ \A i \in 1 .. Len(w) : i > 2 * n => i - 2 * n \in 1 .. Len(b) /\ w[i] = b[i - 2 * n]
  BY <1>1
<1>. HIDE DEF n, w
<1>3. ASSUME NEW i \in 1 .. Len(w)
      PROVE  /\ 2 * i - 1 <= Len(w) => w[2 * i - 1].half = 1
             /\ 2 * i <= Len(w) => w[2 * i].half = 2 /\ w[2 * i].of = w[2 * i - 1].of
  <2>1. CASE i <= n
    <3>1. /\ 2 * i - 1 \in 1 .. Len(w) /\ 2 * i \in 1 .. Len(w) /\ i \in 1 .. Len(a)
          /\ 2 * i - 1 <= 2 * n /\ 2 * i <= 2 * n
      BY <1>1, <1>2, <2>1
    <3>2. w[2 * i - 1] = a[2 * i - 1] /\ w[2 * i] = a[2 * i]
      BY <3>1, <1>2
    <3>3. a[2 * i - 1].half = 1 /\ a[2 * i].half = 2 /\ a[2 * i].of = a[2 * i - 1].of
      BY <3>1, <1>1 DEF WholeStream, RequestStream, Framed
    <3>. QED
      BY <3>2, <3>3
  <2>2. CASE i > n
    <3>. DEFINE p == i - n
    <3>1. p \in Nat /\ 2 * p = 2 * i - 2 * n /\ 2 * p - 1 = 2 * i - 1 - 2 * n /\ p >= 1
      BY <1>1, <2>2
    <3>. HIDE DEF p
    <3>2. ASSUME 2 * i - 1 <= Len(w)
          PROVE  p \in 1 .. Len(b) /\ 2 * p - 1 <= Len(b) /\ w[2 * i - 1] = b[2 * p - 1]
      <4>1. 2 * i - 1 \in 1 .. Len(w) /\ 2 * i - 1 > 2 * n /\ p \in 1 .. Len(b)
            /\ 2 * p - 1 <= Len(b)
        BY <1>1, <1>2, <2>2, <3>1, <3>2
      <4>. QED
        BY <1>2, <3>1, <4>1
    <3>3. ASSUME 2 * i <= Len(w)
          PROVE  2 * p <= Len(b) /\ w[2 * i] = b[2 * p] /\ 2 * i - 1 <= Len(w)
      <4>1. 2 * i \in 1 .. Len(w) /\ 2 * i > 2 * n /\ 2 * p <= Len(b) /\ 2 * i - 1 <= Len(w)
        BY <1>1, <1>2, <2>2, <3>1, <3>3
      <4>. QED
        BY <1>2, <3>1, <4>1
    <3>. QED
      BY <3>2, <3>3 DEF RequestStream, Framed
  <2>. QED
    BY <1>1, <2>1, <2>2
<1>4. ASSUME NEW i \in 1 .. Len(w)
      PROVE  w[i].of.client_id_ = s[1] /\ w[i].of.run = s[2]
  <2>1. CASE i <= 2 * n
    BY <1>2, <2>1 DEF WholeStream, RequestStream
  <2>2. CASE i > 2 * n
    BY <1>2, <2>2 DEF RequestStream
  <2>. QED
    BY <1>1, <2>1, <2>2
<1>5. RequestStream(w, s)
  BY <1>2, <1>3, <1>4 DEF RequestStream, Framed
<1>6. Len(b) % 2 = 0 => Len(w) % 2 = 0
  BY <1>1, <1>2
<1>. QED
  BY <1>5, <1>6 DEF WholeStream, w

(* A part of a stream that begins where a message does is a stream.        *)
LEMMA StreamPart ==
  ASSUME NEW s, NEW w, RequestStream(w, s), NEW n \in Nat, NEW k \in Nat, 2 * n <= k, k <= Len(w)
  PROVE  /\ RequestStream(SubSeq(w, 2 * n + 1, k), s)
         /\ Len(SubSeq(w, 2 * n + 1, k)) = k - 2 * n
<1>. DEFINE v == SubSeq(w, 2 * n + 1, k)
<1>1. /\ w \in Seq(RequestUnits) /\ Len(w) \in Nat
      /\ v \in Seq(RequestUnits) /\ Len(v) = k - 2 * n
      /\ \A i \in 1 .. Len(v) : i + 2 * n \in 1 .. Len(w) /\ v[i] = w[i + 2 * n]
  BY DEF RequestStream
<1>. HIDE DEF v
<1>2. ASSUME NEW i \in 1 .. Len(v)
      PROVE  /\ 2 * i - 1 <= Len(v) => v[2 * i - 1].half = 1
             /\ 2 * i <= Len(v) => v[2 * i].half = 2 /\ v[2 * i].of = v[2 * i - 1].of
  <2>. DEFINE p == i + n
  <2>1. /\ p \in Nat /\ 2 * p = 2 * i + 2 * n /\ 2 * p - 1 = 2 * i - 1 + 2 * n
        /\ p >= 1 /\ i >= 1
    BY <1>1
  <2>2. 2 * i - 1 <= Len(v) =>
          p \in 1 .. Len(w) /\ 2 * p - 1 <= Len(w) /\ v[2 * i - 1] = w[2 * p - 1]
    BY <1>1, <2>1
  <2>. HIDE DEF p
  <2>3. ASSUME 2 * i <= Len(v)
        PROVE  2 * p <= Len(w) /\ v[2 * i] = w[2 * p] /\ 2 * i - 1 <= Len(v)
    <3>1. 2 * i \in 1 .. Len(v) /\ 2 * p <= Len(w) /\ 2 * i - 1 <= Len(v)
      BY <1>1, <2>1, <2>3
    <3>. QED
      BY <1>1, <2>1, <3>1
  <2>. QED
    BY <2>2, <2>3 DEF RequestStream, Framed
<1>3. \A i \in 1 .. Len(v) : v[i].of.client_id_ = s[1] /\ v[i].of.run = s[2]
  BY <1>1 DEF RequestStream
<1>. QED
  BY <1>1, <1>2, <1>3 DEF RequestStream, Framed, v

(* What a read makes of a stream: a buffer that is a stream itself ...     *)
LEMMA StreamPrefix ==
  ASSUME NEW s, NEW a \in Seq(RequestUnits), NEW b \in Seq(RequestUnits),
         RequestStream(a \o b, s), NEW k \in 0 .. Len(b)
  PROVE  RequestStream(a \o SubSeq(b, 1, k), s)
<1>. DEFINE w == a \o b
            n == Len(a) + k
<1>1. /\ Len(a) \in Nat /\ k \in Nat /\ k <= Len(b) /\ Len(w) = Len(a) + Len(b)
      /\ n \in Nat /\ n <= Len(w) /\ 0 \in Nat /\ 2 * 0 <= n /\ 2 * 0 + 1 = 1
  OBVIOUS
<1>. HIDE DEF n, w
<1>2. RequestStream(SubSeq(w, 2 * 0 + 1, n), s)
  BY <1>1, StreamPart DEF w
<1>3. a \o SubSeq(b, 1, k) = SubSeq(w, 1, n)
  BY PrefixOfConcat DEF w, n
<1>. QED
  BY <1>1, <1>2, <1>3

(* ... and, when the server has taken the whole messages, a remainder that *)
(* with what is still to be read is one again.                             *)
LEMMA StreamRest ==
  ASSUME NEW s, NEW a \in Seq(RequestUnits), NEW b \in Seq(RequestUnits),
         RequestStream(a \o b, s), NEW k \in 0 .. Len(b)
  PROVE  LET rest == Remainder(a \o SubSeq(b, 1, k))
             next == SubSeq(b, k + 1, Len(b))
         IN /\ rest \in Seq(RequestUnits) /\ next \in Seq(RequestUnits)
            /\ RequestStream(rest \o next, s)
            /\ WholeStream(a \o b, s) => WholeStream(rest \o next, s)
            /\ a \o b = << >> => rest \o next = << >>
<1>. DEFINE w == a \o b
            v == a \o SubSeq(b, 1, k)
            rest == Remainder(v)
            next == SubSeq(b, k + 1, Len(b))
<1>1. /\ v \in Seq(RequestUnits) /\ Len(v) = Len(a) + k /\ Len(a) \in Nat /\ k \in Nat
      /\ w \in Seq(RequestUnits) /\ Len(w) = Len(a) + Len(b) /\ Len(b) \in Nat /\ k <= Len(b)
  BY PrefixOfConcat
<1>2. PICK n \in Nat : 2 * n = Len(v) - (Len(v) % 2) /\ 2 * n <= Len(v)
  <2>1. \A l \in Nat : l \div 2 \in Nat /\ 2 * (l \div 2) = l - (l % 2) /\ 2 * (l \div 2) <= l
    OBVIOUS
  <2>2. Len(v) \in Nat
    BY <1>1
  <2>. HIDE DEF v
  <2>. QED
    BY <2>1, <2>2
<1>3. /\ 2 * n \in 0 .. Len(a) + k /\ 2 * n <= Len(w) /\ Len(w) \in Nat
  BY <1>1, <1>2
<1>4. rest = SubSeq(v, 2 * n + 1, Len(v))
  BY <1>2 DEF Remainder
<1>. DEFINE m == 2 * n
<1>5. /\ SubSeq(v, m + 1, Len(v)) \in Seq(RequestUnits) /\ next \in Seq(RequestUnits)
      /\ SubSeq(v, m + 1, Len(v)) \o next = SubSeq(w, m + 1, Len(w))
  <2>1. m \in Nat /\ m <= Len(a) + k
    BY <1>3
  <2>. HIDE DEF m
  <2>2. SplitsAt(RequestUnits, a, b, k, m)
    BY <2>1, SplitConcat
  <2>. QED
    BY <2>2 DEF SplitsAt
<1>. HIDE DEF rest, next
<1>9. RequestStream(w, s)
  OBVIOUS
<1>. HIDE DEF v, w
<1>6. /\ RequestStream(SubSeq(w, 2 * n + 1, Len(w)), s)
      /\ Len(SubSeq(w, 2 * n + 1, Len(w))) = Len(w) - 2 * n
  <2>. DEFINE l == Len(w)
  <2>1. l \in Nat /\ l <= l /\ 2 * n <= l
    BY <1>3
  <2>2. l <= Len(w)
    BY <2>1
  <2>. HIDE DEF l
  <2>3. RequestStream(SubSeq(w, 2 * n + 1, l), s) /\ Len(SubSeq(w, 2 * n + 1, l)) = l - 2 * n
    BY <1>2, <1>9, <2>1, <2>2, StreamPart
  <2>. QED
    BY <2>3 DEF l
<1>7. Len(w) % 2 = 0 => (Len(w) - 2 * n) % 2 = 0
  <2>1. \A l \in Nat : (l % 2 = 0) => (l - 2 * n) % 2 = 0
    BY <1>2
  <2>. QED
    BY <1>3, <2>1
<1>8. w = << >> => SubSeq(w, 2 * n + 1, Len(w)) = << >>
  OBVIOUS
<1>. QED
  BY <1>4, <1>5, <1>6, <1>7, <1>8 DEF w, v, rest, next, WholeStream

(* The halves of a request are a whole stream.                             *)
LEMMA UnitsStream ==
  ASSUME NEW m \in ClientRequests
  PROVE  WholeStream(Units(m), <<m.client_id_, m.run>>)
<1>. DEFINE u == [of |-> m, half |-> 1]
            v == [of |-> m, half |-> 2]
            w == <<u, v>>
<1>1. u \in RequestUnits /\ v \in RequestUnits
  BY DEF RequestUnits
<1>2. u.of = m /\ v.of = m /\ u.half = 1 /\ v.half = 2
  OBVIOUS
<1>. HIDE DEF u, v
<1>3. w \in Seq(RequestUnits) /\ Len(w) = 2 /\ w[1] = u /\ w[2] = v
  BY <1>1
<1>. HIDE DEF w
<1>4. Framed(w)
  <2>1. \A i \in 1 .. 2 : (2 * i - 1 <= 2 => i = 1) /\ (2 * i <= 2 => i = 1)
    OBVIOUS
  <2>. QED
    BY <1>2, <1>3, <2>1 DEF Framed
<1>5. \A i \in 1 .. Len(w) : w[i].of = m
  <2>1. \A i \in 1 .. 2 : i = 1 \/ i = 2
    OBVIOUS
  <2>. QED
    BY <1>2, <1>3, <2>1
<1>6. WholeStream(w, <<m.client_id_, m.run>>)
  BY <1>3, <1>4, <1>5 DEF WholeStream, RequestStream
<1>. QED
  BY <1>6 DEF w, u, v, Units

(* An empty stream.                                                        *)
LEMMA NoStream == \A s : WholeStream(<< >>, s)
<1>1. << >> \in Seq(RequestUnits) /\ Len(<< >>) = 0
  OBVIOUS
<1>. QED
  BY <1>1 DEF WholeStream, RequestStream, Framed

(* The requests of one client and run.                                     *)
RequestsOf(s) == {m \in ClientRequests : m.client_id_ = s[1] /\ m.run = s[2]}

(* The loop over a receive buffer sees requests of its client, no garbage. *)
LEMMA StreamMessages ==
  ASSUME NEW s, NEW w, RequestStream(w, s)
  PROVE  /\ WholeMessages(w) \in Seq(RequestsOf(s))
         /\ NULL \notin ToSet(WholeMessages(w))
<1>. DEFINE n == Len(w) \div 2
            ms == WholeMessages(w)
<1>1. Len(w) \in Nat /\ n \in Nat /\ 2 * n <= Len(w) /\ w \in Seq(RequestUnits)
  BY DEF RequestStream
<1>2. ms = [i \in 1 .. n |-> ReadAs(w[2 * i - 1], w[2 * i])]
  BY DEF WholeMessages
<1>. HIDE DEF n, ms
<1>3. ASSUME NEW i \in 1 .. n
      PROVE  ReadAs(w[2 * i - 1], w[2 * i]) \in RequestsOf(s)
  <2>1. /\ i \in 1 .. Len(w) /\ 2 * i - 1 \in 1 .. Len(w) /\ 2 * i \in 1 .. Len(w)
        /\ 2 * i - 1 <= Len(w) /\ 2 * i <= Len(w)
    BY <1>1
  <2>2. w[2 * i - 1].half = 1 /\ w[2 * i].half = 2 /\ w[2 * i].of = w[2 * i - 1].of
    BY <2>1 DEF RequestStream, Framed
  <2>3. w[2 * i - 1] \in RequestUnits
    BY <1>1, <2>1
  <2>4. w[2 * i - 1].of \in RequestsOf(s)
    BY <2>1, <2>3 DEF RequestStream, RequestUnits, RequestsOf
  <2>. QED
    BY <2>2, <2>4 DEF ReadAs
<1>4. ms \in Seq(RequestsOf(s)) /\ Len(ms) = n /\ DOMAIN ms = 1 .. n
  <2>1. ms \in [1 .. n -> RequestsOf(s)]
    BY <1>2, <1>3
  <2>. QED
    BY <1>1, <2>1
<1>5. \A m \in RequestsOf(s) : m # NULL
  BY NullEntry DEF RequestsOf
<1>6. NULL \notin ToSet(ms)
  BY <1>4, <1>5 DEF ToSet
<1>. QED
  BY <1>4, <1>6 DEF ms

----------------------------------------------------------------------------
(* The loops.                                                              *)

(* What the gateway has after a number of responses.                       *)
GatewayStates ==
  {g \in [next : Nat, got : Seq(Nat)] :
     g.next = Len(g.got) + 1 /\ \A i \in 1 .. Len(g.got) : g.got[i] = i}

(* Whatever its receive buffer is made of, the gateway takes only the next *)
(* response.                                                               *)
LEMMA GatewayLoop ==
  ASSUME NEW g \in GatewayStates, NEW w \in Seq(ResponseUnits)
  PROVE  FoldLeft(recvResponse, g, WholeMessages(w)) \in GatewayStates
<1>. DEFINE n  == Len(w) \div 2
            ms == WholeMessages(w)
            M  == {m \in [client_id_ : Clients, id : Nat, seq_num_ : Nat] : m.id = m.seq_num_}
<1>1. Len(w) \in Nat /\ n \in Nat /\ 2 * n <= Len(w)
  OBVIOUS
<1>2. ms = [i \in 1 .. n |-> ReadAs(w[2 * i - 1], w[2 * i])]
  BY DEF WholeMessages
<1>. HIDE DEF n, ms
<1>3. ASSUME NEW i \in 1 .. n
      PROVE  ReadAs(w[2 * i - 1], w[2 * i]) \in M \cup {NULL}
  <2>1. 2 * i - 1 \in 1 .. Len(w)
    BY <1>1
  <2>2. w[2 * i - 1] \in ResponseUnits
    BY <2>1
  <2>3. w[2 * i - 1].of \in M
    BY <2>2 DEF ResponseUnits
  <2>. QED
    BY <2>3 DEF ReadAs
<1>4. ms \in Seq(M \cup {NULL}) /\ Len(ms) = n
  <2>1. ms \in [1 .. n -> M \cup {NULL}]
    BY <1>2, <1>3
  <2>. QED
    BY <1>1, <2>1
<1>5. ASSUME NEW x \in GatewayStates, NEW m \in M \cup {NULL}
      PROVE  recvResponse(x, m) \in GatewayStates
  <2>1. CASE m # NULL /\ m.seq_num_ = x.next
    <3>. DEFINE new == Append(x.got, m.id)
    <3>1. /\ x.got \in Seq(Nat) /\ x.next \in Nat /\ x.next = Len(x.got) + 1
          /\ m.id = x.next /\ m.id \in Nat
          /\ \A i \in 1 .. Len(x.got) : x.got[i] = i
      BY <1>5, <2>1 DEF GatewayStates
    <3>2. /\ new \in Seq(Nat) /\ Len(new) = Len(x.got) + 1 /\ Len(x.got) \in Nat
          /\ \A i \in 1 .. Len(new) : new[i] = i
      BY <3>1
    <3>3. recvResponse(x, m) = [next |-> x.next + 1, got |-> new]
      BY <2>1 DEF recvResponse
    <3>. HIDE DEF new
    <3>. QED
      BY <3>1, <3>2, <3>3 DEF GatewayStates
  <2>2. CASE ~(m # NULL /\ m.seq_num_ = x.next)
    BY <2>2 DEF recvResponse
  <2>. QED
    BY <2>1, <2>2
<1>6. \A k \in 1 .. Len(ms) : ms[k] \in M \cup {NULL}
  BY <1>1, <1>4
<1>. HIDE DEF M
<1>7. Gateway!Fold(g, ms) \in GatewayStates
  BY <1>4, <1>5, <1>6, Gateway!FoldKeeps
<1>. QED
  BY <1>7, GatewayFold DEF ms

(* The requests that wait in the sequencer.                                *)
LEMMA WaitingParts ==
  ASSUME NEW sv \in Servers
  PROVE  /\ Waiting(sv) \in Seq(ClientRequests)
         /\ Len(Waiting(sv)) = Len(sv.pending_client_requests_)
         /\ Len(Waiting(sv)) \in Nat
         /\ \A i \in 1 .. Len(Waiting(sv)) :
              /\ Waiting(sv)[i] = sv.pending_client_requests_[i].request_
              /\ Waiting(sv)[i] \in ClientRequests
<1>. DEFINE p == sv.pending_client_requests_
            n == Len(p)
            w == Waiting(sv)
<1>1. p \in Seq([recv_time_ : RxTimes, request_ : ClientRequests]) /\ n \in Nat
  BY DEF Servers
<1>3. w = [i \in 1 .. n |-> p[i].request_]
  BY DEF Waiting
<1>. HIDE DEF p, w
<1>2. \A i \in 1 .. n : p[i] \in [recv_time_ : RxTimes, request_ : ClientRequests]
  BY <1>1, ElementOfSeq
<1>. HIDE DEF n
<1>4. w \in [1 .. n -> ClientRequests]
  BY <1>2, <1>3
<1>5. w \in Seq(ClientRequests) /\ Len(w) = n
  BY <1>1, <1>4
<1>6. \A i \in 1 .. n : w[i] = p[i].request_ /\ w[i] \in ClientRequests
  BY <1>3, <1>4
<1>. QED
  BY <1>1, <1>5, <1>6 DEF p, n, w

(* A message with its socket and the time, as recvCallbacks gets it.       *)
Received(s, rx_time) == [socket : {s}, rx_time : {rx_time}, request_ : RequestsOf(s)]

(* The request of message r is bound to its socket, and goes to the        *)
(* sequencer if it is the next one of its client.                          *)
Binds(sv, sv2, r) ==
  LET c == r.request_.client_id_ IN
  /\ sv.cid_to_socket_[c] \in {NULL, r.socket}
  /\ sv2.cid_to_socket_ = [sv.cid_to_socket_ EXCEPT ![c] = r.socket]

Takes(sv, sv2, r) ==
  LET m == r.request_
      c == m.client_id_
  IN
  /\ sv.cid_next_exp_seq_num_[c] = m.seq_num_
  /\ sv2.cid_next_exp_seq_num_ = [sv.cid_next_exp_seq_num_ EXCEPT ![c] = @ + 1]
  /\ sv2.pending_client_requests_ =
       Append(sv.pending_client_requests_, [recv_time_ |-> r.rx_time, request_ |-> m])

Drops(sv, sv2) ==
  /\ sv2.cid_next_exp_seq_num_ = sv.cid_next_exp_seq_num_
  /\ sv2.pending_client_requests_ = sv.pending_client_requests_

LEMMA RecvRequestCases ==
  ASSUME NEW s \in Sockets, NEW rx_time \in RxTimes, NEW r \in Received(s, rx_time),
         NEW sv \in Servers
  PROVE  /\ recvRequest(sv, r) \in Servers
         /\ \/ recvRequest(sv, r) = sv
            \/ Binds(sv, recvRequest(sv, r), r) /\ Drops(sv, recvRequest(sv, r))
            \/ Binds(sv, recvRequest(sv, r), r) /\ Takes(sv, recvRequest(sv, r), r)
<1>. DEFINE m    == r.request_
            c    == m.client_id_
            sock == sv.cid_to_socket_
            exp  == sv.cid_next_exp_seq_num_
            pend == sv.pending_client_requests_
            sv2  == recvRequest(sv, r)
            bound == [sv EXCEPT !.cid_to_socket_[c] = r.socket]
            entry == [recv_time_ |-> r.rx_time, request_ |-> m]
            taking == [bound EXCEPT !.cid_next_exp_seq_num_[c] = @ + 1,
                                    !.pending_client_requests_ = Append(@, entry)]
<1>1. /\ m \in ClientRequests /\ c \in Clients /\ r.socket = s /\ r.rx_time = rx_time
      /\ m.seq_num_ \in Nat \ {0}
  BY DEF Received, RequestsOf, ClientRequests
<1>. DEFINE sock2 == [sock EXCEPT ![c] = r.socket]
            exp2  == [exp EXCEPT ![c] = @ + 1]
            pend2 == Append(pend, entry)
            Entries == [recv_time_ : RxTimes, request_ : ClientRequests]
<1>2. /\ sock \in [Clients -> Sockets \cup {NULL}] /\ exp \in [Clients -> Nat \ {0}]
      /\ pend \in Seq(Entries) /\ entry \in Entries
  BY <1>1 DEF Servers
<1>3. sv2 = IF sock[c] # NULL /\ sock[c] # r.socket THEN sv
            ELSE IF exp[c] # m.seq_num_ THEN bound ELSE taking
  BY DEF recvRequest
<1>4. /\ bound = [sv EXCEPT !.cid_to_socket_ = sock2]
      /\ taking = [sv EXCEPT !.cid_to_socket_ = sock2, !.cid_next_exp_seq_num_ = exp2,
                             !.pending_client_requests_ = pend2]
  <2>1. bound = [sv EXCEPT !.cid_to_socket_ = sock2]
    OBVIOUS
  <2>2. bound.cid_next_exp_seq_num_ = exp /\ bound.pending_client_requests_ = pend
    BY DEF Servers
  <2>3. taking = [[bound EXCEPT !.cid_next_exp_seq_num_ = exp2]
                    EXCEPT !.pending_client_requests_ = pend2]
    <3>1. taking = [[bound EXCEPT !.cid_next_exp_seq_num_ =
                        [bound.cid_next_exp_seq_num_ EXCEPT ![c] = @ + 1]]
                      EXCEPT !.pending_client_requests_ =
                        Append([bound EXCEPT !.cid_next_exp_seq_num_ =
                                  [bound.cid_next_exp_seq_num_ EXCEPT ![c] = @ + 1]].pending_client_requests_,
                               entry)]
      OBVIOUS
    <3>2. [bound EXCEPT !.cid_next_exp_seq_num_ = exp2].pending_client_requests_ = pend
      BY <2>2
    <3>. HIDE DEF bound, entry, pend, taking
    <3>. QED
      BY <2>2, <3>1, <3>2
  <2>. QED
    BY <2>1, <2>3
<1>. HIDE DEF entry, c, m, bound, taking
<1>5. sock2 \in [Clients -> Sockets \cup {NULL}] /\ exp2 \in [Clients -> Nat \ {0}]
      /\ pend2 \in Seq(Entries)
  BY <1>1, <1>2
<1>. HIDE DEF sock, exp, pend, sock2, exp2, pend2, sv2
<1>6. /\ bound \in Servers /\ taking \in Servers
      /\ bound.cid_to_socket_ = sock2 /\ taking.cid_to_socket_ = sock2
      /\ bound.cid_next_exp_seq_num_ = sv.cid_next_exp_seq_num_
      /\ bound.pending_client_requests_ = sv.pending_client_requests_
      /\ taking.cid_next_exp_seq_num_ = exp2 /\ taking.pending_client_requests_ = pend2
  BY <1>4, <1>5 DEF Servers
<1>7. CASE sock[c] # NULL /\ sock[c] # r.socket
  BY <1>3, <1>7 DEF sv2
<1>8. CASE ~(sock[c] # NULL /\ sock[c] # r.socket) /\ exp[c] # m.seq_num_
  <2>1. sv2 = bound /\ Binds(sv, sv2, r) /\ Drops(sv, sv2)
    BY <1>3, <1>6, <1>8 DEF Binds, Drops, sock, sock2, exp, pend, c, m
  <2>. QED
    BY <1>6, <2>1 DEF sv2
<1>9. CASE ~(sock[c] # NULL /\ sock[c] # r.socket) /\ exp[c] = m.seq_num_
  <2>1. sv2 = taking /\ Binds(sv, sv2, r) /\ Takes(sv, sv2, r)
    BY <1>3, <1>6, <1>9 DEF Binds, Takes, sock, sock2, exp, exp2, pend, pend2, c, m, entry
  <2>. QED
    BY <1>6, <2>1 DEF sv2
<1>. QED
  BY <1>7, <1>8, <1>9

(* A request that was accepted stays so: its client's socket is fixed, and *)
(* the expected number only grows.                                         *)
LEMMA StaysAccepted ==
  ASSUME NEW s \in Sockets, NEW rx_time \in RxTimes, NEW r \in Received(s, rx_time),
         NEW sv \in Servers, NEW ms \in Seq(ClientRequests), AllAccepted(sv, ms)
  PROVE  /\ AllAccepted(recvRequest(sv, r), ms)
         /\ \A i \in 1 .. Len(ms) :
              /\ sv.cid_to_socket_[ms[i].client_id_] # NULL
              /\ recvRequest(sv, r).cid_to_socket_[ms[i].client_id_]
                   = sv.cid_to_socket_[ms[i].client_id_]
<1>. DEFINE sv2 == recvRequest(sv, r)
            c   == r.request_.client_id_
<1>1. /\ sv2 = sv \/ (Binds(sv, sv2, r) /\ (Drops(sv, sv2) \/ Takes(sv, sv2, r)))
      /\ sv2 \in Servers
  BY RecvRequestCases
<1>2. c \in Clients /\ r.socket = s /\ r.request_.seq_num_ \in Nat
  BY DEF Received, RequestsOf, ClientRequests
<1>. HIDE DEF sv2
<1>3. ASSUME NEW i \in 1 .. Len(ms)
      PROVE  LET m == ms[i] IN
             /\ sv.cid_to_socket_[m.client_id_] # NULL
             /\ sv2.cid_to_socket_[m.client_id_] = sv.cid_to_socket_[m.client_id_]
             /\ sv2.cid_to_socket_[m.client_id_] = <<m.client_id_, m.run>>
             /\ m.seq_num_ < sv2.cid_next_exp_seq_num_[m.client_id_]
  <2>. DEFINE m == ms[i]
              d == m.client_id_
  <2>1. m \in ClientRequests
    BY ElementOfSeq
  <2>2. d \in Clients /\ <<d, m.run>> \in Sockets /\ m.seq_num_ \in Nat
    BY <2>1 DEF ClientRequests, Sockets
  <2>3. sv.cid_to_socket_[d] = <<d, m.run>> /\ m.seq_num_ < sv.cid_next_exp_seq_num_[d]
    BY DEF AllAccepted
  <2>4. <<d, m.run>> # NULL
    BY <2>2, NullEntry
  <2>. HIDE DEF d, m, c
  <2>5. sv.cid_to_socket_[d] # NULL
    BY <2>3, <2>4
  <2>6. Binds(sv, sv2, r) => sv2.cid_to_socket_[d] = sv.cid_to_socket_[d]
    BY <1>2, <2>2, <2>5 DEF Binds, Servers, c
  <2>7. Drops(sv, sv2) \/ Takes(sv, sv2, r) =>
          sv2.cid_next_exp_seq_num_[d] \in {sv.cid_next_exp_seq_num_[d],
                                            sv.cid_next_exp_seq_num_[d] + 1}
    BY <1>2, <2>2 DEF Drops, Takes, Servers, c
  <2>8. sv.cid_next_exp_seq_num_[d] \in Nat
    BY <2>2 DEF Servers
  <2>9. sv2.cid_to_socket_[d] = sv.cid_to_socket_[d] /\ m.seq_num_ < sv2.cid_next_exp_seq_num_[d]
    BY <1>1, <2>2, <2>3, <2>6, <2>7, <2>8
  <2>. QED
    BY <2>3, <2>5, <2>9 DEF d, m
<1>4. AllAccepted(sv2, ms)
  BY <1>3 DEF AllAccepted
<1>. QED
  BY <1>3, <1>4 DEF sv2

(* What is waiting after one more request.                                 *)
LEMMA WaitingTakes ==
  ASSUME NEW sv \in Servers, NEW sv2 \in Servers, NEW r, Takes(sv, sv2, r)
  PROVE  /\ Len(Waiting(sv2)) = Len(Waiting(sv)) + 1
         /\ Waiting(sv2)[Len(Waiting(sv)) + 1] = r.request_
         /\ sv2.pending_client_requests_[Len(Waiting(sv)) + 1].recv_time_ = r.rx_time
         /\ \A i \in 1 .. Len(Waiting(sv)) :
              /\ Waiting(sv2)[i] = Waiting(sv)[i]
              /\ sv2.pending_client_requests_[i] = sv.pending_client_requests_[i]
<1>. DEFINE p  == sv.pending_client_requests_
            p2 == sv2.pending_client_requests_
            n  == Len(p)
            e  == [recv_time_ |-> r.rx_time, request_ |-> r.request_]
            S  == [recv_time_ : RxTimes, request_ : ClientRequests]
<1>1. p \in Seq(S) /\ p2 \in Seq(S) /\ p2 = Append(p, e) /\ n \in Nat
  BY DEF Servers, Takes
<1>2. e.recv_time_ = r.rx_time /\ e.request_ = r.request_
  OBVIOUS
<1>3. Len(Waiting(sv)) = n /\ Len(Waiting(sv2)) = Len(p2)
  BY WaitingParts
<1>4. /\ \A i \in 1 .. Len(Waiting(sv)) : Waiting(sv)[i] = p[i].request_
      /\ \A i \in 1 .. Len(Waiting(sv2)) : Waiting(sv2)[i] = p2[i].request_
  BY WaitingParts
<1>. HIDE DEF p, p2, e, S, n
<1>5. Len(p2) = n + 1 /\ p2[n + 1] = e /\ \A i \in 1 .. n : p2[i] = p[i]
  BY <1>1 DEF n
<1>6. n + 1 \in 1 .. n + 1 /\ \A i \in 1 .. n : i \in 1 .. n + 1
  BY <1>1
<1>. QED
  BY <1>2, <1>3, <1>4, <1>5, <1>6 DEF p, p2

LEMMA WaitingDrops ==
  ASSUME NEW sv, NEW sv2, Drops(sv, sv2)
  PROVE  Waiting(sv2) = Waiting(sv)
BY DEF Drops, Waiting

(* What recvCallbacks leaves when it starts with `server'.                 *)
ReadServers ==
  {sv \in Servers :
     /\ AllAccepted(sv, taken) /\ AllAccepted(sv, client_requests)
     /\ AllAccepted(sv, Waiting(sv))
     /\ \A c \in Clients : server.cid_to_socket_[c] # NULL => sv.cid_to_socket_[c] # NULL}

(* One iteration of recvCallbacks.                                         *)
LEMMA ReadStep ==
  ASSUME NEW s \in Sockets, NEW rx_time \in RxTimes, NEW r \in Received(s, rx_time),
         taken \in Seq(ClientRequests), client_requests \in Seq(ClientRequests),
         NEW sv \in ReadServers
  PROVE  recvRequest(sv, r) \in ReadServers
<1>. DEFINE sv2 == recvRequest(sv, r)
            m   == r.request_
            c   == m.client_id_
<1>1. /\ sv2 = sv \/ (Binds(sv, sv2, r) /\ (Drops(sv, sv2) \/ Takes(sv, sv2, r)))
      /\ sv \in Servers /\ sv2 \in Servers
  BY RecvRequestCases DEF ReadServers
<1>2. /\ AllAccepted(sv2, taken) /\ AllAccepted(sv2, client_requests)
      /\ AllAccepted(sv2, Waiting(sv))
  BY <1>1, StaysAccepted, WaitingParts DEF ReadServers
<1>3. /\ c \in Clients /\ r.socket = s /\ s = <<c, m.run>> /\ m.seq_num_ \in Nat /\ s # NULL
      /\ m.client_id_ = c
  BY NullEntry DEF Received, RequestsOf, ClientRequests, Sockets
<1>. HIDE DEF sv2, c, m
<1>4. ASSUME NEW d \in Clients, server.cid_to_socket_[d] # NULL
      PROVE  sv2.cid_to_socket_[d] # NULL
  <2>1. sv.cid_to_socket_[d] # NULL
    BY <1>4 DEF ReadServers
  <2>2. Binds(sv, sv2, r) => sv2.cid_to_socket_[d] \in {sv.cid_to_socket_[d], s}
    BY <1>1, <1>3 DEF Binds, Servers, c, m
  <2>. QED
    BY <1>1, <1>3, <2>1, <2>2
<1>5. AllAccepted(sv2, Waiting(sv2))
  <2>1. CASE sv2 = sv
    BY <2>1, <1>2
  <2>2. CASE Drops(sv, sv2)
    BY <2>2, <1>2, WaitingDrops
  <2>3. CASE Binds(sv, sv2, r) /\ Takes(sv, sv2, r)
    <3>. DEFINE n == Len(Waiting(sv))
    <3>1. /\ n \in Nat /\ Len(Waiting(sv2)) = n + 1 /\ Waiting(sv2)[n + 1] = m
          /\ \A i \in 1 .. n : Waiting(sv2)[i] = Waiting(sv)[i]
      BY <1>1, <2>3, WaitingTakes, WaitingParts DEF m
    <3>. HIDE DEF n
    <3>2. sv2.cid_to_socket_[c] = <<c, m.run>> /\ m.seq_num_ < sv2.cid_next_exp_seq_num_[c]
      <4>1. sv2.cid_to_socket_[c] = r.socket
        BY <1>1, <1>3, <2>3 DEF Binds, Servers, c, m
      <4>2. sv2.cid_next_exp_seq_num_[c] = m.seq_num_ + 1
        BY <1>1, <1>3, <2>3 DEF Takes, Servers, c, m
      <4>. QED
        BY <1>3, <4>1, <4>2
    <3>3. ASSUME NEW i \in 1 .. n + 1
          PROVE  LET q == Waiting(sv2)[i] IN
                 /\ sv2.cid_to_socket_[q.client_id_] = <<q.client_id_, q.run>>
                 /\ q.seq_num_ < sv2.cid_next_exp_seq_num_[q.client_id_]
      <4>1. CASE i = n + 1
        BY <1>3, <3>1, <3>2, <4>1
      <4>2. CASE i \in 1 .. n
        BY <1>2, <3>1, <4>2 DEF AllAccepted, n
      <4>. QED
        BY <3>1, <4>1, <4>2
    <3>. QED
      BY <3>1, <3>3 DEF AllAccepted
  <2>. QED
    BY <1>1, <2>1, <2>2, <2>3
<1>. QED
  BY <1>1, <1>2, <1>4, <1>5 DEF ReadServers, sv2

(* What is handed to recvCallbacks.                                        *)
LEMMA ReceivedParts ==
  ASSUME NEW s, NEW rx_time, NEW ms \in Seq(RequestsOf(s))
  PROVE  [i \in 1 .. Len(ms) |-> [socket |-> s, rx_time |-> rx_time, request_ |-> ms[i]]]
           \in Seq(Received(s, rx_time))
<1>. DEFINE n == Len(ms)
            f == [i \in 1 .. n |-> [socket |-> s, rx_time |-> rx_time, request_ |-> ms[i]]]
<1>1. n \in Nat /\ \A i \in 1 .. n : ms[i] \in RequestsOf(s)
  BY ElementOfSeq
<1>2. \A i \in 1 .. n : [socket |-> s, rx_time |-> rx_time, request_ |-> ms[i]]
                          \in Received(s, rx_time)
  BY <1>1 DEF Received
<1>3. f \in [1 .. n -> Received(s, rx_time)]
  BY <1>2
<1>. HIDE DEF f, n
<1>4. f \in Seq(Received(s, rx_time))
  BY <1>1, <1>3
<1>. QED
  BY <1>4 DEF f, n

(* The loop of recvCallbacks.                                              *)
LEMMA ReadLoop ==
  ASSUME ServerInv, NEW s \in Sockets, NEW rx_time \in RxTimes, NEW ms \in Seq(RequestsOf(s))
  PROVE  recvCallbacks(s, rx_time, ms) \in ReadServers
<1>. DEFINE rs == [i \in 1 .. Len(ms) |->
                     [socket |-> s, rx_time |-> rx_time, request_ |-> ms[i]]]
<1>1. rs \in Seq(Received(s, rx_time))
  BY ReceivedParts
<1>. HIDE DEF rs
<1>2. \A k \in 1 .. Len(rs) : rs[k] \in Received(s, rx_time)
  BY <1>1, ElementOfSeq
<1>3. server \in ReadServers
  BY DEF ServerInv, ReadServers
<1>4. \A sv \in ReadServers : \A k \in 1 .. Len(rs) : recvRequest(sv, rs[k]) \in ReadServers
  BY <1>2, ReadStep DEF ServerInv
<1>5. Server!Fold(server, rs) \in ReadServers
  BY <1>1, <1>3, <1>4, Server!FoldKeeps
<1>. QED
  BY <1>5, ServerFold DEF recvCallbacks, rs

----------------------------------------------------------------------------
(* The way up.                                                             *)

LEMMA UpUnchanged ==
  ASSUME UpInv, UNCHANGED <<run, next_outgoing_seq_num_, og_send_buffer_, up, recv_buffer_>>
  PROVE  UpInv'
BY DEF UpInv, Socket

(* A request is put into the send buffer whole.                            *)
LEMMA SendRequestUp ==
  ASSUME UpInv, NEW c \in Clients, SendRequest(c)
  PROVE  UpInv'
<1>. DEFINE n == next_outgoing_seq_num_[c]
<1>1. PICK request \in RandomRequests(n) :
        og_send_buffer_' = [og_send_buffer_ EXCEPT ![c] = @ \o
          Units([client_id_ |-> c, run |-> run[c], seq_num_ |-> n, request |-> request])]
  BY DEF SendRequest
<1>. DEFINE m == [client_id_ |-> c, run |-> run[c], seq_num_ |-> n, request |-> request]
            b == og_send_buffer_[c] \o Units(m)
<1>2. /\ next_outgoing_seq_num_' = [next_outgoing_seq_num_ EXCEPT ![c] = @ + 1]
      /\ UNCHANGED <<run, up, recv_buffer_>>
  BY DEF SendRequest, streamVars, socketVars
<1>3. m \in ClientRequests
  <2>1. n \in Nat \ {0} /\ run[c] \in Runs
    BY DEF UpInv
  <2>2. request \in [type_ : {"NEW", "CANCEL"}, order_id_ : Nat]
    <3>1. n \div 2 \in Nat
      BY <2>1
    <3>. QED
      BY <3>1 DEF RandomRequests
  <2>. QED
    BY <2>1, <2>2 DEF ClientRequests
<1>4. WholeStream(b, Socket(c))
  <2>1. WholeStream(Units(m), Socket(c)) /\ WholeStream(og_send_buffer_[c], Socket(c))
    BY <1>3, UnitsStream DEF Socket, UpInv
  <2>. HIDE DEF m
  <2>. QED
    BY <2>1, StreamConcat DEF WholeStream
<1>5. /\ og_send_buffer_' = [og_send_buffer_ EXCEPT ![c] = b]
      /\ b \in Seq(RequestUnits)
  BY <1>1, <1>4 DEF WholeStream, RequestStream
<1>. HIDE DEF b, m
<1>6. /\ og_send_buffer_' \in [Clients -> Seq(RequestUnits)]
      /\ \A d \in Clients : WholeStream(og_send_buffer_'[d], Socket(d))
  BY <1>4, <1>5 DEF UpInv
<1>7. next_outgoing_seq_num_' \in [Clients -> Nat \ {0}]
  BY <1>2 DEF UpInv
<1>. QED
  BY <1>2, <1>6, <1>7 DEF UpInv, Socket

(* A send puts whole requests into the connection, or nothing.             *)
LEMMA GatewayUp ==
  ASSUME UpInv, NEW c \in Clients, GatewaySendAndRecv(c)
  PROVE  UpInv'
<1>. DEFINE s == Socket(c)
<1>1. PICK delivered \in {og_send_buffer_[c], << >>} : up' = [up EXCEPT ![s] = @ \o delivered]
  BY DEF GatewaySendAndRecv
<1>2. /\ og_send_buffer_' = [og_send_buffer_ EXCEPT ![c] = << >>]
      /\ UNCHANGED <<run, next_outgoing_seq_num_, recv_buffer_>>
  BY DEF GatewaySendAndRecv, socketVars
<1>3. WholeStream(delivered, s)
  <2>1. WholeStream(og_send_buffer_[c], s)
    BY DEF UpInv
  <2>2. WholeStream(<< >>, s)
    BY NoStream
  <2>. HIDE DEF s
  <2>. QED
    BY <2>1, <2>2, <1>1
<1>4. s \in Sockets /\ s[1] = c /\ s[2] = run[c] /\ s[2] \in Int
  BY DEF Socket, Sockets, UpInv, Runs
<1>. DEFINE a == recv_buffer_[s]
            b == up[s]
<1>5. /\ WholeStream(a \o b, s)
      /\ a \in Seq(RequestUnits) /\ b \in Seq(RequestUnits)
  BY <1>4 DEF UpInv
<1>. HIDE DEF s, a, b
<1>6. WholeStream(a \o (b \o delivered), s) /\ delivered \in Seq(RequestUnits)
  <2>1. RequestStream(delivered, s) /\ Len(delivered) % 2 = 0
        /\ delivered \in Seq(RequestUnits)
    BY <1>3 DEF WholeStream, RequestStream
  <2>2. WholeStream((a \o b) \o delivered, s)
    BY <1>5, <2>1, StreamConcat
  <2>3. (a \o b) \o delivered = a \o (b \o delivered)
    BY <1>5, <2>1, ConcatAssociative
  <2>. QED
    BY <2>1, <2>2, <2>3
<1>7. /\ up' \in [Sockets -> Seq(RequestUnits)] /\ up'[s] = b \o delivered
      /\ \A t \in Sockets : t # s => up'[t] = up[t]
  <2>1. b \o delivered \in Seq(RequestUnits)
    BY <1>5, <1>6
  <2>2. up' = [up EXCEPT ![s] = b \o delivered]
    BY <1>1 DEF b
  <2>. QED
    BY <1>4, <2>1, <2>2 DEF UpInv
<1>8. ASSUME NEW t \in Sockets
      PROVE  /\ RequestStream(recv_buffer_[t] \o up'[t], t)
             /\ t[2] >= run[t[1]] => WholeStream(recv_buffer_[t] \o up'[t], t)
             /\ t[2] > run[t[1]] => recv_buffer_[t] \o up'[t] = << >>
  <2>1. CASE t = s
    <3>1. WholeStream(recv_buffer_[t] \o up'[t], t)
      BY <1>6, <1>7, <2>1 DEF a
    <3>2. ~(t[2] > run[t[1]])
      BY <1>4, <2>1
    <3>. QED
      BY <3>1, <3>2 DEF WholeStream
  <2>2. CASE t # s
    <3>1. up'[t] = up[t]
      BY <1>7, <2>2
    <3>. QED
      BY <3>1 DEF UpInv
  <2>. QED
    BY <2>1, <2>2
<1>9. /\ og_send_buffer_' \in [Clients -> Seq(RequestUnits)]
      /\ \A d \in Clients : WholeStream(og_send_buffer_'[d], Socket(d))
  <2>1. << >> \in Seq(RequestUnits)
    OBVIOUS
  <2>. QED
    BY <1>2, <2>1, NoStream DEF UpInv
<1>. QED
  BY <1>2, <1>7, <1>8, <1>9 DEF UpInv, Socket

(* A client that dies leaves a stream that may break off anywhere; the new *)
(* one has a fresh connection.                                             *)
LEMMA RestartUp ==
  ASSUME UpInv, NEW c \in Clients, Restart(c)
  PROVE  UpInv'
<1>. DEFINE s == Socket(c)
            a == recv_buffer_[s]
            b == up[s]
<1>1. PICK k \in 0 .. Len(b) : up' = [up EXCEPT ![s] = SubSeq(b, 1, k)]
  BY DEF Restart
<1>2. /\ run[c] < MaxFaults /\ run' = [run EXCEPT ![c] = @ + 1]
      /\ next_outgoing_seq_num_' = [next_outgoing_seq_num_ EXCEPT ![c] = 1]
      /\ og_send_buffer_' = [og_send_buffer_ EXCEPT ![c] = << >>]
      /\ recv_buffer_' = recv_buffer_
  BY DEF Restart, socketVars
<1>3. s \in Sockets /\ s[1] = c /\ s[2] = run[c] /\ run[c] \in Nat
  BY DEF Socket, Sockets, UpInv, Runs
<1>4. a \in Seq(RequestUnits) /\ b \in Seq(RequestUnits) /\ RequestStream(a \o b, s)
  BY <1>3 DEF UpInv
<1>. HIDE DEF s, a, b
<1>5. RequestStream(a \o SubSeq(b, 1, k), s) /\ SubSeq(b, 1, k) \in Seq(RequestUnits)
  BY <1>4, StreamPrefix, PrefixOfConcat
<1>6. /\ up' \in [Sockets -> Seq(RequestUnits)] /\ up'[s] = SubSeq(b, 1, k)
      /\ \A t \in Sockets : t # s => up'[t] = up[t]
  BY <1>1, <1>3, <1>5 DEF UpInv
<1>7. /\ run' \in [Clients -> Runs] /\ run'[c] = run[c] + 1
      /\ \A d \in Clients \ {c} : run'[d] = run[d]
  BY <1>2, <1>3, OrderEntryAssumption DEF UpInv, Runs
<1>8. ASSUME NEW t \in Sockets
      PROVE  /\ RequestStream(recv_buffer_[t] \o up'[t], t)
             /\ t[2] >= run'[t[1]] => WholeStream(recv_buffer_[t] \o up'[t], t)
             /\ t[2] > run'[t[1]] => recv_buffer_[t] \o up'[t] = << >>
  <2>0. t[1] \in Clients /\ t[2] \in Nat /\ t = <<t[1], t[2]>> /\ run[t[1]] \in Nat
    BY DEF Sockets, Runs, UpInv
  <2>1. CASE t = s
    <3>1. ~(t[2] >= run'[t[1]]) /\ ~(t[2] > run'[t[1]])
      BY <1>3, <1>7, <2>1
    <3>. QED
      BY <1>5, <1>6, <2>1, <3>1 DEF a
  <2>2. CASE t # s
    <3>1. (t[2] >= run'[t[1]] => t[2] >= run[t[1]])
          /\ (t[2] > run'[t[1]] => t[2] > run[t[1]])
      BY <1>3, <1>7, <2>0
    <3>2. up'[t] = up[t]
      BY <1>6, <2>2
    <3>. QED
      BY <3>1, <3>2 DEF UpInv
  <2>. QED
    BY <2>1, <2>2
<1>9. /\ og_send_buffer_' \in [Clients -> Seq(RequestUnits)]
      /\ \A d \in Clients : WholeStream(og_send_buffer_'[d], Socket(d)')
  <2>1. << >> \in Seq(RequestUnits)
    OBVIOUS
  <2>2. \A d \in Clients : d # c => Socket(d)' = Socket(d)
    BY <1>7 DEF Socket
  <2>. QED
    BY <1>2, <2>1, <2>2, NoStream DEF UpInv
<1>10. next_outgoing_seq_num_' \in [Clients -> Nat \ {0}]
  BY <1>2 DEF UpInv
<1>. QED
  BY <1>2, <1>6, <1>7, <1>8, <1>9, <1>10 DEF UpInv

(* What a read returns begins with whole requests; the rest is kept.       *)
LEMMA ReadSocketUp ==
  ASSUME UpInv, NEW s \in Sockets, ReadSocket(s), NEW k \in ReadLengths(up[s]),
         up' = [up EXCEPT ![s] = SubSeq(@, k + 1, Len(@))],
         recv_buffer_' = [recv_buffer_ EXCEPT
                            ![s] = Remainder(recv_buffer_[s] \o SubSeq(up[s], 1, k))]
  PROVE  /\ RequestStream(recv_buffer_[s] \o SubSeq(up[s], 1, k), s)
         /\ UpInv'
<1>. DEFINE a == recv_buffer_[s]
            b == up[s]
            v == a \o SubSeq(b, 1, k)
            rest == Remainder(v)
            up2  == SubSeq(b, k + 1, Len(b))
<1>1. /\ a \in Seq(RequestUnits) /\ b \in Seq(RequestUnits) /\ RequestStream(a \o b, s)
      /\ k \in 0 .. Len(b)
      /\ s[2] >= run[s[1]] => WholeStream(a \o b, s)
      /\ s[2] > run[s[1]] => a \o b = << >>
  BY DEF UpInv, ReadLengths
<1>2. /\ up' = [up EXCEPT ![s] = up2] /\ recv_buffer_' = [recv_buffer_ EXCEPT ![s] = rest]
      /\ UNCHANGED <<run, next_outgoing_seq_num_, og_send_buffer_>>
  BY DEF ReadSocket, clientVars, gatewayVars
<1>. HIDE DEF a, b
<1>3. RequestStream(v, s) /\ v \in Seq(RequestUnits)
  BY <1>1, StreamPrefix, PrefixOfConcat
<1>4. /\ rest \in Seq(RequestUnits) /\ up2 \in Seq(RequestUnits)
      /\ RequestStream(rest \o up2, s)
      /\ WholeStream(a \o b, s) => WholeStream(rest \o up2, s)
      /\ a \o b = << >> => rest \o up2 = << >>
  BY <1>1, StreamRest, ZenonT(30)
<1>. HIDE DEF v, rest, up2
<1>5. /\ up' \in [Sockets -> Seq(RequestUnits)] /\ recv_buffer_' \in [Sockets -> Seq(RequestUnits)]
      /\ up'[s] = up2 /\ recv_buffer_'[s] = rest
      /\ \A t \in Sockets : t # s => up'[t] = up[t] /\ recv_buffer_'[t] = recv_buffer_[t]
  BY <1>2, <1>4, ZenonT(30) DEF UpInv
<1>6. ASSUME NEW t \in Sockets
      PROVE  /\ RequestStream(recv_buffer_'[t] \o up'[t], t)
             /\ t[2] >= run[t[1]] => WholeStream(recv_buffer_'[t] \o up'[t], t)
             /\ t[2] > run[t[1]] => recv_buffer_'[t] \o up'[t] = << >>
  <2>1. CASE t = s
    BY <1>1, <1>4, <1>5, <2>1
  <2>2. CASE t # s
    <3>1. up'[t] = up[t] /\ recv_buffer_'[t] = recv_buffer_[t]
      BY <1>5, <2>2
    <3>. QED
      BY <3>1 DEF UpInv
  <2>. QED
    BY <2>1, <2>2
<1>7. UpInv'
  BY <1>2, <1>5, <1>6 DEF UpInv, Socket
<1>. QED
  BY <1>3, <1>7 DEF v, a, b

----------------------------------------------------------------------------
(* The server.                                                             *)

(* What the read of a socket does to the server: it handles requests of    *)
(* the socket's client and run, and never reads garbage.                   *)
LEMMA ReadSocketServer ==
  ASSUME UpInv, ServerInv, NEW s \in Sockets, ReadSocket(s)
  PROVE  /\ UpInv'
         /\ pc' \in {"read", "aborted"}
         /\ \E rx_time \in RxTimes : \E ms \in Seq(RequestsOf(s)) :
              server' = recvCallbacks(s, rx_time, ms)
<1>1. PICK k \in ReadLengths(up[s]), rx_time \in RxTimes :
        LET buffer   == recv_buffer_[s] \o SubSeq(up[s], 1, k)
            messages == WholeMessages(buffer)
        IN
        /\ up' = [up EXCEPT ![s] = SubSeq(@, k + 1, Len(@))]
        /\ recv_buffer_' = [recv_buffer_ EXCEPT ![s] = Remainder(buffer)]
        /\ IF NULL \in ToSet(messages)
           THEN pc' = "garbled" /\ UNCHANGED server
           ELSE /\ server' = recvCallbacks(s, rx_time, messages)
                /\ pc' = IF Len(server'.pending_client_requests_) > MAX_PENDING_REQUESTS
                         THEN "aborted" ELSE "read"
  BY DEF ReadSocket
<1>. DEFINE buffer   == recv_buffer_[s] \o SubSeq(up[s], 1, k)
            messages == WholeMessages(buffer)
<1>2. RequestStream(buffer, s) /\ UpInv'
  BY <1>1, ReadSocketUp
<1>3. messages \in Seq(RequestsOf(s)) /\ NULL \notin ToSet(messages)
  BY <1>2, StreamMessages
<1>. HIDE DEF messages
<1>4. /\ server' = recvCallbacks(s, rx_time, messages)
      /\ pc' \in {"read", "aborted"}
  BY <1>1, <1>3 DEF messages
<1>. QED
  BY <1>2, <1>3, <1>4

LEMMA ServerUnchanged ==
  ASSUME ServerInv, UNCHANGED <<server, taken, client_requests>>,
         pc' \in {"poll", "read", "respond", "aborted"}, toRead' \in SUBSET Sockets
  PROVE  ServerInv'
BY DEF ServerInv, AllAccepted, Waiting

LEMMA ReadSocketServerInv ==
  ASSUME UpInv, ServerInv, NEW s \in Sockets, ReadSocket(s)
  PROVE  /\ ServerInv'
         /\ \A c \in Clients :
              server.cid_to_socket_[c] # NULL => server'.cid_to_socket_[c] # NULL
<1>1. PICK rx_time \in RxTimes, ms \in Seq(RequestsOf(s)) :
        server' = recvCallbacks(s, rx_time, ms)
  BY ReadSocketServer
<1>2. server' \in ReadServers /\ pc' \in {"read", "aborted"}
  BY <1>1, ReadLoop, ReadSocketServer
<1>3. UNCHANGED <<taken, client_requests>> /\ toRead' = toRead \ {s}
  BY DEF ReadSocket, clientVars, engineVars
<1>4. /\ server' \in Servers /\ AllAccepted(server', taken)
      /\ AllAccepted(server', client_requests) /\ AllAccepted(server', Waiting(server'))
  BY <1>2 DEF ReadServers
<1>5. ServerInv'
  BY <1>2, <1>3, <1>4 DEF ServerInv
<1>. QED
  BY <1>2, <1>5 DEF ReadServers

(* What AllAccepted says of a sequence holds of its parts.                 *)
LEMMA AcceptedParts ==
  ASSUME NEW sv, NEW sv2, sv2.cid_to_socket_ = sv.cid_to_socket_,
         sv2.cid_next_exp_seq_num_ = sv.cid_next_exp_seq_num_,
         NEW ms, AllAccepted(sv, ms), NEW ns,
         \A i \in 1 .. Len(ns) : \E j \in 1 .. Len(ms) : ns[i] = ms[j]
  PROVE  AllAccepted(sv2, ns)
<1>1. ASSUME NEW i \in 1 .. Len(ns)
      PROVE  LET m == ns[i] IN
             /\ sv2.cid_to_socket_[m.client_id_] = <<m.client_id_, m.run>>
             /\ m.seq_num_ < sv2.cid_next_exp_seq_num_[m.client_id_]
  <2>1. PICK j \in 1 .. Len(ms) : ns[i] = ms[j]
    OBVIOUS
  <2>. QED
    BY <2>1 DEF AllAccepted
<1>. QED
  BY <1>1 DEF AllAccepted

LEMMA AcceptedConcat ==
  ASSUME NEW sv, NEW ms \in Seq(ClientRequests), NEW ns \in Seq(ClientRequests),
         AllAccepted(sv, ms), AllAccepted(sv, ns)
  PROVE  AllAccepted(sv, ms \o ns)
<1>. DEFINE w == ms \o ns
<1>1. /\ Len(w) = Len(ms) + Len(ns) /\ Len(ms) \in Nat /\ Len(ns) \in Nat
      /\ \A i \in 1 .. Len(ms) + Len(ns) : w[i] = IF i <= Len(ms) THEN ms[i] ELSE ns[i - Len(ms)]
  BY ConcatParts
<1>. HIDE DEF w
<1>2. ASSUME NEW i \in 1 .. Len(w)
      PROVE  LET m == w[i] IN
             /\ sv.cid_to_socket_[m.client_id_] = <<m.client_id_, m.run>>
             /\ m.seq_num_ < sv.cid_next_exp_seq_num_[m.client_id_]
  <2>1. CASE i <= Len(ms)
    <3>1. i \in 1 .. Len(ms) /\ w[i] = ms[i]
      BY <1>1, <2>1
    <3>. QED
      BY <3>1 DEF AllAccepted
  <2>2. CASE i > Len(ms)
    <3>. DEFINE j == i - Len(ms)
    <3>1. j \in 1 .. Len(ns) /\ w[i] = ns[j]
      BY <1>1, <2>2
    <3>. HIDE DEF j
    <3>. QED
      BY <3>1 DEF AllAccepted
  <2>. QED
    BY <1>1, <2>1, <2>2
<1>. QED
  BY <1>2 DEF AllAccepted, w

(* What the sequencer publishes are the requests that wait, in some order. *)
Published(sv, f) ==
  [i \in 1 .. Len(sv.pending_client_requests_) |-> sv.pending_client_requests_[f[i]].request_]

LEMMA PublishedParts ==
  ASSUME NEW sv \in Servers, NEW f \in Sorted(sv.pending_client_requests_)
  PROVE  /\ Published(sv, f) \in Seq(ClientRequests)
         /\ Len(Published(sv, f)) = Len(Waiting(sv))
         /\ \A i \in 1 .. Len(Waiting(sv)) :
              f[i] \in 1 .. Len(Waiting(sv)) /\ Published(sv, f)[i] = Waiting(sv)[f[i]]
<1>. DEFINE p == sv.pending_client_requests_
            n == Len(p)
            w == Published(sv, f)
<1>1. /\ n \in Nat /\ Len(Waiting(sv)) = n
      /\ \A i \in 1 .. n : Waiting(sv)[i] = p[i].request_ /\ Waiting(sv)[i] \in ClientRequests
  BY WaitingParts
<1>2. f \in [1 .. n -> 1 .. n]
  BY DEF Sorted
<1>3. w = [i \in 1 .. n |-> p[f[i]].request_]
  BY DEF Published
<1>. HIDE DEF w, n, p
<1>4. \A i \in 1 .. n : f[i] \in 1 .. n /\ w[i] = Waiting(sv)[f[i]] /\ w[i] \in ClientRequests
  BY <1>1, <1>2, <1>3
<1>5. w \in [1 .. n -> ClientRequests]
  BY <1>3, <1>4
<1>6. w \in Seq(ClientRequests) /\ Len(w) = n
  BY <1>1, <1>5
<1>. QED
  BY <1>1, <1>4, <1>6 DEF w

LEMMA SequenceStep ==
  ASSUME ServerInv, SequenceAndPublish
  PROVE  /\ \E f \in Sorted(server.pending_client_requests_) :
              client_requests' = client_requests \o Published(server, f)
         /\ server'.cid_to_socket_ = server.cid_to_socket_
         /\ server'.cid_next_exp_seq_num_ = server.cid_next_exp_seq_num_
         /\ server'.pending_client_requests_ = << >>
         /\ server' \in Servers /\ Waiting(server') = << >>
         /\ pc' = "respond" /\ UNCHANGED <<taken, toRead>> /\ toRead = {} /\ pc = "read"
<1>1. PICK f \in Sorted(server.pending_client_requests_) :
        client_requests' = client_requests \o Published(server, f)
  BY DEF SequenceAndPublish, Published
<1>2. server' = [server EXCEPT !.pending_client_requests_ = << >>] /\ server \in Servers
  BY DEF SequenceAndPublish, ServerInv
<1>3. /\ server'.cid_to_socket_ = server.cid_to_socket_
      /\ server'.cid_next_exp_seq_num_ = server.cid_next_exp_seq_num_
      /\ server'.pending_client_requests_ = << >>
      /\ server' \in Servers
  <2>1. << >> \in Seq([recv_time_ : RxTimes, request_ : ClientRequests])
    OBVIOUS
  <2>. DEFINE S == Seq([recv_time_ : RxTimes, request_ : ClientRequests])
  <2>. HIDE DEF S
  <2>. QED
    BY <1>2, <2>1 DEF Servers, S
<1>4. Waiting(server') = << >>
  BY <1>3 DEF Waiting
<1>5. pc' = "respond" /\ UNCHANGED <<taken, toRead>> /\ toRead = {} /\ pc = "read"
  BY DEF SequenceAndPublish, clientVars, engineVars
<1>. QED
  BY <1>1, <1>3, <1>4, <1>5

LEMMA SequenceServerInv ==
  ASSUME ServerInv, SequenceAndPublish
  PROVE  ServerInv'
<1>1. PICK f \in Sorted(server.pending_client_requests_) :
        client_requests' = client_requests \o Published(server, f)
  BY SequenceStep
<1>. DEFINE ns == Published(server, f)
<1>2. /\ server \in Servers /\ client_requests \in Seq(ClientRequests)
      /\ AllAccepted(server, taken) /\ AllAccepted(server, client_requests)
      /\ AllAccepted(server, Waiting(server))
  BY DEF ServerInv
<1>3. /\ ns \in Seq(ClientRequests)
      /\ \A i \in 1 .. Len(ns) : \E j \in 1 .. Len(Waiting(server)) : ns[i] = Waiting(server)[j]
  BY <1>2, PublishedParts
<1>. HIDE DEF ns
<1>4. AllAccepted(server, ns)
  BY <1>2, <1>3, AcceptedParts
<1>5. client_requests' \in Seq(ClientRequests) /\ AllAccepted(server, client_requests')
  BY <1>1, <1>2, <1>3, <1>4, AcceptedConcat DEF ns
<1>6. AllAccepted(server', client_requests') /\ AllAccepted(server', taken')
  BY <1>2, <1>5, SequenceStep DEF AllAccepted
<1>7. AllAccepted(server', Waiting(server'))
  <2>1. Len(<< >>) = 0
    OBVIOUS
  <2>. QED
    BY <2>1, SequenceStep DEF AllAccepted
<1>. QED
  BY <1>5, <1>6, <1>7, SequenceStep DEF ServerInv

(* The matching engine takes the first of its requests.                    *)
LEMMA EngineTakes ==
  ASSUME ServerInv, MatchingEngine
  PROVE  /\ taken' = Append(taken, client_requests[1]) /\ client_requests' = Tail(client_requests)
         /\ client_requests[1] \in ClientRequests /\ Len(client_requests) \in Nat \ {0}
         /\ taken' \in Seq(ClientRequests) /\ client_requests' \in Seq(ClientRequests)
         /\ Len(taken') = Len(taken) + 1 /\ Len(taken) \in Nat
         /\ \A i \in 1 .. Len(taken) : taken'[i] = taken[i]
         /\ taken'[Len(taken) + 1] = client_requests[1]
         /\ Len(client_requests') = Len(client_requests) - 1
         /\ \A i \in 1 .. Len(client_requests') :
              i + 1 \in 1 .. Len(client_requests) /\ client_requests'[i] = client_requests[i + 1]
         /\ UNCHANGED <<server, pc, toRead>>
<1>1. /\ taken' = Append(taken, Head(client_requests)) /\ client_requests' = Tail(client_requests)
      /\ client_requests # << >> /\ UNCHANGED <<server, pc, toRead>>
      /\ taken \in Seq(ClientRequests) /\ client_requests \in Seq(ClientRequests)
  BY DEF MatchingEngine, ServerInv
<1>2. Head(client_requests) = client_requests[1] /\ client_requests[1] \in ClientRequests
      /\ Len(client_requests) \in Nat \ {0}
  BY <1>1
<1>. QED
  BY <1>1, <1>2

LEMMA EngineServerInv ==
  ASSUME ServerInv, MatchingEngine
  PROVE  ServerInv'
<1>1. /\ AllAccepted(server, taken) /\ AllAccepted(server, client_requests)
      /\ AllAccepted(server, Waiting(server))
  BY DEF ServerInv
<1>2. AllAccepted(server, client_requests')
  <2>1. \A i \in 1 .. Len(client_requests') :
          \E j \in 1 .. Len(client_requests) : client_requests'[i] = client_requests[j]
    BY EngineTakes
  <2>. QED
    BY <1>1, <2>1, AcceptedParts
<1>3. AllAccepted(server, taken')
  <2>1. ASSUME NEW i \in 1 .. Len(taken')
        PROVE  LET m == taken'[i] IN
               /\ server.cid_to_socket_[m.client_id_] = <<m.client_id_, m.run>>
               /\ m.seq_num_ < server.cid_next_exp_seq_num_[m.client_id_]
    <3>1. CASE i \in 1 .. Len(taken)
      BY <1>1, <3>1, EngineTakes DEF AllAccepted
    <3>2. CASE i = Len(taken) + 1
      <4>1. 1 \in 1 .. Len(client_requests) /\ taken'[i] = client_requests[1]
        BY <3>2, EngineTakes
      <4>. QED
        BY <1>1, <4>1 DEF AllAccepted
    <3>. QED
      BY <3>1, <3>2, EngineTakes
  <2>. QED
    BY <2>1 DEF AllAccepted
<1>. QED
  BY <1>1, <1>2, <1>3, EngineTakes DEF ServerInv, Waiting

----------------------------------------------------------------------------
(* The answers.                                                            *)

(* AnswersInv of the clients' sockets, what the engine has produced, the   *)
(* numbers the server gives next and the responses that wait for it.       *)
AnswersOf(sock, prod, next, resp) ==
  /\ prod \in [Clients -> Nat] /\ next \in [Clients -> Nat \ {0}]
  /\ resp \in Seq([client_id_ : Clients, id : Nat])
  /\ \A c \in Clients : next[c] <= prod[c] + 1
  /\ \A i \in 1 .. Len(resp) :
       /\ sock[resp[i].client_id_] # NULL
       /\ resp[i].id \in next[resp[i].client_id_] .. prod[resp[i].client_id_]
       /\ \A j \in 1 .. i - 1 :
            resp[j].client_id_ = resp[i].client_id_ => resp[j].id < resp[i].id
  /\ \A c \in Clients : \A n \in next[c] .. prod[c] :
       \E i \in 1 .. Len(resp) : resp[i].client_id_ = c /\ resp[i].id = n

LEMMA AnswersInvOf ==
  /\ AnswersInv <=> AnswersOf(server.cid_to_socket_, produced, cid_next_outgoing_seq_num_,
                              client_responses)
  /\ AnswersInv' <=> AnswersOf(server'.cid_to_socket_, produced', cid_next_outgoing_seq_num_',
                               client_responses')
BY DEF AnswersInv, AnswersOf, SameClient

(* The server forgets no client's socket.                                  *)
LEMMA AnswersUnchanged ==
  ASSUME AnswersInv, UNCHANGED <<produced, cid_next_outgoing_seq_num_, client_responses>>,
         \A c \in Clients : server.cid_to_socket_[c] # NULL => server'.cid_to_socket_[c] # NULL
  PROVE  AnswersInv'
<1>1. \A i \in 1 .. Len(client_responses) : client_responses[i].client_id_ \in Clients
  <2>1. \A i \in 1 .. Len(client_responses) :
          client_responses[i] \in [client_id_ : Clients, id : Nat]
    BY ElementOfSeq DEF AnswersInv
  <2>. QED
    BY <2>1
<1>. DEFINE sock  == server.cid_to_socket_
            sock2 == server'.cid_to_socket_
<1>2. AnswersOf(sock, produced, cid_next_outgoing_seq_num_, client_responses)
  BY AnswersInvOf
<1>3. \A c \in Clients : sock[c] # NULL => sock2[c] # NULL
  OBVIOUS
<1>. HIDE DEF sock, sock2
<1>4. AnswersOf(sock2, produced, cid_next_outgoing_seq_num_, client_responses)
  BY <1>1, <1>2, <1>3 DEF AnswersOf
<1>. QED
  BY <1>4, AnswersInvOf DEF sock2

(* The engine produces one more response.                                  *)
LEMMA OneMoreAnswer ==
  ASSUME NEW sock, NEW prod, NEW next, NEW resp, AnswersOf(sock, prod, next, resp),
         NEW c \in Clients, sock[c] # NULL
  PROVE  AnswersOf(sock, [prod EXCEPT ![c] = @ + 1], next,
                   resp \o <<[client_id_ |-> c, id |-> prod[c] + 1]>>)
<1>. DEFINE e == [client_id_ |-> c, id |-> prod[c] + 1]
            prod2 == [prod EXCEPT ![c] = @ + 1]
            resp2 == resp \o <<e>>
            n == Len(resp)
            A == [client_id_ : Clients, id : Nat]
<1>1. /\ prod \in [Clients -> Nat] /\ next \in [Clients -> Nat \ {0}] /\ resp \in Seq(A)
      /\ n \in Nat /\ \A d \in Clients : next[d] <= prod[d] + 1
  BY DEF AnswersOf
<1>2. /\ prod2 \in [Clients -> Nat] /\ prod2[c] = prod[c] + 1 /\ prod[c] \in Nat
      /\ \A d \in Clients : d # c => prod2[d] = prod[d]
  BY <1>1
<1>3. e \in A /\ e.client_id_ = c /\ e.id = prod[c] + 1
  BY <1>2
<1>. HIDE DEF e, prod2, A
<1>4. /\ resp2 \in Seq(A) /\ Len(resp2) = n + 1 /\ resp2[n + 1] = e
      /\ \A i \in 1 .. n : resp2[i] = resp[i]
  BY <1>1, <1>3
<1>5. \A i \in 1 .. n : resp[i].client_id_ \in Clients /\ resp[i].id \in Nat
  <2>1. \A i \in 1 .. n : resp[i] \in A
    BY <1>1, ElementOfSeq
  <2>. QED
    BY <2>1 DEF A
<1>6. \A i \in 1 .. n :
        /\ sock[resp[i].client_id_] # NULL
        /\ resp[i].id >= next[resp[i].client_id_] /\ resp[i].id <= prod[resp[i].client_id_]
        /\ \A j \in 1 .. i - 1 :
             resp[j].client_id_ = resp[i].client_id_ => resp[j].id < resp[i].id
  BY DEF AnswersOf
<1>. HIDE DEF n, resp2
<1>7. \A d \in Clients : next[d] <= prod2[d] + 1
  <2>. SUFFICES ASSUME NEW d \in Clients PROVE next[d] <= prod2[d] + 1
    OBVIOUS
  <2>1. next[d] \in Nat /\ prod[d] \in Nat /\ next[d] <= prod[d] + 1
    BY <1>1
  <2>2. prod2[d] = prod[d] \/ prod2[d] = prod[d] + 1
    BY <1>2
  <2>. QED
    BY <2>1, <2>2
<1>8. ASSUME NEW i \in 1 .. Len(resp2)
      PROVE  /\ sock[resp2[i].client_id_] # NULL
             /\ resp2[i].id \in next[resp2[i].client_id_] .. prod2[resp2[i].client_id_]
             /\ \A j \in 1 .. i - 1 :
                  resp2[j].client_id_ = resp2[i].client_id_ => resp2[j].id < resp2[i].id
  <2>1. CASE i \in 1 .. n
    <3>. DEFINE d == resp[i].client_id_
    <3>1. d \in Clients /\ next[d] \in Nat /\ prod[d] \in Nat /\ resp[i].id \in Nat
      BY <1>1, <1>5, <2>1
    <3>2. resp2[i] = resp[i] /\ \A j \in 1 .. i - 1 : resp2[j] = resp[j]
      BY <1>1, <1>4, <2>1
    <3>3. /\ sock[d] # NULL /\ resp[i].id >= next[d] /\ resp[i].id <= prod[d]
          /\ \A j \in 1 .. i - 1 : resp[j].client_id_ = d => resp[j].id < resp[i].id
      BY <1>6, <2>1
    <3>. HIDE DEF d
    <3>4. resp[i].id \in next[d] .. prod2[d]
      BY <1>2, <3>1, <3>3
    <3>. QED
      BY <3>2, <3>3, <3>4 DEF d
  <2>2. CASE i = n + 1
    <3>1. resp2[i] = e /\ \A j \in 1 .. i - 1 : j \in 1 .. n /\ resp2[j] = resp[j]
      BY <1>1, <1>4, <2>2
    <3>2. e.id \in next[c] .. prod2[c]
      BY <1>1, <1>2, <1>3
    <3>3. ASSUME NEW j \in 1 .. i - 1, resp2[j].client_id_ = c
          PROVE  resp2[j].id < e.id
      BY <1>2, <1>3, <1>5, <1>6, <3>1, <3>3
    <3>. QED
      BY <1>3, <3>1, <3>2, <3>3
  <2>. QED
    BY <1>1, <1>4, <2>1, <2>2
<1>9. ASSUME NEW d \in Clients, NEW k \in next[d] .. prod2[d]
      PROVE  \E i \in 1 .. Len(resp2) : resp2[i].client_id_ = d /\ resp2[i].id = k
  <2>1. CASE k \in next[d] .. prod[d]
    <3>1. PICK i \in 1 .. n : resp[i].client_id_ = d /\ resp[i].id = k
      BY <2>1 DEF AnswersOf, n
    <3>. QED
      BY <1>1, <1>4, <3>1
  <2>2. CASE k \notin next[d] .. prod[d]
    <3>1. d = c /\ k = prod[c] + 1
      <4>1. next[d] \in Nat /\ prod[d] \in Nat
        BY <1>1
      <4>. QED
        BY <1>2, <1>9, <2>2, <4>1
    <3>2. n + 1 \in 1 .. Len(resp2)
      BY <1>1, <1>4
    <3>. QED
      BY <1>3, <1>4, <3>1, <3>2
  <2>. QED
    BY <2>1, <2>2
<1>10. AnswersOf(sock, prod2, next, resp2)
  BY <1>1, <1>2, <1>4, <1>7, <1>8, <1>9 DEF AnswersOf, A
<1>. QED
  BY <1>10 DEF prod2, resp2, e

(* The first response that waits has its client's next number, and the     *)
(* server knows its client's socket.                                       *)
LEMMA FirstAnswer ==
  ASSUME NEW sock, NEW prod, NEW next, NEW resp, AnswersOf(sock, prod, next, resp),
         resp # << >>
  PROVE  LET r == Head(resp)
             c == r.client_id_
         IN /\ c \in Clients /\ sock[c] # NULL /\ r.id = next[c]
            /\ AnswersOf(sock, prod, [next EXCEPT ![c] = @ + 1], Tail(resp))
<1>. DEFINE r == Head(resp)
            c == r.client_id_
            next2 == [next EXCEPT ![c] = @ + 1]
            resp2 == Tail(resp)
            n == Len(resp)
            A == [client_id_ : Clients, id : Nat]
<1>1. /\ prod \in [Clients -> Nat] /\ next \in [Clients -> Nat \ {0}] /\ resp \in Seq(A)
      /\ n \in Nat \ {0} /\ \A d \in Clients : next[d] <= prod[d] + 1
  BY DEF AnswersOf
<1>2. \A i \in 1 .. n : resp[i].client_id_ \in Clients /\ resp[i].id \in Nat
  <2>1. \A i \in 1 .. n : resp[i] \in A
    BY <1>1, ElementOfSeq
  <2>. QED
    BY <2>1
<1>. HIDE DEF A
<1>3. r = resp[1] /\ 1 \in 1 .. n
  BY <1>1
<1>4. /\ resp2 \in Seq(A) /\ Len(resp2) = n - 1
      /\ \A i \in 1 .. n - 1 : resp2[i] = resp[i + 1] /\ i + 1 \in 1 .. n
  BY <1>1
<1>5. \A i \in 1 .. n :
        /\ sock[resp[i].client_id_] # NULL
        /\ resp[i].id >= next[resp[i].client_id_] /\ resp[i].id <= prod[resp[i].client_id_]
        /\ \A j \in 1 .. i - 1 :
             resp[j].client_id_ = resp[i].client_id_ => resp[j].id < resp[i].id
  BY DEF AnswersOf
<1>6. \A d \in Clients : \A k \in next[d] .. prod[d] :
        \E i \in 1 .. n : resp[i].client_id_ = d /\ resp[i].id = k
  BY DEF AnswersOf
<1>7. c \in Clients /\ sock[c] # NULL /\ r.id \in Nat /\ next[c] \in Nat /\ prod[c] \in Nat
  BY <1>1, <1>2, <1>3, <1>5
<1>. HIDE DEF r, resp2, n, c
<1>8. r.id = next[c]
  <2>1. next[c] <= r.id /\ r.id <= prod[c]
    BY <1>3, <1>5 DEF c
  <2>2. PICK i \in 1 .. n : resp[i].client_id_ = c /\ resp[i].id = next[c]
    <3>1. next[c] \in next[c] .. prod[c]
      BY <1>7, <2>1
    <3>. QED
      BY <1>6, <1>7, <3>1
  <2>3. CASE i = 1
    BY <1>3, <2>2, <2>3
  <2>4. CASE i # 1
    <3>1. 1 \in 1 .. i - 1
      BY <1>1, <2>4
    <3>2. resp[1].id < resp[i].id
      BY <1>3, <1>5, <2>2, <3>1 DEF c
    <3>. QED
      BY <1>3, <1>7, <2>1, <2>2, <3>2
  <2>. QED
    BY <2>3, <2>4
<1>9. /\ next2 \in [Clients -> Nat \ {0}] /\ next2[c] = next[c] + 1
      /\ \A d \in Clients : d # c => next2[d] = next[d]
  BY <1>1, <1>7
<1>. HIDE DEF next2
<1>10. \A d \in Clients : next2[d] <= prod[d] + 1
  <2>1. next[c] <= prod[c]
    BY <1>3, <1>5, <1>8 DEF c
  <2>. SUFFICES ASSUME NEW d \in Clients PROVE next2[d] <= prod[d] + 1
    OBVIOUS
  <2>2. next[d] \in Nat /\ prod[d] \in Nat /\ next[d] <= prod[d] + 1
    BY <1>1
  <2>3. CASE d = c
    BY <1>7, <1>9, <2>1, <2>3
  <2>4. CASE d # c
    BY <1>9, <2>2, <2>4
  <2>. QED
    BY <2>3, <2>4
<1>11. ASSUME NEW i \in 1 .. n - 1
       PROVE  /\ sock[resp2[i].client_id_] # NULL
              /\ resp2[i].id \in next2[resp2[i].client_id_] .. prod[resp2[i].client_id_]
              /\ \A j \in 1 .. i - 1 :
                   resp2[j].client_id_ = resp2[i].client_id_ => resp2[j].id < resp2[i].id
  <2>. DEFINE d == resp[i + 1].client_id_
              x == resp[i + 1].id
  <2>1. /\ i + 1 \in 1 .. n /\ resp2[i] = resp[i + 1] /\ 1 \in 1 .. (i + 1) - 1
        /\ \A j \in 1 .. i - 1 : resp2[j] = resp[j + 1] /\ j + 1 \in 1 .. (i + 1) - 1
    BY <1>1, <1>4
  <2>2. /\ sock[d] # NULL /\ x >= next[d] /\ x <= prod[d] /\ d \in Clients /\ x \in Nat
        /\ \A j \in 1 .. (i + 1) - 1 : resp[j].client_id_ = d => resp[j].id < x
    BY <1>2, <1>5, <2>1
  <2>3. next[d] \in Nat /\ prod[d] \in Nat
    BY <1>1, <2>2
  <2>. HIDE DEF d, x
  <2>4. x \in next2[d] .. prod[d]
    <3>1. CASE d = c
      <4>1. r.id < x
        BY <1>3, <2>1, <2>2, <3>1 DEF c
      <4>. QED
        BY <1>7, <1>8, <1>9, <2>2, <3>1, <4>1
    <3>2. CASE d # c
      BY <1>9, <2>2, <2>3, <3>2
    <3>. QED
      BY <3>1, <3>2
  <2>. QED
    BY <2>1, <2>2, <2>4 DEF d, x
<1>12. ASSUME NEW d \in Clients, NEW k \in next2[d] .. prod[d]
       PROVE  \E i \in 1 .. n - 1 : resp2[i].client_id_ = d /\ resp2[i].id = k
  <2>1. next[d] \in Nat /\ prod[d] \in Nat
    BY <1>1
  <2>2. k \in next[d] .. prod[d]
    BY <1>7, <1>9, <2>1
  <2>3. PICK i \in 1 .. n : resp[i].client_id_ = d /\ resp[i].id = k
    BY <1>6, <2>2
  <2>4. i # 1
    <3>1. d = c => k > next[c]
      BY <1>7, <1>9
    <3>. QED
      BY <1>3, <1>7, <1>8, <2>3, <3>1 DEF c
  <2>5. i - 1 \in 1 .. n - 1 /\ resp2[i - 1] = resp[i]
    <3>1. i - 1 \in 1 .. n - 1 /\ (i - 1) + 1 = i
      BY <1>1, <2>4
    <3>. QED
      BY <1>4, <3>1
  <2>. QED
    BY <2>3, <2>5
<1>13. AnswersOf(sock, prod, next2, resp2)
  <2>1. \A i \in 1 .. Len(resp2) :
          /\ sock[resp2[i].client_id_] # NULL
          /\ resp2[i].id \in next2[resp2[i].client_id_] .. prod[resp2[i].client_id_]
          /\ \A j \in 1 .. i - 1 :
               resp2[j].client_id_ = resp2[i].client_id_ => resp2[j].id < resp2[i].id
    BY <1>4, <1>11
  <2>2. \A d \in Clients : \A k \in next2[d] .. prod[d] :
          \E i \in 1 .. Len(resp2) : resp2[i].client_id_ = d /\ resp2[i].id = k
    BY <1>4, <1>12
  <2>3. resp2 \in Seq([client_id_ : Clients, id : Nat])
    BY <1>4 DEF A
  <2>. QED
    BY <1>1, <1>9, <1>10, <2>1, <2>2, <2>3 DEF AnswersOf
<1>. QED
  BY <1>7, <1>8, <1>13 DEF next2, resp2, r, c

(* A client whose request the server has accepted has a socket.            *)
LEMMA AcceptedHasSocket ==
  ASSUME NEW sv, NEW ms \in Seq(ClientRequests), AllAccepted(sv, ms), NEW i \in 1 .. Len(ms)
  PROVE  ms[i].client_id_ \in Clients /\ sv.cid_to_socket_[ms[i].client_id_] # NULL
<1>1. ms[i] \in ClientRequests
  BY ElementOfSeq
<1>2. ms[i].client_id_ \in Clients /\ <<ms[i].client_id_, ms[i].run>> \in Sockets
  BY <1>1 DEF ClientRequests, Sockets
<1>3. sv.cid_to_socket_[ms[i].client_id_] = <<ms[i].client_id_, ms[i].run>>
  BY DEF AllAccepted
<1>4. NULL \notin Sockets
  BY NullEntry
<1>. QED
  BY <1>2, <1>3, <1>4

(* The engine answers the client of the request, and maybe another.        *)
LEMMA EngineAnswers ==
  ASSUME ServerInv, AnswersInv, MatchingEngine
  PROVE  AnswersInv'
<1>. DEFINE c    == Head(client_requests).client_id_
            sock == server.cid_to_socket_
            one  == client_responses \o Responses(c, 1)
            prod == [produced EXCEPT ![c] = @ + 1]
            next == cid_next_outgoing_seq_num_
<1>1. \/ client_responses' = one /\ produced' = prod
      \/ \E d \in {taken[i].client_id_ : i \in 1 .. Len(taken)} \ {c} :
           /\ client_responses' = one \o Responses(d, 1)
           /\ produced' = [produced EXCEPT ![c] = @ + 1, ![d] = @ + 1]
  BY DEF MatchingEngine
<1>2. UNCHANGED <<server, cid_next_outgoing_seq_num_>>
  BY DEF MatchingEngine
<1>3. c \in Clients /\ sock[c] # NULL
  <2>1. 1 \in 1 .. Len(client_requests) /\ c = client_requests[1].client_id_
    BY EngineTakes DEF MatchingEngine
  <2>2. client_requests \in Seq(ClientRequests) /\ AllAccepted(server, client_requests)
    BY DEF ServerInv
  <2>. HIDE DEF c
  <2>. QED
    BY <2>1, <2>2, AcceptedHasSocket
<1>4. AnswersOf(sock, produced, next, client_responses)
  BY AnswersInvOf
<1>5. \A x : Responses(x, 1) = <<[client_id_ |-> x, id |-> produced[x] + 1]>>
  BY DEF Responses
<1>. HIDE DEF c, sock
<1>6. AnswersOf(sock, prod, next, one)
  BY <1>3, <1>4, <1>5, OneMoreAnswer
<1>7. CASE client_responses' = one /\ produced' = prod
  <2>. HIDE DEF one, prod
  <2>. QED
    BY <1>2, <1>6, <1>7, AnswersInvOf DEF sock
<1>8. CASE \E d \in {taken[i].client_id_ : i \in 1 .. Len(taken)} \ {c} :
             /\ client_responses' = one \o Responses(d, 1)
             /\ produced' = [produced EXCEPT ![c] = @ + 1, ![d] = @ + 1]
  <2>1. PICK d \in {taken[i].client_id_ : i \in 1 .. Len(taken)} \ {c} :
          /\ client_responses' = one \o Responses(d, 1)
          /\ produced' = [produced EXCEPT ![c] = @ + 1, ![d] = @ + 1]
    BY <1>8
  <2>2. d \in Clients /\ sock[d] # NULL /\ d # c
    <3>1. taken \in Seq(ClientRequests) /\ AllAccepted(server, taken)
      BY DEF ServerInv
    <3>. QED
      BY <2>1, <3>1, AcceptedHasSocket DEF sock
  <2>3. /\ produced' = [prod EXCEPT ![d] = @ + 1]
        /\ Responses(d, 1) = <<[client_id_ |-> d, id |-> prod[d] + 1]>>
    <3>1. produced \in [Clients -> Nat]
      BY <1>4 DEF AnswersOf
    <3>2. produced' = [prod EXCEPT ![d] = @ + 1]
      BY <2>1
    <3>3. prod[d] = produced[d]
      BY <2>2, <3>1
    <3>. QED
      BY <1>5, <3>2, <3>3
  <2>. HIDE DEF one, prod, next
  <2>5. AnswersOf(sock, [prod EXCEPT ![d] = @ + 1], next,
                  one \o <<[client_id_ |-> d, id |-> prod[d] + 1]>>)
    BY <1>6, <2>2, OneMoreAnswer
  <2>4. AnswersOf(sock, produced', next, client_responses')
    BY <2>1, <2>3, <2>5
  <2>. QED
    BY <1>2, <2>4, AnswersInvOf DEF sock, next
<1>. QED
  BY <1>1, <1>7, <1>8

(* What a send of the server's does: the first response goes, with its own *)
(* number, into the send buffer of its client's socket.                    *)
LEMMA SendResponseStep ==
  ASSUME ServerInv, AnswersInv, SendResponse
  PROVE  /\ AnswersInv' /\ pc' = "respond"
         /\ UNCHANGED <<server, taken, client_requests, toRead>>
         /\ \E s \in Sockets :
            \E m \in {x \in [client_id_ : Clients, id : Nat, seq_num_ : Nat] : x.id = x.seq_num_} :
              send_buffer_' = [send_buffer_ EXCEPT ![s] = @ \o Units(m)]
<1>. DEFINE r == Head(client_responses)
            c == r.client_id_
            s == server.cid_to_socket_[c]
            m == [client_id_ |-> c, id |-> r.id, seq_num_ |-> cid_next_outgoing_seq_num_[c]]
<1>1. /\ pc = "respond" /\ client_responses # << >>
      /\ IF s = NULL
         THEN /\ pc' = "no socket"
              /\ UNCHANGED <<send_buffer_, cid_next_outgoing_seq_num_, client_responses>>
         ELSE /\ send_buffer_' = [send_buffer_ EXCEPT ![s] = @ \o Units(m)]
              /\ cid_next_outgoing_seq_num_' = [cid_next_outgoing_seq_num_ EXCEPT ![c] = @ + 1]
              /\ client_responses' = Tail(client_responses)
              /\ UNCHANGED pc
      /\ UNCHANGED <<server, taken, client_requests, toRead, produced>>
  BY DEF SendResponse, clientVars, engineVars
<1>2. AnswersOf(server.cid_to_socket_, produced, cid_next_outgoing_seq_num_, client_responses)
  BY AnswersInvOf
<1>. DEFINE next2 == [cid_next_outgoing_seq_num_ EXCEPT ![c] = @ + 1]
<1>3. /\ c \in Clients /\ s # NULL /\ r.id = cid_next_outgoing_seq_num_[c]
      /\ AnswersOf(server.cid_to_socket_, produced, next2, Tail(client_responses))
  BY <1>1, <1>2, FirstAnswer
<1>4. r.id \in Nat /\ s \in Sockets
  <2>1. cid_next_outgoing_seq_num_ \in [Clients -> Nat \ {0}]
    BY DEF AnswersInv
  <2>2. server.cid_to_socket_ \in [Clients -> Sockets \cup {NULL}]
    BY DEF ServerInv, Servers
  <2>. HIDE DEF c, r
  <2>. QED
    BY <1>3, <2>1, <2>2
<1>. HIDE DEF r, c, s
<1>5. m \in {x \in [client_id_ : Clients, id : Nat, seq_num_ : Nat] : x.id = x.seq_num_}
  BY <1>3, <1>4
<1>. HIDE DEF m, next2
<1>6. AnswersInv'
  BY <1>1, <1>3, AnswersInvOf DEF next2
<1>. QED
  BY <1>1, <1>3, <1>4, <1>5, <1>6

----------------------------------------------------------------------------
(* The way down.                                                           *)

LEMMA DownUnchanged ==
  ASSUME DownInv, UNCHANGED <<send_buffer_, down, og_recv_buffer_, next_incoming_seq_num_, got>>
  PROVE  DownInv'
BY DEF DownInv, ResponsesInOrder

(* What the gateway has got of its client is in order.                     *)
LEMMA GatewayDown ==
  ASSUME UpInv, DownInv, NEW c \in Clients, GatewaySendAndRecv(c)
  PROVE  DownInv'
<1>. DEFINE s == Socket(c)
            g0 == [next |-> next_incoming_seq_num_[c], got |-> got[c]]
<1>1. PICK k \in ReadLengths(down[s]) :
        LET buffer == og_recv_buffer_[c] \o SubSeq(down[s], 1, k)
            g      == FoldLeft(recvResponse, g0, WholeMessages(buffer))
        IN
        /\ og_recv_buffer_' = [og_recv_buffer_ EXCEPT
                                 ![c] = IF k = 0 THEN @ ELSE GatewayRemainder(buffer)]
        /\ next_incoming_seq_num_' = [next_incoming_seq_num_ EXCEPT ![c] = g.next]
        /\ got' = [got EXCEPT ![c] = g.got]
        /\ down' = [down EXCEPT ![s] = SubSeq(@, k + 1, Len(@))]
  BY DEF GatewaySendAndRecv
<1>2. UNCHANGED send_buffer_
  BY DEF GatewaySendAndRecv, socketVars
<1>. DEFINE a == og_recv_buffer_[c]
            b == down[s]
            buffer == a \o SubSeq(b, 1, k)
            g      == FoldLeft(recvResponse, g0, WholeMessages(buffer))
<1>3. /\ s \in Sockets /\ a \in Seq(ResponseUnits) /\ b \in Seq(ResponseUnits)
      /\ k \in 0 .. Len(b)
  BY DEF DownInv, Socket, Sockets, UpInv, ReadLengths
<1>4. g0 \in GatewayStates
  BY DEF DownInv, ResponsesInOrder, GatewayStates
<1>. HIDE DEF s, g0, a, b
<1>5. buffer \in Seq(ResponseUnits)
  BY <1>3, PrefixOfConcat
<1>. HIDE DEF buffer
<1>6. g \in GatewayStates
  BY <1>4, <1>5, GatewayLoop
<1>. HIDE DEF g
<1>7. g.next \in Nat /\ g.got \in Seq(Nat) /\ g.next = Len(g.got) + 1
      /\ \A i \in 1 .. Len(g.got) : g.got[i] = i
  BY <1>6 DEF GatewayStates
<1>8. GatewayRemainder(buffer) \in Seq(ResponseUnits)
  <2>1. Len(buffer) \in Nat
    BY <1>5
  <2>2. ~(Len(buffer) < 2) => 2 \in 1 .. Len(buffer) /\ 1 + (Len(buffer) % 2) \in 1 .. Len(buffer)
    <3>1. \A l \in Nat : ~(l < 2) => 2 \in 1 .. l /\ 1 + (l % 2) \in 1 .. l
      OBVIOUS
    <3>. QED
      BY <2>1, <3>1
  <2>3. ~(Len(buffer) < 2) => SubSeq(buffer, 2, 1 + (Len(buffer) % 2)) \in Seq(ResponseUnits)
    BY <1>5, <2>1, <2>2
  <2>. QED
    BY <1>5, <2>3 DEF GatewayRemainder
<1>9. /\ og_recv_buffer_' \in [Clients -> Seq(ResponseUnits)]
      /\ down' \in [Sockets -> Seq(ResponseUnits)]
  <2>1. SubSeq(b, k + 1, Len(b)) \in Seq(ResponseUnits)
    BY <1>3
  <2>2. /\ down' = [down EXCEPT ![s] = SubSeq(b, k + 1, Len(b))]
        /\ og_recv_buffer_' = [og_recv_buffer_ EXCEPT
                                 ![c] = IF k = 0 THEN a ELSE GatewayRemainder(buffer)]
    BY <1>1 DEF a, b, buffer
  <2>. QED
    BY <1>3, <1>8, <2>1, <2>2 DEF DownInv
<1>10. /\ next_incoming_seq_num_' = [next_incoming_seq_num_ EXCEPT ![c] = g.next]
       /\ got' = [got EXCEPT ![c] = g.got]
  BY <1>1 DEF g, g0, a, b, buffer
<1>11. /\ next_incoming_seq_num_' \in [Clients -> Nat] /\ got' \in [Clients -> Seq(Nat)]
       /\ \A d \in Clients : next_incoming_seq_num_'[d] = Len(got'[d]) + 1
       /\ \A d \in Clients : \A i \in 1 .. Len(got'[d]) : got'[d][i] = i
  <2>1. /\ next_incoming_seq_num_' \in [Clients -> Nat] /\ got' \in [Clients -> Seq(Nat)]
        /\ next_incoming_seq_num_'[c] = g.next /\ got'[c] = g.got
        /\ \A d \in Clients : d # c =>
             next_incoming_seq_num_'[d] = next_incoming_seq_num_[d] /\ got'[d] = got[d]
    BY <1>7, <1>10 DEF DownInv
  <2>. QED
    BY <1>7, <2>1 DEF DownInv, ResponsesInOrder
<1>. QED
  BY <1>2, <1>9, <1>11 DEF DownInv, ResponsesInOrder

(* The new process of a client has got nothing yet.                        *)
LEMMA RestartDown ==
  ASSUME DownInv, NEW c \in Clients, Restart(c)
  PROVE  DownInv'
<1>1. /\ next_incoming_seq_num_' = [next_incoming_seq_num_ EXCEPT ![c] = 1]
      /\ og_recv_buffer_' = [og_recv_buffer_ EXCEPT ![c] = << >>]
      /\ got' = [got EXCEPT ![c] = << >>]
      /\ down' = [down EXCEPT ![Socket(c)] = << >>]
      /\ UNCHANGED send_buffer_
  BY DEF Restart, socketVars
<1>2. << >> \in Seq(ResponseUnits) /\ << >> \in Seq(Nat) /\ Len(<< >>) = 0 /\ 1 .. 0 = {}
  OBVIOUS
<1>3. /\ og_recv_buffer_' \in [Clients -> Seq(ResponseUnits)]
      /\ down' \in [Sockets -> Seq(ResponseUnits)]
  BY <1>1, <1>2 DEF DownInv
<1>4. /\ next_incoming_seq_num_' \in [Clients -> Nat] /\ got' \in [Clients -> Seq(Nat)]
      /\ \A d \in Clients : next_incoming_seq_num_'[d] = Len(got'[d]) + 1
      /\ \A d \in Clients : \A i \in 1 .. Len(got'[d]) : got'[d][i] = i
  <2>1. /\ next_incoming_seq_num_' \in [Clients -> Nat] /\ got' \in [Clients -> Seq(Nat)]
        /\ next_incoming_seq_num_'[c] = 1 /\ got'[c] = << >>
        /\ \A d \in Clients : d # c =>
             next_incoming_seq_num_'[d] = next_incoming_seq_num_[d] /\ got'[d] = got[d]
    BY <1>1, <1>2 DEF DownInv
  <2>2. ASSUME NEW d \in Clients
        PROVE  next_incoming_seq_num_'[d] = Len(got'[d]) + 1
               /\ \A i \in 1 .. Len(got'[d]) : got'[d][i] = i
    <3>1. CASE d = c
      <4>1. Len(got'[d]) = 0 /\ next_incoming_seq_num_'[d] = 1 /\ 1 .. Len(got'[d]) = {}
        BY <1>2, <2>1, <3>1
      <4>. QED
        BY <4>1
    <3>2. CASE d # c
      <4>1. next_incoming_seq_num_'[d] = next_incoming_seq_num_[d] /\ got'[d] = got[d]
        BY <2>1, <3>2
      <4>. QED
        BY <4>1 DEF DownInv, ResponsesInOrder
    <3>. QED
      BY <3>1, <3>2
  <2>. QED
    BY <2>1, <2>2
<1>. QED
  BY <1>1, <1>3, <1>4 DEF DownInv, ResponsesInOrder

(* The server puts numbered responses into its send buffers, and a send    *)
(* puts a whole buffer into the connection, or nothing.                    *)
LEMMA ReadSocketDown ==
  ASSUME DownInv, NEW s \in Sockets, ReadSocket(s)
  PROVE  DownInv'
<1>1. PICK delivered \in {send_buffer_[s], << >>} : down' = [down EXCEPT ![s] = @ \o delivered]
  BY DEF ReadSocket
<1>2. /\ send_buffer_' = [send_buffer_ EXCEPT ![s] = << >>]
      /\ UNCHANGED <<og_recv_buffer_, next_incoming_seq_num_, got>>
  BY DEF ReadSocket, clientVars, gatewayVars
<1>3. << >> \in Seq(ResponseUnits)
  OBVIOUS
<1>4. delivered \in Seq(ResponseUnits) /\ down[s] \in Seq(ResponseUnits)
  BY <1>1, <1>3 DEF DownInv
<1>5. down[s] \o delivered \in Seq(ResponseUnits)
  BY <1>4
<1>6. down' \in [Sockets -> Seq(ResponseUnits)] /\ send_buffer_' \in [Sockets -> Seq(ResponseUnits)]
  BY <1>1, <1>2, <1>3, <1>5 DEF DownInv
<1>. QED
  BY <1>2, <1>6 DEF DownInv, ResponsesInOrder

LEMMA SendResponseDown ==
  ASSUME ServerInv, AnswersInv, DownInv, SendResponse
  PROVE  DownInv'
<1>. DEFINE M == {x \in [client_id_ : Clients, id : Nat, seq_num_ : Nat] : x.id = x.seq_num_}
<1>1. PICK s \in Sockets, m \in M :
        send_buffer_' = [send_buffer_ EXCEPT ![s] = @ \o Units(m)]
  BY SendResponseStep
<1>2. UNCHANGED <<down, og_recv_buffer_, next_incoming_seq_num_, got>>
  BY DEF SendResponse, clientVars, gatewayVars, streamVars
<1>3. Units(m) \in Seq(ResponseUnits)
  <2>1. [of |-> m, half |-> 1] \in ResponseUnits /\ [of |-> m, half |-> 2] \in ResponseUnits
    BY DEF ResponseUnits
  <2>. QED
    BY <2>1 DEF Units
<1>4. send_buffer_[s] \o Units(m) \in Seq(ResponseUnits)
  BY <1>3 DEF DownInv
<1>5. send_buffer_' \in [Sockets -> Seq(ResponseUnits)]
  BY <1>1, <1>4 DEF DownInv
<1>. QED
  BY <1>2, <1>5 DEF DownInv, ResponsesInOrder

----------------------------------------------------------------------------
(* The steps, whatever std::sort does.                                     *)

LEMMA EntryInit ==
  ASSUME Init
  PROVE  EntryInv
<1>1. Len(<< >>) = 0 /\ 1 .. 0 = {} /\ \A T : << >> \in Seq(T)
  OBVIOUS
<1>2. UpInv
  <2>1. 0 \in Runs /\ \A s \in Sockets : s[2] \in Nat /\ s[1] \in Clients
    BY OrderEntryAssumption DEF Runs, Sockets
  <2>2. << >> \o << >> = << >>
    OBVIOUS
  <2>3. \A s : WholeStream(<< >>, s) /\ RequestStream(<< >>, s)
    BY NoStream DEF WholeStream
  <2>4. \A s \in Sockets : recv_buffer_[s] = << >> /\ up[s] = << >>
    BY DEF Init
  <2>5. \A c \in Clients : og_send_buffer_[c] = << >>
    BY DEF Init
  <2>6. /\ run \in [Clients -> Runs] /\ next_outgoing_seq_num_ \in [Clients -> Nat \ {0}]
        /\ og_send_buffer_ \in [Clients -> Seq(RequestUnits)]
        /\ up \in [Sockets -> Seq(RequestUnits)] /\ recv_buffer_ \in [Sockets -> Seq(RequestUnits)]
    BY <1>1, <2>1 DEF Init
  <2>. QED
    BY <2>2, <2>3, <2>4, <2>5, <2>6 DEF UpInv
<1>3. ServerInv
  <2>1. server \in Servers /\ Waiting(server) = << >>
    BY <1>1 DEF Init, Servers, Waiting
  <2>2. \A sv : AllAccepted(sv, << >>)
    BY <1>1 DEF AllAccepted
  <2>. QED
    BY <1>1, <2>1, <2>2 DEF Init, ServerInv
<1>4. AnswersInv
  BY <1>1 DEF Init, AnswersInv
<1>5. DownInv
  BY <1>1 DEF Init, DownInv, ResponsesInOrder
<1>. QED
  BY <1>2, <1>3, <1>4, <1>5 DEF EntryInv

LEMMA EntryStep ==
  ASSUME EntryInv, [Next]_vars
  PROVE  EntryInv'
<1>1. UpInv /\ ServerInv /\ AnswersInv /\ DownInv
  BY DEF EntryInv
<1>2. pc \in {"poll", "read", "respond", "aborted"} /\ toRead \in SUBSET Sockets
  BY <1>1 DEF ServerInv
<1>3. ASSUME NEW c \in Clients, SendRequest(c) PROVE EntryInv'
  <2>1. /\ UNCHANGED <<server, taken, client_requests, pc, toRead>>
        /\ UNCHANGED <<produced, cid_next_outgoing_seq_num_, client_responses>>
        /\ UNCHANGED <<send_buffer_, down, og_recv_buffer_, next_incoming_seq_num_, got>>
    BY <1>3 DEF SendRequest, streamVars, socketVars, engineVars
  <2>. QED
    BY <1>1, <1>2, <1>3, <2>1, SendRequestUp, ServerUnchanged, AnswersUnchanged, DownUnchanged
       DEF EntryInv
<1>4. ASSUME NEW c \in Clients, GatewaySendAndRecv(c) PROVE EntryInv'
  <2>1. /\ UNCHANGED <<server, taken, client_requests, pc, toRead>>
        /\ UNCHANGED <<produced, cid_next_outgoing_seq_num_, client_responses>>
    BY <1>4 DEF GatewaySendAndRecv, engineVars
  <2>. QED
    BY <1>1, <1>2, <1>4, <2>1, GatewayUp, ServerUnchanged, AnswersUnchanged, GatewayDown
       DEF EntryInv
<1>5. ASSUME NEW c \in Clients, Restart(c) PROVE EntryInv'
  <2>1. /\ UNCHANGED <<server, taken, client_requests, pc, toRead>>
        /\ UNCHANGED <<produced, cid_next_outgoing_seq_num_, client_responses>>
    BY <1>5 DEF Restart, engineVars
  <2>. QED
    BY <1>1, <1>2, <1>5, <2>1, RestartUp, ServerUnchanged, AnswersUnchanged, RestartDown
       DEF EntryInv
<1>6. CASE Poll
  <2>1. /\ UNCHANGED <<server, taken, client_requests>> /\ pc' = "read"
        /\ toRead' \in SUBSET Sockets
        /\ UNCHANGED <<produced, cid_next_outgoing_seq_num_, client_responses>>
        /\ UNCHANGED <<send_buffer_, down, og_recv_buffer_, next_incoming_seq_num_, got>>
        /\ UNCHANGED <<run, next_outgoing_seq_num_, og_send_buffer_, up, recv_buffer_>>
    BY <1>6 DEF Poll, clientVars, gatewayVars, streamVars, engineVars
  <2>. QED
    BY <1>1, <2>1, UpUnchanged, ServerUnchanged, AnswersUnchanged, DownUnchanged DEF EntryInv
<1>7. ASSUME NEW s \in Sockets, ReadSocket(s) PROVE EntryInv'
  <2>1. UNCHANGED <<produced, cid_next_outgoing_seq_num_, client_responses>>
    BY <1>7 DEF ReadSocket, clientVars, engineVars
  <2>2. UpInv' /\ ServerInv'
    BY <1>1, <1>7, ReadSocketServer, ReadSocketServerInv
  <2>3. AnswersInv'
    BY <1>1, <1>7, <2>1, ReadSocketServerInv, AnswersUnchanged
  <2>4. DownInv'
    BY <1>1, <1>7, ReadSocketDown
  <2>. QED
    BY <2>2, <2>3, <2>4 DEF EntryInv
<1>8. CASE SequenceAndPublish
  <2>1. /\ UNCHANGED <<produced, cid_next_outgoing_seq_num_, client_responses>>
        /\ UNCHANGED <<send_buffer_, down, og_recv_buffer_, next_incoming_seq_num_, got>>
        /\ UNCHANGED <<run, next_outgoing_seq_num_, og_send_buffer_, up, recv_buffer_>>
    BY <1>8 DEF SequenceAndPublish, clientVars, gatewayVars, streamVars, socketVars, engineVars
  <2>2. server'.cid_to_socket_ = server.cid_to_socket_
    BY <1>1, <1>8, SequenceStep
  <2>. QED
    BY <1>1, <1>8, <2>1, <2>2, UpUnchanged, SequenceServerInv, AnswersUnchanged, DownUnchanged
       DEF EntryInv
<1>9. CASE SendResponse
  <2>1. UNCHANGED <<run, next_outgoing_seq_num_, og_send_buffer_, up, recv_buffer_>>
    BY <1>9 DEF SendResponse, clientVars, gatewayVars, streamVars
  <2>2. ServerInv' /\ AnswersInv'
    BY <1>1, <1>2, <1>9, SendResponseStep, ServerUnchanged
  <2>3. UpInv' /\ DownInv'
    BY <1>1, <1>9, <2>1, UpUnchanged, SendResponseDown
  <2>. QED
    BY <2>2, <2>3 DEF EntryInv
<1>10. CASE NextRound
  <2>1. /\ UNCHANGED <<server, taken, client_requests, toRead>> /\ pc' = "poll"
        /\ UNCHANGED <<produced, cid_next_outgoing_seq_num_, client_responses>>
        /\ UNCHANGED <<send_buffer_, down, og_recv_buffer_, next_incoming_seq_num_, got>>
        /\ UNCHANGED <<run, next_outgoing_seq_num_, og_send_buffer_, up, recv_buffer_>>
    BY <1>10 DEF NextRound, clientVars, gatewayVars, streamVars, socketVars, engineVars
  <2>. QED
    BY <1>1, <1>2, <2>1, UpUnchanged, ServerUnchanged, AnswersUnchanged, DownUnchanged DEF EntryInv
<1>11. CASE MatchingEngine
  <2>1. /\ UNCHANGED <<send_buffer_, down, og_recv_buffer_, next_incoming_seq_num_, got>>
        /\ UNCHANGED <<run, next_outgoing_seq_num_, og_send_buffer_, up, recv_buffer_>>
    BY <1>11 DEF MatchingEngine, gatewayVars, streamVars, socketVars
  <2>. QED
    BY <1>1, <1>11, <2>1, UpUnchanged, EngineServerInv, EngineAnswers, DownUnchanged DEF EntryInv
<1>12. CASE UNCHANGED vars
  <2>1. /\ UNCHANGED <<server, taken, client_requests, pc, toRead>>
        /\ UNCHANGED <<produced, cid_next_outgoing_seq_num_, client_responses>>
        /\ UNCHANGED <<send_buffer_, down, og_recv_buffer_, next_incoming_seq_num_, got>>
        /\ UNCHANGED <<run, next_outgoing_seq_num_, og_send_buffer_, up, recv_buffer_>>
    BY <1>12 DEF vars, gatewayVars, streamVars, socketVars, engineVars
  <2>. QED
    BY <1>1, <1>2, <2>1, UpUnchanged, ServerUnchanged, AnswersUnchanged, DownUnchanged DEF EntryInv
<1>. QED
  BY <1>3, <1>4, <1>5, <1>6, <1>7, <1>8, <1>9, <1>10, <1>11, <1>12 DEF Next, OrderServer

(* The invariant of order entry: whole streams on the way up, every        *)
(* accepted request of the run that has its client's socket, answers in    *)
(* order, for every number of clients, requests, crashes and refused sends *)
(* (OrderServer, OrderGateway, TCPSocket::sendAndRecv).                    *)
THEOREM EntryInvariant == Spec => []EntryInv
<1>1. Init => EntryInv
  BY EntryInit
<1>2. EntryInv /\ [Next]_vars => EntryInv'
  BY EntryStep
<1>. QED
  BY <1>1, <1>2, PTL DEF Spec

(* The order server reads nothing but whole requests, and has a socket for *)
(* every client that it must answer: the assertion in OrderServer::run     *)
(* never fires.                                                            *)
THEOREM ServerNeverStops == Spec => []ServerLives
<1>1. EntryInv => ServerLives
  BY DEF EntryInv, ServerInv, ServerLives
<1>. QED
  BY <1>1, EntryInvariant, PTL

(* Each trade engine gets the first responses to its client, in order and  *)
(* without a gap, also with a gateway that garbles some                    *)
(* (OrderGateway::recvCallback).                                           *)
THEOREM ResponsesComeInOrder == Spec => []ResponsesInOrder
<1>1. EntryInv => ResponsesInOrder
  BY DEF EntryInv, DownInv
<1>. QED
  BY <1>1, EntryInvariant, PTL

----------------------------------------------------------------------------
(* The order of a client's requests.                                       *)

(* Rising and Before in terms of the elements of the sequences.            *)
LEMMA BeforeParts ==
  ASSUME NEW ms, NEW ns, Before(ms, ns), NEW ms2, NEW ns2,
         \A i \in 1 .. Len(ms2) : \E j \in 1 .. Len(ms) : ms2[i] = ms[j],
         \A i \in 1 .. Len(ns2) : \E j \in 1 .. Len(ns) : ns2[i] = ns[j]
  PROVE  Before(ms2, ns2)
<1>1. ASSUME NEW i \in 1 .. Len(ms2), NEW j \in 1 .. Len(ns2), SameClient(ms2[i], ns2[j])
      PROVE  ms2[i].seq_num_ < ns2[j].seq_num_
  <2>1. PICK k \in 1 .. Len(ms), l \in 1 .. Len(ns) : ms2[i] = ms[k] /\ ns2[j] = ns[l]
    OBVIOUS
  <2>. QED
    BY <1>1, <2>1 DEF Before
<1>. QED
  BY <1>1 DEF Before

(* What follows two sequences follows both together, and the other way     *)
(* round.                                                                  *)
LEMMA BeforeConcat ==
  ASSUME NEW ms, NEW a \in Seq(ClientRequests), NEW b \in Seq(ClientRequests),
         Before(ms, a), Before(ms, b)
  PROVE  Before(ms, a \o b)
<1>. DEFINE w == a \o b
<1>1. /\ Len(w) = Len(a) + Len(b) /\ Len(a) \in Nat /\ Len(b) \in Nat
      /\ \A i \in 1 .. Len(a) + Len(b) : w[i] = IF i <= Len(a) THEN a[i] ELSE b[i - Len(a)]
  BY ConcatParts
<1>. HIDE DEF w
<1>2. ASSUME NEW i \in 1 .. Len(ms), NEW j \in 1 .. Len(w), SameClient(ms[i], w[j])
      PROVE  ms[i].seq_num_ < w[j].seq_num_
  <2>1. CASE j <= Len(a)
    <3>1. j \in 1 .. Len(a) /\ w[j] = a[j]
      BY <1>1, <2>1
    <3>. QED
      BY <1>2, <3>1 DEF Before
  <2>2. CASE j > Len(a)
    <3>. DEFINE k == j - Len(a)
    <3>1. k \in 1 .. Len(b) /\ w[j] = b[k]
      BY <1>1, <2>2
    <3>. HIDE DEF k
    <3>. QED
      BY <1>2, <3>1 DEF Before
  <2>. QED
    BY <1>1, <2>1, <2>2
<1>. QED
  BY <1>2 DEF Before, w

LEMMA RisingConcat ==
  ASSUME NEW a \in Seq(ClientRequests), NEW b \in Seq(ClientRequests),
         Rising(a), Rising(b), Before(a, b)
  PROVE  Rising(a \o b)
<1>. DEFINE w == a \o b
<1>1. /\ Len(w) = Len(a) + Len(b) /\ Len(a) \in Nat /\ Len(b) \in Nat
      /\ \A i \in 1 .. Len(a) + Len(b) : w[i] = IF i <= Len(a) THEN a[i] ELSE b[i - Len(a)]
  BY ConcatParts
<1>. HIDE DEF w
<1>2. ASSUME NEW i \in 1 .. Len(w), NEW j \in 1 .. Len(w), i < j, SameClient(w[i], w[j])
      PROVE  w[i].seq_num_ < w[j].seq_num_
  <2>1. CASE j <= Len(a)
    <3>1. i \in 1 .. Len(a) /\ j \in 1 .. Len(a) /\ w[i] = a[i] /\ w[j] = a[j]
      BY <1>1, <1>2, <2>1
    <3>. QED
      BY <1>2, <3>1 DEF Rising
  <2>2. CASE j > Len(a) /\ i <= Len(a)
    <3>. DEFINE k == j - Len(a)
    <3>1. i \in 1 .. Len(a) /\ k \in 1 .. Len(b) /\ w[i] = a[i] /\ w[j] = b[k]
      BY <1>1, <2>2
    <3>. HIDE DEF k
    <3>. QED
      BY <1>2, <3>1 DEF Before
  <2>3. CASE i > Len(a)
    <3>. DEFINE k == j - Len(a)
                l == i - Len(a)
    <3>1. l \in 1 .. Len(b) /\ k \in 1 .. Len(b) /\ w[i] = b[l] /\ w[j] = b[k] /\ l < k
      BY <1>1, <1>2, <2>3
    <3>. HIDE DEF k, l
    <3>. QED
      BY <1>2, <3>1 DEF Rising
  <2>. QED
    BY <1>1, <2>1, <2>2, <2>3
<1>. QED
  BY <1>2 DEF Rising, w

(* A sort loses none of the requests that wait.                            *)
LEMMA SortedCovers ==
  ASSUME NEW sv \in Servers, NEW f \in Sorted(sv.pending_client_requests_),
         NEW j \in 1 .. Len(Waiting(sv))
  PROVE  \E i \in 1 .. Len(Waiting(sv)) : f[i] = j
<1>. DEFINE n == Len(sv.pending_client_requests_)
<1>1. n \in Nat /\ Len(Waiting(sv)) = n
  BY WaitingParts
<1>2. f \in [1 .. n -> 1 .. n] /\ \A i, k \in 1 .. n : i # k => f[i] # f[k]
  BY DEF Sorted
<1>. HIDE DEF n
<1>3. f \in Injection(1 .. n, 1 .. n)
  BY <1>2 DEF Injection, IsInjective
<1>4. IsFiniteSet(1 .. n)
  BY <1>1, FS_Interval
<1>5. f \in Surjection(1 .. n, 1 .. n)
  BY <1>3, <1>4, FS_Injection
<1>. QED
  BY <1>1, <1>5 DEF Surjection

(* With no more requests than std::sort keeps in order, and those of a     *)
(* client all of one time, the published ones rise like those that wait.   *)
LEMMA PublishedRises ==
  ASSUME NEW sv \in Servers, NEW f \in Sorted(sv.pending_client_requests_),
         Len(sv.pending_client_requests_) <= SortThreshold, Rising(Waiting(sv)),
         \A i, j \in 1 .. Len(sv.pending_client_requests_) :
           SameClient(sv.pending_client_requests_[i].request_,
                      sv.pending_client_requests_[j].request_) =>
             sv.pending_client_requests_[i].recv_time_ = sv.pending_client_requests_[j].recv_time_
  PROVE  Rising(Published(sv, f))
<1>. DEFINE p == sv.pending_client_requests_
            n == Len(p)
            w == Published(sv, f)
            W == Waiting(sv)
<1>1. /\ n \in Nat /\ Len(W) = n
      /\ \A i \in 1 .. n : W[i] = p[i].request_
  BY WaitingParts
<1>2. Len(w) = n /\ \A i \in 1 .. n : f[i] \in 1 .. n /\ w[i] = W[f[i]]
  BY <1>1, PublishedParts
<1>3. \A i, j \in 1 .. n : i < j /\ p[f[i]].recv_time_ = p[f[j]].recv_time_ => f[i] < f[j]
  BY DEF Sorted
<1>4. \A i, j \in 1 .. n : SameClient(p[i].request_, p[j].request_) =>
        p[i].recv_time_ = p[j].recv_time_
  OBVIOUS
<1>5. \A i, j \in 1 .. n : i < j /\ SameClient(W[i], W[j]) => W[i].seq_num_ < W[j].seq_num_
  BY <1>1 DEF Rising
<1>. HIDE DEF p, n, w, W
<1>6. ASSUME NEW i \in 1 .. n, NEW j \in 1 .. n, i < j, SameClient(w[i], w[j])
      PROVE  w[i].seq_num_ < w[j].seq_num_
  <2>1. f[i] \in 1 .. n /\ f[j] \in 1 .. n /\ w[i] = W[f[i]] /\ w[j] = W[f[j]]
    BY <1>2
  <2>2. p[f[i]].recv_time_ = p[f[j]].recv_time_
    BY <1>1, <1>4, <1>6, <2>1
  <2>3. f[i] < f[j]
    BY <1>3, <1>6, <2>2
  <2>. QED
    BY <1>5, <1>6, <2>1, <2>3
<1>. QED
  BY <1>2, <1>6 DEF Rising, w

(* What recvCallbacks leaves, of a read of socket s at rx_time, for the    *)
(* order of the requests: those of that socket are all of this read.       *)
ReadTime(sv, s, rx_time) ==
  \A i \in 1 .. Len(sv.pending_client_requests_) :
    sv.cid_to_socket_[sv.pending_client_requests_[i].request_.client_id_] = s =>
      sv.pending_client_requests_[i].recv_time_ = rx_time

OrderedServers(s, rx_time) ==
  {sv \in ReadServers : SequencerInv(sv, toRead \ {s}) /\ ReadTime(sv, s, rx_time)}

(* With fewer sockets still to be read, SequencerInv says less.            *)
LEMMA FewerSockets ==
  ASSUME NEW sv, NEW A, NEW B, B \subseteq A, SequencerInv(sv, A)
  PROVE  SequencerInv(sv, B)
BY DEF SequencerInv

(* A request that only fixes a client's socket.                            *)
LEMMA OrderedBinds ==
  ASSUME NEW s \in Sockets, NEW rx_time \in RxTimes, NEW r \in Received(s, rx_time),
         NEW sv \in OrderedServers(s, rx_time), Drops(sv, recvRequest(sv, r))
  PROVE  /\ SequencerInv(recvRequest(sv, r), toRead \ {s})
         /\ ReadTime(recvRequest(sv, r), s, rx_time)
<1>. DEFINE sv2 == recvRequest(sv, r)
            p   == sv.pending_client_requests_
<1>1. /\ sv \in Servers /\ AllAccepted(sv, Waiting(sv)) /\ SequencerInv(sv, toRead \ {s})
      /\ ReadTime(sv, s, rx_time)
  BY DEF OrderedServers, ReadServers
<1>2. \A i \in 1 .. Len(Waiting(sv)) :
        sv2.cid_to_socket_[Waiting(sv)[i].client_id_] = sv.cid_to_socket_[Waiting(sv)[i].client_id_]
  BY <1>1, StaysAccepted, WaitingParts
<1>3. /\ sv2.pending_client_requests_ = p /\ sv2.cid_next_exp_seq_num_ = sv.cid_next_exp_seq_num_
      /\ Waiting(sv2) = Waiting(sv)
  BY WaitingDrops DEF Drops
<1>. HIDE DEF sv2
<1>4. \A i \in 1 .. Len(p) :
        sv2.cid_to_socket_[p[i].request_.client_id_] = sv.cid_to_socket_[p[i].request_.client_id_]
  BY <1>1, <1>2, WaitingParts
<1>5. SequencerInv(sv2, toRead \ {s})
  BY <1>1, <1>3, <1>4 DEF SequencerInv
<1>6. ReadTime(sv2, s, rx_time)
  BY <1>1, <1>3, <1>4 DEF ReadTime
<1>. QED
  BY <1>5, <1>6 DEF sv2

(* A request that goes to the sequencer.                                   *)
LEMMA OrderedTakes ==
  ASSUME NEW s \in Sockets, NEW rx_time \in RxTimes, NEW r \in Received(s, rx_time),
         taken \in Seq(ClientRequests), client_requests \in Seq(ClientRequests),
         NEW sv \in OrderedServers(s, rx_time),
         Binds(sv, recvRequest(sv, r), r), Takes(sv, recvRequest(sv, r), r)
  PROVE  /\ SequencerInv(recvRequest(sv, r), toRead \ {s})
         /\ ReadTime(recvRequest(sv, r), s, rx_time)
<1>. DEFINE sv2 == recvRequest(sv, r)
            p   == sv.pending_client_requests_
            p2  == sv2.pending_client_requests_
            W   == Waiting(sv)
            W2  == Waiting(sv2)
            n   == Len(W)
            m   == r.request_
            c   == m.client_id_
            exp == sv.cid_next_exp_seq_num_
            exp2 == sv2.cid_next_exp_seq_num_
            sock == sv.cid_to_socket_
            sock2 == sv2.cid_to_socket_
<1>1. /\ sv \in Servers /\ AllAccepted(sv, W) /\ SequencerInv(sv, toRead \ {s})
      /\ AllAccepted(sv, taken) /\ AllAccepted(sv, client_requests)
      /\ ReadTime(sv, s, rx_time) /\ sv2 \in Servers
  BY RecvRequestCases DEF OrderedServers, ReadServers
<1>2. /\ c \in Clients /\ m \in ClientRequests /\ r.socket = s /\ r.rx_time = rx_time
      /\ m.seq_num_ \in Nat /\ s = <<c, m.run>> /\ s # NULL
  BY NullEntry DEF Received, RequestsOf, ClientRequests, Sockets
<1>3. /\ n \in Nat /\ Len(p) = n /\ W \in Seq(ClientRequests)
      /\ \A i \in 1 .. n : W[i] = p[i].request_ /\ W[i] \in ClientRequests
  BY <1>1, WaitingParts
<1>4. /\ Len(W2) = n + 1 /\ W2[n + 1] = m /\ p2[n + 1].recv_time_ = rx_time
      /\ \A i \in 1 .. n : W2[i] = W[i] /\ p2[i] = p[i]
  BY <1>1, <1>2, WaitingTakes
<1>5. Len(p2) = n + 1 /\ \A i \in 1 .. n + 1 : W2[i] = p2[i].request_
  BY <1>1, <1>4, WaitingParts
<1>6. \A i \in 1 .. n : sock2[W[i].client_id_] = sock[W[i].client_id_] /\ sock[W[i].client_id_] # NULL
  BY <1>1, <1>3, StaysAccepted
<1>7. /\ exp[c] = m.seq_num_ /\ exp2[c] = exp[c] + 1 /\ \A d \in Clients : d # c => exp2[d] = exp[d]
      /\ sock[c] \in {NULL, s} /\ sock2[c] = s
  BY <1>1, <1>2 DEF Takes, Binds, Servers
<1>8. \A i \in 1 .. n : W[i].client_id_ = c => W[i].seq_num_ < m.seq_num_
  BY <1>1, <1>7 DEF AllAccepted
<1>9. \A i \in 1 .. Len(taken) : taken[i].client_id_ = c => taken[i].seq_num_ < m.seq_num_
  BY <1>1, <1>7 DEF AllAccepted
<1>10. \A i \in 1 .. Len(client_requests) :
         client_requests[i].client_id_ = c => client_requests[i].seq_num_ < m.seq_num_
  BY <1>1, <1>7 DEF AllAccepted
<1>11. /\ Rising(W) /\ Before(taken, W) /\ Before(client_requests, W)
       /\ \A d \in Clients : \A k \in 1 .. exp[d] - 1 :
            Has(taken, d, k) \/ Has(client_requests, d, k) \/ Has(W, d, k)
       /\ \A i \in 1 .. n : sock[W[i].client_id_] \notin toRead \ {s}
       /\ \A i, j \in 1 .. n : SameClient(W[i], W[j]) => p[i].recv_time_ = p[j].recv_time_
  BY <1>1, <1>3 DEF SequencerInv
<1>12. \A i \in 1 .. n : sock[W[i].client_id_] = s => p[i].recv_time_ = rx_time
  BY <1>1, <1>3 DEF ReadTime
<1>13. \A i \in 1 .. n + 1 : i \in 1 .. n \/ i = n + 1
  BY <1>3
<1>. HIDE DEF sv2, p, p2, W, W2, n, m, c, exp, exp2, sock, sock2
<1>14. Rising(W2)
  <2>1. ASSUME NEW i \in 1 .. n + 1, NEW j \in 1 .. n + 1, i < j, SameClient(W2[i], W2[j])
        PROVE  W2[i].seq_num_ < W2[j].seq_num_
    <3>1. CASE j \in 1 .. n
      <4>1. i \in 1 .. n
        BY <2>1, <3>1, <1>3
      <4>. QED
        BY <1>4, <1>11, <2>1, <3>1, <4>1 DEF Rising, n
    <3>2. CASE j = n + 1
      <4>1. i \in 1 .. n
        BY <2>1, <3>2, <1>3
      <4>. QED
        BY <1>4, <1>8, <2>1, <3>2, <4>1 DEF SameClient, c
    <3>. QED
      BY <1>13, <3>1, <3>2
  <2>. QED
    BY <1>4, <2>1 DEF Rising
<1>15. Before(taken, W2)
  <2>1. ASSUME NEW i \in 1 .. Len(taken), NEW j \in 1 .. n + 1, SameClient(taken[i], W2[j])
        PROVE  taken[i].seq_num_ < W2[j].seq_num_
    <3>1. CASE j \in 1 .. n
      BY <1>4, <1>11, <2>1, <3>1 DEF Before, n
    <3>2. CASE j = n + 1
      BY <1>4, <1>9, <2>1, <3>2 DEF SameClient, c
    <3>. QED
      BY <1>13, <3>1, <3>2
  <2>. QED
    BY <1>4, <2>1 DEF Before
<1>16. Before(client_requests, W2)
  <2>1. ASSUME NEW i \in 1 .. Len(client_requests), NEW j \in 1 .. n + 1,
               SameClient(client_requests[i], W2[j])
        PROVE  client_requests[i].seq_num_ < W2[j].seq_num_
    <3>1. CASE j \in 1 .. n
      BY <1>4, <1>11, <2>1, <3>1 DEF Before, n
    <3>2. CASE j = n + 1
      BY <1>4, <1>10, <2>1, <3>2 DEF SameClient, c
    <3>. QED
      BY <1>13, <3>1, <3>2
  <2>. QED
    BY <1>4, <2>1 DEF Before
<1>17. ASSUME NEW d \in Clients, NEW k \in 1 .. exp2[d] - 1
       PROVE  Has(taken, d, k) \/ Has(client_requests, d, k) \/ Has(W2, d, k)
  <2>1. exp[d] \in Nat
    BY <1>1 DEF Servers, exp
  <2>2. CASE k \in 1 .. exp[d] - 1
    <3>1. Has(W, d, k) => Has(W2, d, k)
      <4>1. ASSUME NEW i \in 1 .. n, W[i].client_id_ = d, W[i].seq_num_ = k
            PROVE  i \in 1 .. n + 1 /\ W2[i].client_id_ = d /\ W2[i].seq_num_ = k
        BY <1>3, <1>4, <4>1
      <4>. QED
        BY <1>4, <4>1 DEF Has, n
    <3>. QED
      BY <1>11, <2>2, <3>1
  <2>3. CASE k \notin 1 .. exp[d] - 1
    <3>1. d = c /\ k = m.seq_num_
      BY <1>2, <1>7, <1>17, <2>1, <2>3
    <3>2. n + 1 \in 1 .. Len(W2)
      BY <1>3, <1>4
    <3>. QED
      BY <1>4, <3>1, <3>2 DEF Has, c
  <2>. QED
    BY <2>2, <2>3
<1>18. \A i \in 1 .. n + 1 : sock2[W2[i].client_id_] \notin toRead \ {s}
  <2>1. sock2[W2[n + 1].client_id_] = s
    BY <1>4, <1>7 DEF c
  <2>2. \A i \in 1 .. n : sock2[W2[i].client_id_] = sock[W[i].client_id_]
    BY <1>4, <1>6
  <2>. QED
    BY <1>11, <1>13, <2>1, <2>2
<1>19. ASSUME NEW i \in 1 .. n, W[i].client_id_ = c
       PROVE  p[i].recv_time_ = rx_time
  BY <1>6, <1>7, <1>12, <1>19
<1>20. \A i, j \in 1 .. n + 1 : SameClient(W2[i], W2[j]) => p2[i].recv_time_ = p2[j].recv_time_
  <2>1. ASSUME NEW i \in 1 .. n + 1, NEW j \in 1 .. n + 1, SameClient(W2[i], W2[j])
        PROVE  p2[i].recv_time_ = p2[j].recv_time_
    <3>1. CASE i \in 1 .. n /\ j \in 1 .. n
      BY <1>4, <1>11, <2>1, <3>1
    <3>2. CASE i = n + 1 /\ j \in 1 .. n
      BY <1>4, <1>19, <2>1, <3>2 DEF SameClient, c
    <3>3. CASE i \in 1 .. n /\ j = n + 1
      BY <1>4, <1>19, <2>1, <3>3 DEF SameClient, c
    <3>4. CASE i = n + 1 /\ j = n + 1
      BY <3>4
    <3>. QED
      BY <1>13, <3>1, <3>2, <3>3, <3>4
  <2>. QED
    BY <2>1
<1>21. \A i \in 1 .. n + 1 : sock2[W2[i].client_id_] = s => p2[i].recv_time_ = rx_time
  <2>1. \A i \in 1 .. n : sock2[W2[i].client_id_] = sock[W[i].client_id_]
    BY <1>4, <1>6
  <2>. QED
    BY <1>4, <1>12, <1>13, <2>1
<1>22. SequencerInv(sv2, toRead \ {s})
  BY <1>5, <1>14, <1>15, <1>16, <1>17, <1>18, <1>20 DEF SequencerInv, W2, p2, exp2, sock2
<1>23. ReadTime(sv2, s, rx_time)
  BY <1>5, <1>21 DEF ReadTime, p2, sock2
<1>. QED
  BY <1>22, <1>23 DEF sv2

(* One iteration of recvCallbacks, and all of them.                        *)
LEMMA OrderedStep ==
  ASSUME NEW s \in Sockets, NEW rx_time \in RxTimes, NEW r \in Received(s, rx_time),
         taken \in Seq(ClientRequests), client_requests \in Seq(ClientRequests),
         NEW sv \in OrderedServers(s, rx_time)
  PROVE  recvRequest(sv, r) \in OrderedServers(s, rx_time)
<1>1. sv \in ReadServers /\ sv \in Servers
  BY DEF OrderedServers, ReadServers
<1>2. recvRequest(sv, r) \in ReadServers
  BY <1>1, ReadStep
<1>3. /\ SequencerInv(recvRequest(sv, r), toRead \ {s})
      /\ ReadTime(recvRequest(sv, r), s, rx_time)
  <2>1. CASE recvRequest(sv, r) = sv
    BY <2>1 DEF OrderedServers
  <2>2. CASE Drops(sv, recvRequest(sv, r))
    BY <2>2, OrderedBinds
  <2>3. CASE Binds(sv, recvRequest(sv, r), r) /\ Takes(sv, recvRequest(sv, r), r)
    BY <2>3, OrderedTakes
  <2>. QED
    BY <1>1, <2>1, <2>2, <2>3, RecvRequestCases
<1>. QED
  BY <1>2, <1>3 DEF OrderedServers

LEMMA OrderedLoop ==
  ASSUME ServerInv, NEW s \in toRead, SequencerInv(server, toRead),
         NEW rx_time \in RxTimes, NEW ms \in Seq(RequestsOf(s))
  PROVE  SequencerInv(recvCallbacks(s, rx_time, ms), toRead \ {s})
<1>. DEFINE rs == [i \in 1 .. Len(ms) |->
                     [socket |-> s, rx_time |-> rx_time, request_ |-> ms[i]]]
<1>0. s \in Sockets
  BY DEF ServerInv
<1>1. rs \in Seq(Received(s, rx_time))
  BY ReceivedParts
<1>. HIDE DEF rs
<1>2. \A k \in 1 .. Len(rs) : rs[k] \in Received(s, rx_time)
  BY <1>1, ElementOfSeq
<1>3. server \in OrderedServers(s, rx_time)
  <2>1. server \in ReadServers
    BY DEF ServerInv, ReadServers
  <2>2. SequencerInv(server, toRead \ {s})
    BY FewerSockets
  <2>3. ReadTime(server, s, rx_time)
    BY DEF SequencerInv, ReadTime
  <2>. QED
    BY <2>1, <2>2, <2>3 DEF OrderedServers
<1>4. \A sv \in OrderedServers(s, rx_time) : \A k \in 1 .. Len(rs) :
        recvRequest(sv, rs[k]) \in OrderedServers(s, rx_time)
  BY <1>0, <1>2, OrderedStep DEF ServerInv
<1>5. Server!Fold(server, rs) \in OrderedServers(s, rx_time)
  BY <1>1, <1>3, <1>4, Server!FoldKeeps
<1>6. recvCallbacks(s, rx_time, ms) = Server!Fold(server, rs)
  BY ServerFold DEF recvCallbacks, rs
<1>. QED
  BY <1>5, <1>6 DEF OrderedServers

(* The sockets still to be read.                                           *)
ToBeRead == IF pc = "read" THEN toRead ELSE {}

(* SequencerInv of what the engine has taken and still has in its queue.   *)
SequencerOf(tk, cr, sv, sockets) ==
  /\ Rising(Waiting(sv)) /\ Before(tk, Waiting(sv)) /\ Before(cr, Waiting(sv))
  /\ \A c \in Clients : \A n \in 1 .. sv.cid_next_exp_seq_num_[c] - 1 :
       Has(tk, c, n) \/ Has(cr, c, n) \/ Has(Waiting(sv), c, n)
  /\ LET pending == sv.pending_client_requests_ IN
     \A i \in 1 .. Len(pending) :
       /\ sv.cid_to_socket_[pending[i].request_.client_id_] \notin sockets
       /\ \A j \in 1 .. Len(pending) : SameClient(pending[i].request_, pending[j].request_) =>
            pending[i].recv_time_ = pending[j].recv_time_

LEMMA SequencerInvOf ==
  /\ SequencerInv(server, ToBeRead) <=> SequencerOf(taken, client_requests, server, ToBeRead)
  /\ SequencerInv(server, ToBeRead)' <=>
       SequencerOf(taken', client_requests', server', ToBeRead')
<1>1. SequencerInv(server, ToBeRead) <=> SequencerOf(taken, client_requests, server, ToBeRead)
  BY DEF SequencerInv, SequencerOf
<1>2. SequencerInv(server, ToBeRead)' <=>
        SequencerOf(taken', client_requests', server', ToBeRead')
  BY DEF SequencerInv, SequencerOf, Rising, Before, Has, Waiting, SameClient
<1>. QED
  BY <1>1, <1>2

LEMMA OrderUnchanged ==
  ASSUME OrderInv, UNCHANGED <<server, taken, client_requests>>, ToBeRead' = ToBeRead,
         pc' \in {"poll", "respond"} => pc \in {"poll", "respond"}
  PROVE  OrderInv'
<1>1. SequencerInv(server, ToBeRead)
  BY DEF OrderInv, ToBeRead
<1>2. SequencerInv(server, ToBeRead)'
  BY <1>1, SequencerInvOf
<1>3. SequencerInv(server, IF pc = "read" THEN toRead ELSE {})'
  BY <1>2 DEF ToBeRead
<1>4. (Rising(client_requests) /\ Before(taken, client_requests) /\ ClientOrder)'
  BY DEF OrderInv, Rising, Before, ClientOrder
<1>. QED
  BY <1>3, <1>4 DEF OrderInv

(* A new round begins with nothing in the sequencer.                       *)
LEMMA PollOrder ==
  ASSUME OrderInv, Poll
  PROVE  OrderInv'
<1>1. /\ UNCHANGED <<server, taken, client_requests>> /\ pc' = "read"
      /\ server.pending_client_requests_ = << >>
  BY DEF OrderInv, Poll, clientVars, engineVars
<1>2. 1 .. Len(server.pending_client_requests_) = {}
  BY <1>1
<1>3. SequencerOf(taken, client_requests, server, ToBeRead')
  <2>1. SequencerOf(taken, client_requests, server, ToBeRead)
    BY SequencerInvOf DEF OrderInv, ToBeRead
  <2>. QED
    BY <1>2, <2>1 DEF SequencerOf
<1>4. SequencerInv(server, ToBeRead)'
  BY <1>1, <1>3, SequencerInvOf
<1>5. SequencerInv(server, IF pc = "read" THEN toRead ELSE {})'
  BY <1>4 DEF ToBeRead
<1>6. (Rising(client_requests) /\ Before(taken, client_requests) /\ ClientOrder)'
  BY <1>1 DEF OrderInv, Rising, Before, ClientOrder
<1>. QED
  BY <1>1, <1>5, <1>6 DEF OrderInv

LEMMA ReadSocketOrder ==
  ASSUME UpInv, ServerInv, OrderInv, NEW s \in Sockets, ReadSocket(s)
  PROVE  OrderInv'
<1>1. /\ pc = "read" /\ s \in toRead /\ toRead' = toRead \ {s}
      /\ UNCHANGED <<taken, client_requests>>
  BY DEF ReadSocket, clientVars, engineVars
<1>2. PICK rx_time \in RxTimes, ms \in Seq(RequestsOf(s)) :
        server' = recvCallbacks(s, rx_time, ms)
  BY ReadSocketServer
<1>3. SequencerInv(server', toRead \ {s})
  BY <1>1, <1>2, OrderedLoop DEF OrderInv
<1>4. SequencerInv(server', {})
  BY <1>3, FewerSockets
<1>5. pc' \in {"read", "aborted"}
  BY ReadSocketServer
<1>6. SequencerInv(server', IF pc' = "read" THEN toRead' ELSE {})
  BY <1>1, <1>3, <1>4
<1>7. SequencerInv(server, IF pc = "read" THEN toRead ELSE {})'
  BY <1>1, <1>6 DEF SequencerInv
<1>. QED
  BY <1>1, <1>5, <1>7 DEF OrderInv, ClientOrder

(* The engine's queue gets what waits, behind what it has.                 *)
LEMMA SequenceOrder ==
  ASSUME ServerInv, OrderInv, SortIsStable, SequenceAndPublish
  PROVE  OrderInv'
<1>1. PICK f \in Sorted(server.pending_client_requests_) :
        client_requests' = client_requests \o Published(server, f)
  BY SequenceStep
<1>. DEFINE P == Published(server, f)
            W == Waiting(server)
<1>2. /\ UNCHANGED taken /\ pc' = "respond" /\ pc = "read" /\ toRead = {}
      /\ server'.cid_next_exp_seq_num_ = server.cid_next_exp_seq_num_
      /\ server'.pending_client_requests_ = << >> /\ Waiting(server') = << >>
  BY SequenceStep
<1>3. /\ server \in Servers /\ taken \in Seq(ClientRequests)
      /\ client_requests \in Seq(ClientRequests)
  BY DEF ServerInv
<1>4. SequencerInv(server, {})
  BY <1>2 DEF OrderInv
<1>5. /\ Rising(W) /\ Before(taken, W) /\ Before(client_requests, W)
      /\ Rising(client_requests) /\ Before(taken, client_requests)
  BY <1>4 DEF SequencerInv, OrderInv
<1>6. /\ P \in Seq(ClientRequests) /\ Len(P) = Len(W)
      /\ \A i \in 1 .. Len(W) : f[i] \in 1 .. Len(W) /\ P[i] = W[f[i]]
  BY <1>3, PublishedParts
<1>7. Rising(P)
  <2>1. Len(server.pending_client_requests_) <= SortThreshold
    BY <1>2 DEF SortIsStable
  <2>2. \A i, j \in 1 .. Len(server.pending_client_requests_) :
          SameClient(server.pending_client_requests_[i].request_,
                     server.pending_client_requests_[j].request_) =>
            server.pending_client_requests_[i].recv_time_
              = server.pending_client_requests_[j].recv_time_
    BY <1>4 DEF SequencerInv
  <2>. QED
    BY <1>3, <1>5, <2>1, <2>2, PublishedRises
<1>8. \A j \in 1 .. Len(W) : \E i \in 1 .. Len(W) : f[i] = j
  BY <1>3, SortedCovers
<1>. HIDE DEF P, W
<1>9. Before(taken, P) /\ Before(client_requests, P)
  <2>1. \A i \in 1 .. Len(P) : \E j \in 1 .. Len(W) : P[i] = W[j]
    BY <1>6
  <2>2. \A ms : \A i \in 1 .. Len(ms) : \E j \in 1 .. Len(ms) : ms[i] = ms[j]
    OBVIOUS
  <2>. QED
    BY <1>5, <2>1, <2>2, BeforeParts
<1>10. Rising(client_requests \o P) /\ Before(taken, client_requests \o P)
  BY <1>3, <1>5, <1>6, <1>7, <1>9, RisingConcat, BeforeConcat
<1>11. ASSUME NEW c, NEW n
       PROVE  /\ Has(W, c, n) => Has(P, c, n)
              /\ Has(client_requests, c, n) \/ Has(P, c, n) => Has(client_requests \o P, c, n)
  <2>1. Has(W, c, n) => Has(P, c, n)
    <3>1. ASSUME NEW j \in 1 .. Len(W), W[j].client_id_ = c, W[j].seq_num_ = n
          PROVE  Has(P, c, n)
      <4>1. PICK i \in 1 .. Len(W) : f[i] = j
        BY <1>8
      <4>. QED
        BY <1>6, <3>1, <4>1 DEF Has
    <3>. QED
      BY <3>1 DEF Has
  <2>. DEFINE w == client_requests \o P
  <2>2. /\ Len(w) = Len(client_requests) + Len(P) /\ Len(client_requests) \in Nat /\ Len(P) \in Nat
        /\ \A i \in 1 .. Len(client_requests) + Len(P) :
             w[i] = IF i <= Len(client_requests) THEN client_requests[i]
                    ELSE P[i - Len(client_requests)]
    BY <1>3, <1>6, ConcatParts
  <2>. HIDE DEF w
  <2>3. \A i \in 1 .. Len(client_requests) : i \in 1 .. Len(w) /\ w[i] = client_requests[i]
    BY <2>2
  <2>4. ASSUME NEW i \in 1 .. Len(P)
        PROVE  \E j \in 1 .. Len(w) : w[j] = P[i]
    <3>. DEFINE j == i + Len(client_requests)
    <3>1. /\ j \in 1 .. Len(client_requests) + Len(P) /\ ~(j <= Len(client_requests))
          /\ j - Len(client_requests) = i
      BY <2>2
    <3>. HIDE DEF j
    <3>2. w[j] = P[i] /\ j \in 1 .. Len(w)
      BY <2>2, <3>1
    <3>. QED
      BY <3>2
  <2>5. Has(client_requests, c, n) => Has(w, c, n)
    BY <2>3 DEF Has
  <2>6. Has(P, c, n) => Has(w, c, n)
    BY <2>4 DEF Has
  <2>. QED
    BY <2>1, <2>5, <2>6 DEF w
<1>12. \A c \in Clients : \A n \in 1 .. server'.cid_next_exp_seq_num_[c] - 1 :
         Has(taken, c, n) \/ Has(client_requests', c, n)
  <2>1. \A c \in Clients : \A n \in 1 .. server.cid_next_exp_seq_num_[c] - 1 :
          Has(taken, c, n) \/ Has(client_requests, c, n) \/ Has(W, c, n)
    BY <1>4 DEF SequencerInv, W
  <2>2. client_requests' = client_requests \o P
    BY <1>1 DEF P
  <2>. QED
    BY <1>2, <1>11, <2>1, <2>2
<1>13. Len(<< >>) = 0 /\ 1 .. 0 = {}
  OBVIOUS
<1>14. /\ Rising(Waiting(server')) /\ Before(taken', Waiting(server'))
       /\ Before(client_requests', Waiting(server'))
  BY <1>2, <1>13 DEF Rising, Before
<1>15. SequencerInv(server, IF pc = "read" THEN toRead ELSE {})'
  BY <1>2, <1>12, <1>13, <1>14 DEF SequencerInv
<1>16. Rising(client_requests)' /\ Before(taken, client_requests)'
  BY <1>1, <1>2, <1>10 DEF P
<1>17. ClientOrder'
  BY <1>2, ZenonT(30) DEF OrderInv, ClientOrder
<1>. QED
  BY <1>2, <1>15, <1>16, <1>17 DEF OrderInv

(* The first request of the engine's queue is its client's next one.       *)
LEMMA EngineOrder ==
  ASSUME ServerInv, OrderInv, MatchingEngine
  PROVE  OrderInv'
<1>. DEFINE m == client_requests[1]
            W == Waiting(server)
            n == Len(taken)
<1>1. /\ m \in ClientRequests /\ n \in Nat /\ Len(taken') = n + 1 /\ taken'[n + 1] = m
      /\ \A i \in 1 .. n : taken'[i] = taken[i]
      /\ \A i \in 1 .. n + 1 : i \in 1 .. n \/ i = n + 1
      /\ Len(client_requests) \in Nat \ {0} /\ 1 \in 1 .. Len(client_requests)
      /\ Len(client_requests') = Len(client_requests) - 1
      /\ \A i \in 1 .. Len(client_requests') :
           i + 1 \in 1 .. Len(client_requests) /\ client_requests'[i] = client_requests[i + 1]
      /\ UNCHANGED <<server, pc, toRead>>
  BY EngineTakes
<1>2. /\ Rising(client_requests) /\ Before(taken, client_requests) /\ ClientOrder
      /\ SequencerInv(server, ToBeRead)
      /\ Rising(W) /\ Before(taken, W) /\ Before(client_requests, W)
      /\ \A c \in Clients : \A k \in 1 .. server.cid_next_exp_seq_num_[c] - 1 :
           Has(taken, c, k) \/ Has(client_requests, c, k) \/ Has(W, c, k)
  BY DEF OrderInv, SequencerInv, ToBeRead
<1>3. /\ AllAccepted(server, taken) /\ AllAccepted(server, client_requests)
      /\ server \in Servers /\ taken \in Seq(ClientRequests)
  BY DEF ServerInv
<1>. HIDE DEF m, W, n
<1>4. Rising(client_requests')
  <2>1. ASSUME NEW i \in 1 .. Len(client_requests'), NEW j \in 1 .. Len(client_requests'), i < j,
               SameClient(client_requests'[i], client_requests'[j])
        PROVE  client_requests'[i].seq_num_ < client_requests'[j].seq_num_
    <3>1. /\ i + 1 \in 1 .. Len(client_requests) /\ client_requests'[i] = client_requests[i + 1]
          /\ j + 1 \in 1 .. Len(client_requests) /\ client_requests'[j] = client_requests[j + 1]
          /\ i + 1 < j + 1
      BY <1>1, <2>1
    <3>. QED
      BY <1>2, <2>1, <3>1 DEF Rising
  <2>. QED
    BY <2>1 DEF Rising
<1>5. ASSUME NEW ns, Before(taken, ns),
             \A j \in 1 .. Len(ns) : SameClient(m, ns[j]) => m.seq_num_ < ns[j].seq_num_
      PROVE  Before(taken', ns)
  <2>1. ASSUME NEW i \in 1 .. n + 1, NEW j \in 1 .. Len(ns), SameClient(taken'[i], ns[j])
        PROVE  taken'[i].seq_num_ < ns[j].seq_num_
    <3>1. CASE i \in 1 .. n
      BY <1>1, <1>5, <2>1, <3>1 DEF Before, n
    <3>2. CASE i = n + 1
      BY <1>1, <1>5, <2>1, <3>2
    <3>. QED
      BY <1>1, <3>1, <3>2
  <2>. QED
    BY <1>1, <2>1 DEF Before
<1>6. Before(taken', client_requests')
  <2>1. ASSUME NEW j \in 1 .. Len(client_requests'), SameClient(m, client_requests'[j])
        PROVE  m.seq_num_ < client_requests'[j].seq_num_
    <3>1. /\ j + 1 \in 1 .. Len(client_requests) /\ client_requests'[j] = client_requests[j + 1]
          /\ 1 < j + 1
      BY <1>1, <2>1
    <3>. QED
      BY <1>1, <1>2, <2>1, <3>1 DEF Rising, m
  <2>2. Before(taken, client_requests')
    <3>1. /\ \A i \in 1 .. Len(taken) : \E j \in 1 .. Len(taken) : taken[i] = taken[j]
          /\ \A i \in 1 .. Len(client_requests') :
               \E j \in 1 .. Len(client_requests) : client_requests'[i] = client_requests[j]
      BY <1>1
    <3>. QED
      BY <1>2, <3>1, BeforeParts
  <2>. QED
    BY <1>5, <2>1, <2>2
<1>7. Before(taken', W)
  <2>1. \A j \in 1 .. Len(W) : SameClient(m, W[j]) => m.seq_num_ < W[j].seq_num_
    BY <1>1, <1>2 DEF Before, m
  <2>. QED
    BY <1>2, <1>5, <2>1
<1>8. Before(client_requests', W)
  <2>1. /\ \A i \in 1 .. Len(W) : \E j \in 1 .. Len(W) : W[i] = W[j]
        /\ \A i \in 1 .. Len(client_requests') :
             \E j \in 1 .. Len(client_requests) : client_requests'[i] = client_requests[j]
    BY <1>1
  <2>. QED
    BY <1>2, <2>1, BeforeParts
<1>9. ASSUME NEW c, NEW k, Has(taken, c, k) \/ Has(client_requests, c, k)
      PROVE  Has(taken', c, k) \/ Has(client_requests', c, k)
  <2>1. CASE Has(taken, c, k)
    <3>1. PICK i \in 1 .. n : taken[i].client_id_ = c /\ taken[i].seq_num_ = k
      BY <2>1 DEF Has, n
    <3>2. i \in 1 .. n + 1 /\ taken'[i] = taken[i]
      BY <1>1
    <3>. QED
      BY <1>1, <3>1, <3>2 DEF Has
  <2>2. CASE Has(client_requests, c, k)
    <3>1. PICK i \in 1 .. Len(client_requests) :
            client_requests[i].client_id_ = c /\ client_requests[i].seq_num_ = k
      BY <2>2 DEF Has
    <3>2. CASE i = 1
      <4>1. n + 1 \in 1 .. n + 1
        BY <1>1
      <4>. QED
        BY <1>1, <3>1, <3>2, <4>1 DEF Has, m
    <3>3. CASE i # 1
      <4>. DEFINE j == i - 1
      <4>1. j \in 1 .. Len(client_requests') /\ j + 1 = i
        BY <1>1, <3>3
      <4>. HIDE DEF j
      <4>2. client_requests'[j] = client_requests[i]
        BY <1>1, <4>1
      <4>. QED
        BY <3>1, <4>1, <4>2 DEF Has
    <3>. QED
      BY <3>2, <3>3
  <2>. QED
    BY <1>9, <2>1, <2>2
<1>10. SequencerInv(server, ToBeRead)'
  <2>1. Waiting(server)' = W /\ ToBeRead' = ToBeRead
    BY <1>1 DEF Waiting, ToBeRead, W
  <2>2. Rising(W) /\ Before(taken', W) /\ Before(client_requests', W)
    BY <1>2, <1>7, <1>8
  <2>3. \A c \in Clients : \A k \in 1 .. server.cid_next_exp_seq_num_[c] - 1 :
          Has(taken', c, k) \/ Has(client_requests', c, k) \/ Has(W, c, k)
    BY <1>2, <1>9
  <2>4. LET pending == server.pending_client_requests_ IN
        \A i \in 1 .. Len(pending) :
          /\ server.cid_to_socket_[pending[i].request_.client_id_] \notin ToBeRead
          /\ \A j \in 1 .. Len(pending) : SameClient(pending[i].request_, pending[j].request_) =>
               pending[i].recv_time_ = pending[j].recv_time_
    BY <1>2 DEF SequencerInv
  <2>. QED
    BY <1>1, <2>1, <2>2, <2>3, <2>4, SequencerInvOf DEF SequencerOf, W
<1>11. ClientOrder'
  <2>1. ASSUME NEW i \in 1 .. n
        PROVE  /\ \A j \in 1 .. i - 1 : SameClient(taken'[j], taken'[i]) =>
                    taken'[j].run = taken'[i].run /\ taken'[j].seq_num_ < taken'[i].seq_num_
               /\ \A k \in 1 .. taken'[i].seq_num_ - 1 :
                    \E j \in 1 .. i - 1 : SameClient(taken'[j], taken'[i]) /\ taken'[j].seq_num_ = k
    <3>1. taken'[i] = taken[i] /\ \A j \in 1 .. i - 1 : taken'[j] = taken[j]
      BY <1>1
    <3>. QED
      BY <1>2, <3>1 DEF ClientOrder, n
  <2>2. ASSUME NEW j \in 1 .. n, SameClient(taken[j], m)
        PROVE  taken[j].run = m.run /\ taken[j].seq_num_ < m.seq_num_
    <3>1. taken[j].seq_num_ < m.seq_num_
      BY <1>1, <1>2, <2>2 DEF Before, m, n
    <3>2. /\ server.cid_to_socket_[taken[j].client_id_] = <<taken[j].client_id_, taken[j].run>>
          /\ server.cid_to_socket_[m.client_id_] = <<m.client_id_, m.run>>
      BY <1>1, <1>3 DEF AllAccepted, m, n
    <3>3. <<m.client_id_, taken[j].run>> = <<m.client_id_, m.run>>
      BY <2>2, <3>2 DEF SameClient
    <3>. QED
      BY <3>1, <3>3
  <2>3. ASSUME NEW k \in 1 .. m.seq_num_ - 1
        PROVE  \E j \in 1 .. n : SameClient(taken[j], m) /\ taken[j].seq_num_ = k
    <3>. DEFINE c == m.client_id_
    <3>1. c \in Clients /\ m.seq_num_ \in Nat
      BY <1>1 DEF ClientRequests
    <3>2. m.seq_num_ < server.cid_next_exp_seq_num_[c]
      BY <1>1, <1>3 DEF AllAccepted, m
    <3>3. server.cid_next_exp_seq_num_[c] \in Nat
      BY <1>3, <3>1 DEF Servers
    <3>4. k \in 1 .. server.cid_next_exp_seq_num_[c] - 1 /\ k < m.seq_num_ /\ k \in Nat
      BY <3>1, <3>2, <3>3
    <3>5. ~Has(client_requests, c, k)
      <4>1. SUFFICES ASSUME NEW i \in 1 .. Len(client_requests),
                            client_requests[i].client_id_ = c, client_requests[i].seq_num_ = k
                     PROVE  FALSE
        BY DEF Has
      <4>2. i # 1
        BY <3>1, <3>4, <4>1 DEF m
      <4>3. 1 < i
        BY <1>1, <4>2
      <4>4. m.seq_num_ < k
        BY <1>1, <1>2, <4>1, <4>3 DEF Rising, SameClient, m
      <4>. QED
        BY <3>1, <3>4, <4>4
    <3>6. ~Has(W, c, k)
      <4>1. SUFFICES ASSUME NEW i \in 1 .. Len(W), W[i].client_id_ = c, W[i].seq_num_ = k
                     PROVE  FALSE
        BY DEF Has
      <4>2. m.seq_num_ < k
        BY <1>1, <1>2, <4>1 DEF Before, SameClient, m
      <4>. QED
        BY <3>1, <3>4, <4>2
    <3>7. Has(taken, c, k)
      BY <1>2, <3>1, <3>4, <3>5, <3>6
    <3>. QED
      BY <3>7 DEF Has, SameClient, n
  <2>4. ASSUME NEW i \in 1 .. n + 1, i = n + 1
        PROVE  /\ \A j \in 1 .. i - 1 : SameClient(taken'[j], taken'[i]) =>
                    taken'[j].run = taken'[i].run /\ taken'[j].seq_num_ < taken'[i].seq_num_
               /\ \A k \in 1 .. taken'[i].seq_num_ - 1 :
                    \E j \in 1 .. i - 1 : SameClient(taken'[j], taken'[i]) /\ taken'[j].seq_num_ = k
    <3>1. i - 1 = n /\ taken'[i] = m /\ \A j \in 1 .. n : taken'[j] = taken[j]
      BY <1>1, <2>4
    <3>. QED
      BY <2>2, <2>3, <3>1
  <2>. QED
    BY <1>1, <2>1, <2>4 DEF ClientOrder
<1>. QED
  BY <1>1, <1>2, <1>4, <1>6, <1>10, <1>11 DEF OrderInv, ToBeRead

LEMMA OrderInit ==
  ASSUME Init
  PROVE  OrderInv
<1>1. Len(<< >>) = 0 /\ 1 .. 0 = {}
  OBVIOUS
<1>2. Waiting(server) = << >>
  BY DEF Init, Waiting
<1>3. Rising(<< >>) /\ Before(<< >>, << >>)
  BY <1>1 DEF Rising, Before
<1>4. \A c \in Clients : \A n \in 1 .. server.cid_next_exp_seq_num_[c] - 1 : FALSE
  <2>1. \A c \in Clients : server.cid_next_exp_seq_num_[c] = 1
    BY DEF Init
  <2>. QED
    BY <2>1
<1>5. ClientOrder
  BY <1>1 DEF Init, ClientOrder
<1>6. \A A : SequencerInv(server, A)
  BY <1>1, <1>2, <1>3, <1>4 DEF Init, SequencerInv
<1>. QED
  BY <1>3, <1>5, <1>6 DEF Init, OrderInv

LEMMA OrderStep ==
  ASSUME EntryInv, OrderInv, SortIsStable, [Next]_vars
  PROVE  OrderInv'
<1>1. UpInv /\ ServerInv /\ AnswersInv
  BY DEF EntryInv
<1>2. ASSUME UNCHANGED <<server, taken, client_requests, pc, toRead>>
      PROVE  OrderInv'
  BY <1>2, OrderUnchanged DEF ToBeRead
<1>3. ASSUME NEW c \in Clients, SendRequest(c) PROVE OrderInv'
  BY <1>2, <1>3 DEF SendRequest, engineVars
<1>4. ASSUME NEW c \in Clients, GatewaySendAndRecv(c) PROVE OrderInv'
  BY <1>2, <1>4 DEF GatewaySendAndRecv, engineVars
<1>5. ASSUME NEW c \in Clients, Restart(c) PROVE OrderInv'
  BY <1>2, <1>5 DEF Restart, engineVars
<1>6. CASE Poll
  BY <1>6, PollOrder
<1>7. ASSUME NEW s \in Sockets, ReadSocket(s) PROVE OrderInv'
  BY <1>1, <1>7, ReadSocketOrder
<1>8. CASE SequenceAndPublish
  BY <1>1, <1>8, SequenceOrder
<1>9. CASE SendResponse
  <2>1. UNCHANGED <<server, taken, client_requests, toRead>> /\ pc' = "respond" /\ pc = "respond"
    BY <1>1, <1>9, SendResponseStep DEF SendResponse
  <2>. QED
    BY <1>2, <2>1
<1>10. CASE NextRound
  <2>1. UNCHANGED <<server, taken, client_requests>> /\ pc' = "poll" /\ pc = "respond"
    BY <1>10 DEF NextRound, clientVars, engineVars
  <2>. QED
    BY <2>1, OrderUnchanged DEF ToBeRead
<1>11. CASE MatchingEngine
  BY <1>1, <1>11, EngineOrder
<1>12. CASE UNCHANGED vars
  BY <1>2, <1>12 DEF vars, engineVars
<1>. QED
  BY <1>3, <1>4, <1>5, <1>6, <1>7, <1>8, <1>9, <1>10, <1>11, <1>12 DEF Next, OrderServer

(* In a behaviour in which no round brings more requests than std::sort    *)
(* keeps in order, the requests of a round are in order of number within a *)
(* client and come after all that went before, and one client's share the  *)
(* time of its one read (FifoSequencer::sequenceAndPublish).               *)
THEOREM OrderInvariant == Spec /\ []SortIsStable => []OrderInv
<1>1. Init => OrderInv
  BY OrderInit
<1>2. EntryInv /\ OrderInv /\ SortIsStable /\ [Next]_vars => OrderInv'
  BY OrderStep
<1>. QED
  BY <1>1, <1>2, EntryInvariant, PTL DEF Spec

(* In a behaviour in which no round brings more requests than std::sort    *)
(* keeps in order, the matching engine gets each client's requests in the  *)
(* order the client sent them, each once and without a gap, all of one run *)
(* of the client (OrderServer::recvCallbacks, sequenceAndPublish).         *)
THEOREM RequestsComeInOrder == Spec /\ []SortIsStable => []ClientOrder
<1>1. OrderInv => ClientOrder
  BY DEF OrderInv
<1>. QED
  BY <1>1, OrderInvariant, PTL

(* What a request that is the q-th of its client asks for.                 *)
LEMMA RequestKinds ==
  ASSUME NEW m \in ClientRequests
  PROVE  /\ m.seq_num_ % 2 = 1 =>
              m.request.type_ = "NEW" /\ m.request.order_id_ = m.seq_num_ \div 2
         /\ m.seq_num_ % 2 # 1 =>
              /\ m.request.type_ = "CANCEL"
              /\ m.request.order_id_ \in 0 .. m.seq_num_ \div 2 - 1
         /\ m.seq_num_ \in Nat \ {0} /\ m.client_id_ \in Clients
<1>1. m.request \in RandomRequests(m.seq_num_) /\ m.seq_num_ \in Nat \ {0} /\ m.client_id_ \in Clients
  BY DEF ClientRequests
<1>. QED
  BY <1>1 DEF RandomRequests

(* Requests in order are what the book relies on.                          *)
LEMMA OrderMakesFresh ==
  ASSUME taken \in Seq(ClientRequests), ClientOrder
  PROVE  IdsAreFresh
<1>. DEFINE Given(i) == \E j \in 1 .. i - 1 :
                          /\ SameClient(taken[j], taken[i])
                          /\ taken[j].request.type_ = "NEW"
                          /\ taken[j].request.order_id_ = taken[i].request.order_id_
<1>1. ASSUME NEW i \in 1 .. Len(taken)
      PROVE  taken[i].request.type_ = "CANCEL" <=> Given(i)
  <2>. DEFINE m == taken[i]
              q == m.seq_num_
  <2>1. m \in ClientRequests /\ \A j \in 1 .. i - 1 : taken[j] \in ClientRequests
    <3>1. Len(taken) \in Nat /\ \A j \in 1 .. i - 1 : j \in 1 .. Len(taken)
      OBVIOUS
    <3>. QED
      BY <3>1, ElementOfSeq
  <2>2. /\ \A j \in 1 .. i - 1 : SameClient(taken[j], m) => taken[j].seq_num_ < q
        /\ \A n \in 1 .. q - 1 : \E j \in 1 .. i - 1 : SameClient(taken[j], m) /\ taken[j].seq_num_ = n
    BY DEF ClientOrder
  <2>3. q \in Nat \ {0}
    BY <2>1, RequestKinds
  <2>. HIDE DEF m, q
  <2>4. CASE q % 2 = 1
    <3>1. m.request.type_ = "NEW" /\ m.request.order_id_ = q \div 2
      BY <2>1, <2>4, RequestKinds DEF q
    <3>2. ASSUME NEW j \in 1 .. i - 1, SameClient(taken[j], m),
                 taken[j].request.type_ = "NEW", taken[j].request.order_id_ = m.request.order_id_
          PROVE  FALSE
      <4>. DEFINE p == taken[j].seq_num_
      <4>1. p < q /\ p \in Nat \ {0}
        BY <2>1, <2>2, <3>2, RequestKinds
      <4>2. p % 2 = 1 /\ taken[j].request.order_id_ = p \div 2
        BY <2>1, <3>2, RequestKinds
      <4>. HIDE DEF p
      <4>. QED
        BY <2>3, <2>4, <3>1, <3>2, <4>1, <4>2
    <3>3. ~Given(i)
      BY <3>2 DEF m
    <3>4. m.request.type_ # "CANCEL"
      BY <3>1
    <3>. QED
      BY <3>3, <3>4 DEF m
  <2>5. CASE q % 2 # 1
    <3>. DEFINE k == m.request.order_id_
                p == 2 * k + 1
    <3>1. m.request.type_ = "CANCEL" /\ k \in 0 .. q \div 2 - 1
      BY <2>1, <2>5, RequestKinds DEF q
    <3>2. p \in 1 .. q - 1 /\ p % 2 = 1 /\ p \div 2 = k
      BY <2>3, <2>5, <3>1, SMTT(30)
    <3>. HIDE DEF k, p
    <3>3. PICK j \in 1 .. i - 1 : SameClient(taken[j], m) /\ taken[j].seq_num_ = p
      BY <2>2, <3>2
    <3>4. taken[j].request.type_ = "NEW" /\ taken[j].request.order_id_ = k
      BY <2>1, <3>2, <3>3, RequestKinds
    <3>5. Given(i)
      BY <3>3, <3>4 DEF m, k
    <3>. QED
      BY <3>1, <3>5 DEF m
  <2>. QED
    BY <2>4, <2>5
<1>. QED
  BY <1>1 DEF IdsAreFresh

(* In such a behaviour the engine sees no order id of a client twice, and  *)
(* no cancel of an order it has not been given (RandomTrader::onTimer).    *)
THEOREM OrderIdsAreFresh == Spec /\ []SortIsStable => []IdsAreFresh
<1>1. EntryInv /\ ClientOrder => IdsAreFresh
  BY OrderMakesFresh DEF EntryInv, ServerInv
<1>. QED
  BY <1>1, EntryInvariant, RequestsComeInOrder, PTL
============================================================================
