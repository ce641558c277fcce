----------------------------- MODULE FoldLemmas -----------------------------
(***************************************************************************)
(* What FoldLeft computes: the loops of the code over the messages of a    *)
(* queue or a buffer are folds over sequences, and the proofs take them    *)
(* apart one message at a time.  Op is the body of the loop.               *)
(***************************************************************************)
EXTENDS Integers, Sequences, SequencesExt, WellFoundedInduction, TLAPS

CONSTANT Op(_, _)

Fold(base, seq) == FoldLeft(Op, base, seq)

(* The states of the loop: before the first message, after each of them.   *)
IsTrace(g, base, seq) ==
  g = [k \in 0 .. Len(seq) |-> IF k = 0 THEN base ELSE Op(g[k - 1], seq[k])]

(* The function that FoldLeft defines, on the subsets of `dom'.            *)
IsIter(h, base, seq, dom) ==
  h = [s \in SUBSET dom |->
         IF s = {} THEN base ELSE LET x == Max(s) IN Op(h[s \ {x}], seq[x])]

(* A non-empty set of numbers has a smallest one.                          *)
LEMMA SmallestNumber ==
  ASSUME NEW S \in SUBSET Nat, S # {}
  PROVE  \E x \in S : \A y \in S : x <= y
<1>. DEFINE R == {ss \in Nat \X Nat : ss[1] < ss[2]}
<1>1. IsWellFoundedOn(R, Nat)
  BY NatLessThanWellFounded DEF OpToRel
<1>2. PICK x \in S : \A y \in S : <<y, x>> \notin R
  BY <1>1, WFMin
<1>3. ASSUME NEW y \in S PROVE x <= y
  <2>1. x \in Nat /\ y \in Nat /\ <<y, x>> \notin R
    BY <1>2
  <2>2. ~(y < x)
    BY <2>1
  <2>. QED
    BY <2>1, <2>2
<1>. QED
  BY <1>3

(* The last number of a set that has it.                                   *)
LEMMA LastIsMax ==
  ASSUME NEW n \in Nat, NEW s \in SUBSET (1 .. n), n \in s
  PROVE  Max(s) = n
<1>1. \A x \in s : n >= x
  OBVIOUS
<1>2. \A x \in s : x >= n => x = n
  OBVIOUS
<1>. QED
  BY <1>1, <1>2 DEF Max

(* The function that FoldLeft defines exists, by the length of the         *)
(* sequence: were there a length without one, the one before it would give *)
(* one.                                                                    *)
LEMMA IterExists ==
  ASSUME NEW base, NEW seq, NEW n \in Nat
  PROVE  \E h : IsIter(h, base, seq, 1 .. n)
<1>. DEFINE Bad == {m \in Nat : ~ \E h : IsIter(h, base, seq, 1 .. m)}
<1>. SUFFICES ASSUME Bad # {} PROVE FALSE
  OBVIOUS
<1>1. PICK m \in Bad : \A k \in Bad : m <= k
  BY SmallestNumber
<1>2. m # 0
  <2>. DEFINE h == [s \in SUBSET (1 .. 0) |-> base]
  <2>1. \A s \in SUBSET (1 .. 0) : s = {}
    OBVIOUS
  <2>2. IsIter(h, base, seq, 1 .. 0)
    BY <2>1, Zenon DEF IsIter
  <2>. QED
    BY <2>2
<1>3. m - 1 \in Nat /\ m - 1 \notin Bad
  BY <1>1, <1>2
<1>4. PICK h : IsIter(h, base, seq, 1 .. m - 1)
  BY <1>3
<1>. DEFINE g == [s \in SUBSET (1 .. m) |->
                    IF m \in s THEN Op(h[s \ {m}], seq[m]) ELSE h[s]]
            step(s) == IF s = {} THEN base ELSE LET x == Max(s) IN Op(g[s \ {x}], seq[x])
<1>5. \A s \in SUBSET (1 .. m) : m \notin s => s \in SUBSET (1 .. m - 1) /\ g[s] = h[s]
  OBVIOUS
<1>6. ASSUME NEW s \in SUBSET (1 .. m) PROVE g[s] = step(s)
  <2>1. CASE m \in s
    <3>1. Max(s) = m
      BY <2>1, LastIsMax
    <3>2. s \ {m} \in SUBSET (1 .. m) /\ m \notin s \ {m}
      OBVIOUS
    <3>3. g[s \ {m}] = h[s \ {m}]
      BY <3>2, <1>5
    <3>. QED
      BY <2>1, <3>1, <3>3
  <2>2. CASE m \notin s
    <3>1. s \in SUBSET (1 .. m - 1) /\ g[s] = h[s]
      BY <2>2, <1>5
    <3>2. CASE s = {}
      BY <3>1, <3>2, <1>4 DEF IsIter
    <3>3. CASE s # {}
      <4>. DEFINE x == Max(s)
      <4>1. h[s] = Op(h[s \ {x}], seq[x])
        BY <3>1, <3>3, <1>4 DEF IsIter
      <4>2. s \ {x} \in SUBSET (1 .. m) /\ m \notin s \ {x}
        BY <2>2
      <4>3. g[s \ {x}] = h[s \ {x}]
        BY <4>2, <1>5
      <4>. QED
        BY <3>1, <3>3, <4>1, <4>3
    <3>. QED
      BY <3>2, <3>3
  <2>. QED
    BY <2>1, <2>2
<1>7. IsIter(g, base, seq, 1 .. m)
  <2>1. g = [s \in SUBSET (1 .. m) |-> g[s]]
    OBVIOUS
  <2>. HIDE DEF g
  <2>. QED
    BY <1>6, <2>1 DEF IsIter
<1>. QED
  BY <1>7

(* The first state of a loop and its rounds.                               *)
LEMMA TraceRounds ==
  ASSUME NEW S, NEW seq \in Seq(S), NEW base, NEW g, IsTrace(g, base, seq)
  PROVE  /\ g[0] = base
         /\ \A k \in 1 .. Len(seq) : g[k] = Op(g[k - 1], seq[k])
<1>1. Len(seq) \in Nat
  OBVIOUS
<1>2. \A k \in 0 .. Len(seq) : g[k] = IF k = 0 THEN base ELSE Op(g[k - 1], seq[k])
  BY DEF IsTrace
<1>3. 0 \in 0 .. Len(seq)
  BY <1>1
<1>4. \A k \in 1 .. Len(seq) : k \in 0 .. Len(seq) /\ k # 0
  BY <1>1
<1>. QED
  BY <1>2, <1>3, <1>4

(* FoldLeft is the end of a loop.                                          *)
THEOREM FoldTrace ==
  ASSUME NEW S, NEW seq \in Seq(S), NEW base
  PROVE  \E g : IsTrace(g, base, seq) /\ Fold(base, seq) = g[Len(seq)]
<1>. DEFINE n  == Len(seq)
            It == CHOOSE h : IsIter(h, base, seq, 1 .. n)
            g  == [k \in 0 .. n |-> It[1 .. k]]
<1>1. n \in Nat /\ DOMAIN seq = 1 .. n
  OBVIOUS
<1>2. IsIter(It, base, seq, 1 .. n)
  <2>1. \E h : IsIter(h, base, seq, 1 .. n)
    BY <1>1, IterExists
  <2>. QED
    BY <2>1
<1>3. Fold(base, seq) = It[1 .. n]
  <2>1. Fold(base, seq) = (CHOOSE h : IsIter(h, base, seq, DOMAIN seq))[DOMAIN seq]
    BY Zenon DEF Fold, FoldLeft, MapThenFoldSet, IsIter
  <2>. QED
    BY <2>1, <1>1
<1>. HIDE DEF It
<1>4. ASSUME NEW k \in 0 .. n
      PROVE  It[1 .. k] = IF k = 0 THEN base ELSE Op(It[1 .. k - 1], seq[k])
  <2>1. 1 .. k \in SUBSET (1 .. n)
    BY <1>1
  <2>2. CASE k = 0
    <3>1. 1 .. k = {}
      BY <2>2
    <3>. QED
      BY <2>1, <2>2, <3>1, <1>2 DEF IsIter
  <2>3. CASE k # 0
    <3>1. k \in Nat /\ k \in 1 .. k /\ (1 .. k) \ {k} = 1 .. k - 1
      BY <2>3
    <3>2. Max(1 .. k) = k
      BY <3>1, LastIsMax
    <3>3. It[1 .. k] = Op(It[(1 .. k) \ {k}], seq[k])
      <4>1. 1 .. k # {}
        BY <3>1
      <4>. QED
        BY <2>1, <3>2, <4>1, <1>2 DEF IsIter
    <3>. QED
      BY <2>3, <3>1, <3>3
  <2>. QED
    BY <2>2, <2>3
<1>5. IsTrace(g, base, seq)
  <2>1. \A k \in 0 .. n : k # 0 => k - 1 \in 0 .. n
    BY <1>1
  <2>. QED
    BY <1>4, <2>1 DEF IsTrace
<1>6. n \in 0 .. n
  BY <1>1
<1>. QED
  BY <1>3, <1>5, <1>6

(* Two loops that begin alike and have the same messages go alike.         *)
THEOREM TracesAgree ==
  ASSUME NEW S, NEW s \in Seq(S), NEW t \in Seq(S), NEW base, NEW other, NEW f, NEW g,
         IsTrace(f, base, s), IsTrace(g, other, t),
         NEW d \in Nat, Len(s) + d <= Len(t), g[d] = base,
         \A k \in 1 .. Len(s) : t[k + d] = s[k]
  PROVE  g[Len(s) + d] = f[Len(s)]
<1>. DEFINE n   == Len(s)
            Bad == {k \in 0 .. n : g[k + d] # f[k]}
<1>. SUFFICES ASSUME Bad # {} PROVE FALSE
  OBVIOUS
<1>0. Bad \in SUBSET Nat
  OBVIOUS
<1>1. PICK m \in Bad : \A k \in Bad : m <= k
  <2>. HIDE DEF Bad
  <2>. QED
    BY <1>0, SmallestNumber
<1>3. m # 0
  BY <1>1, TraceRounds
<1>2. /\ m \in 1 .. Len(s) /\ m + d \in 1 .. Len(t) /\ m \in 1 .. n
      /\ f[m] = Op(f[m - 1], s[m])
      /\ g[m + d] = Op(g[m + d - 1], t[m + d])
  <2>1. /\ m \in 1 .. Len(s) /\ m + d \in 1 .. Len(t) /\ m \in 1 .. n
    BY <1>3
  <2>. QED
    BY <2>1, TraceRounds
<1>4. m - 1 \in 0 .. n /\ m - 1 \notin Bad
  BY <1>1, <1>2, <1>3
<1>5. g[(m - 1) + d] = f[m - 1]
  BY <1>4
<1>6. (m - 1) + d = m + d - 1
  BY <1>2
<1>7. g[m + d] = f[m]
  BY <1>2, <1>3, <1>5, <1>6
<1>. QED
  BY <1>1, <1>7

(* The loop ends where a trace ends.                                       *)
THEOREM FoldEnd ==
  ASSUME NEW S, NEW seq \in Seq(S), NEW base, NEW g, IsTrace(g, base, seq)
  PROVE  Fold(base, seq) = g[Len(seq)]
<1>1. PICK f : IsTrace(f, base, seq) /\ Fold(base, seq) = f[Len(seq)]
  BY FoldTrace
<1>2. g[0] = base
  BY DEF IsTrace
<1>3. g[Len(seq) + 0] = f[Len(seq)]
  BY <1>1, <1>2, TracesAgree
<1>. QED
  BY <1>1, <1>3

(* No message, no change.                                                  *)
THEOREM FoldEmpty ==
  ASSUME NEW base
  PROVE  Fold(base, << >>) = base
<1>. DEFINE none == << >>
<1>1. none \in Seq(Nat) /\ Len(none) = 0
  OBVIOUS
<1>. HIDE DEF none
<1>2. PICK g : IsTrace(g, base, none) /\ Fold(base, none) = g[0]
  BY <1>1, FoldTrace
<1>3. g[0] = base
  <2>1. 0 \in 0 .. Len(none)
    BY <1>1
  <2>. QED
    BY <1>2, <2>1 DEF IsTrace
<1>. QED
  BY <1>2, <1>3 DEF none

(* One message more: one more round of the loop.                           *)
THEOREM FoldAppend ==
  ASSUME NEW S, NEW seq \in Seq(S), NEW m \in S, NEW base
  PROVE  Fold(base, Append(seq, m)) = Op(Fold(base, seq), m)
<1>. DEFINE t == Append(seq, m)
            n == Len(seq)
<1>1. t \in Seq(S) /\ Len(t) = n + 1 /\ n \in Nat /\ t[n + 1] = m
      /\ \A k \in 1 .. n : t[k] = seq[k]
  OBVIOUS
<1>. HIDE DEF t
<1>2. PICK f : IsTrace(f, base, seq) /\ Fold(base, seq) = f[n]
  BY FoldTrace
<1>3. PICK g : IsTrace(g, base, t) /\ Fold(base, t) = g[n + 1]
  BY <1>1, FoldTrace
<1>4. g[0] = base /\ g[n + 1] = Op(g[n], t[n + 1])
  <2>1. n + 1 \in 1 .. Len(t) /\ (n + 1) - 1 = n
    BY <1>1
  <2>. QED
    BY <1>1, <1>3, <2>1, TraceRounds
<1>5. g[Len(seq) + 0] = f[Len(seq)]
  <2>1. 0 \in Nat /\ Len(seq) + 0 <= Len(t) /\ \A k \in 1 .. Len(seq) : t[k + 0] = seq[k]
    BY <1>1
  <2>. QED
    BY <1>1, <1>2, <1>3, <1>4, <2>1, TracesAgree
<1>6. g[n] = f[n]
  BY <1>1, <1>5
<1>. QED
  BY <1>1, <1>2, <1>3, <1>4, <1>6 DEF t

(* The first message is taken first.                                       *)
THEOREM FoldFirst ==
  ASSUME NEW S, NEW seq \in Seq(S), seq # << >>, NEW base
  PROVE  Fold(base, seq) = Fold(Op(base, Head(seq)), Tail(seq))
<1>. DEFINE t == Tail(seq)
            n == Len(t)
            b == Op(base, Head(seq))
<1>1. t \in Seq(S) /\ Len(seq) = n + 1 /\ n \in Nat /\ Head(seq) = seq[1]
      /\ \A k \in 1 .. n : seq[k + 1] = t[k]
  OBVIOUS
<1>. HIDE DEF t, b
<1>2. PICK f : IsTrace(f, b, t) /\ Fold(b, t) = f[n]
  BY <1>1, FoldTrace
<1>3. PICK g : IsTrace(g, base, seq) /\ Fold(base, seq) = g[n + 1]
  BY <1>1, FoldTrace
<1>4. g[0] = base /\ g[1] = Op(g[0], seq[1])
  <2>1. 1 \in 1 .. Len(seq) /\ 1 - 1 = 0
    BY <1>1
  <2>. QED
    BY <1>3, <2>1, TraceRounds
<1>5. g[1] = b
  BY <1>1, <1>4 DEF b
<1>6. g[Len(t) + 1] = f[Len(t)]
  <2>1. 1 \in Nat /\ Len(t) + 1 <= Len(seq) /\ \A k \in 1 .. Len(t) : seq[k + 1] = t[k]
    BY <1>1
  <2>. QED
    BY <1>1, <1>2, <1>3, <1>5, <2>1, TracesAgree
<1>7. g[n + 1] = f[n]
  BY <1>6
<1>. QED
  BY <1>2, <1>3, <1>7 DEF t, b

(* What every round keeps, the loop keeps.                                 *)
THEOREM FoldKeeps ==
  ASSUME NEW S, NEW seq \in Seq(S), NEW P, NEW base \in P,
         \A x \in P : \A k \in 1 .. Len(seq) : Op(x, seq[k]) \in P
  PROVE  Fold(base, seq) \in P
<1>1. PICK g : IsTrace(g, base, seq) /\ Fold(base, seq) = g[Len(seq)]
  BY FoldTrace
<1>. DEFINE Bad == {k \in 0 .. Len(seq) : g[k] \notin P}
<1>2. Bad = {}
  <2>. SUFFICES ASSUME Bad # {} PROVE FALSE
    OBVIOUS
  <2>0. Bad \in SUBSET Nat
    OBVIOUS
  <2>1. PICK m \in Bad : \A k \in Bad : m <= k
    <3>. HIDE DEF Bad
    <3>. QED
      BY <2>0, SmallestNumber
  <2>3. m # 0
    BY <1>1, TraceRounds
  <2>2. m \in 1 .. Len(seq) /\ g[m] = Op(g[m - 1], seq[m])
    <3>1. m \in 1 .. Len(seq)
      BY <2>3
    <3>. QED
      BY <1>1, <3>1, TraceRounds
  <2>4. m - 1 \in 0 .. Len(seq) /\ m - 1 \notin Bad /\ m \in 1 .. Len(seq)
    BY <2>1, <2>2, <2>3
  <2>5. g[m - 1] \in P
    BY <2>4
  <2>6. g[m] \in P
    BY <2>2, <2>3, <2>4, <2>5
  <2>. QED
    BY <2>1, <2>6
<1>. QED
  BY <1>1, <1>2
============================================================================
