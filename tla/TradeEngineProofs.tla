------------------------- MODULE TradeEngineProofs -------------------------
(***************************************************************************)
(* A participant's book is the exchange's as soon as it has handled what   *)
(* is under way, and what the algorithms name follows from the market,     *)
(* whatever the prices, quantities, pool sizes and recoveries, as long as  *)
(* no two prices in use share an entry of the price index (NoAlias).       *)
(*                                                                         *)
(* The first part is about sums over sequences, the second about books     *)
(* and what one update does to them, the third about the steps.            *)
(***************************************************************************)
EXTENDS TradeEngine, FiniteSetTheorems, SequenceTheorems, TLAPS

F == INSTANCE FoldLemmas WITH Op <- Plus

----------------------------------------------------------------------------
(* Sums.                                                                   *)

(* The sums of the beginnings of a sequence.                               *)
Sums(g, qtys) ==
  /\ g[0] = 0
  /\ \A k \in 1 .. Len(qtys) : g[k - 1] \in Nat /\ g[k] = g[k - 1] + qtys[k]
  /\ g[Len(qtys)] = Total(qtys)

(* The loop over a level's orders goes through them.                       *)
LEMMA SumsExist ==
  ASSUME NEW qtys \in Seq(Nat)
  PROVE  \E g : Sums(g, qtys)
<1>1. PICK g : F!IsTrace(g, 0, qtys) /\ F!Fold(0, qtys) = g[Len(qtys)]
  BY F!FoldTrace
<1>2. g[0] = 0 /\ \A k \in 1 .. Len(qtys) : g[k] = Plus(g[k - 1], qtys[k])
  BY <1>1, F!TraceRounds
<1>3. Total(qtys) = F!Fold(0, qtys)
  BY Zenon DEF Total, FoldLeft, MapThenFoldSet, Max, F!Fold, F!FoldLeft, F!MapThenFoldSet, F!Max
<1>4. Len(qtys) \in Nat /\ \A k \in 1 .. Len(qtys) : qtys[k] \in Nat
  OBVIOUS
<1>. DEFINE Bad == {k \in 0 .. Len(qtys) : g[k] \notin Nat}
<1>5. Bad = {}
  <2>. SUFFICES ASSUME Bad # {} PROVE FALSE
    OBVIOUS
  <2>1. Bad \in SUBSET Nat
    BY <1>4
  <2>2. PICK k \in Bad : \A j \in Bad : k <= j
    BY <2>1, F!SmallestNumber
  <2>3. k \in 0 .. Len(qtys) /\ g[k] \notin Nat
    OBVIOUS
  <2>4. k \in 1 .. Len(qtys)
    BY <1>2, <1>4, <2>3
  <2>5. k - 1 \in 0 .. Len(qtys) /\ ~(k <= k - 1)
    BY <1>4, <2>4
  <2>6. g[k - 1] \in Nat
    BY <2>2, <2>5
  <2>7. g[k] = g[k - 1] + qtys[k] /\ qtys[k] \in Nat
    BY <1>2, <1>4, <2>4 DEF Plus
  <2>. QED
    BY <2>3, <2>6, <2>7
<1>6. \A k \in 1 .. Len(qtys) : g[k - 1] \in Nat
  BY <1>4, <1>5
<1>. QED
  BY <1>1, <1>2, <1>3, <1>6 DEF Sums, Plus

(* A sum of quantities is a quantity.                                      *)
LEMMA TotalType ==
  ASSUME NEW qtys \in Seq(Nat)
  PROVE  Total(qtys) \in Nat
<1>1. PICK g : Sums(g, qtys)
  BY SumsExist
<1>2. Len(qtys) \in Nat
  OBVIOUS
<1>3. CASE Len(qtys) = 0
  BY <1>1, <1>3 DEF Sums
<1>4. CASE Len(qtys) # 0
  <2>1. Len(qtys) \in 1 .. Len(qtys)
    BY <1>2, <1>4
  <2>2. qtys[Len(qtys)] \in Nat
    BY <2>1
  <2>. QED
    BY <1>1, <2>1, <2>2 DEF Sums
<1>. QED
  BY <1>3, <1>4

(* Leaving out zeros does not change a sum: f gives the place of each      *)
(* number of s in t.                                                       *)
LEMMA SameTotal ==
  ASSUME NEW s \in Seq(Nat), NEW t \in Seq(Nat), NEW f \in [1 .. Len(s) -> 1 .. Len(t)],
         \A j, k \in 1 .. Len(s) : j < k => f[j] < f[k],
         \A k \in 1 .. Len(s) : s[k] = t[f[k]],
         \A i \in 1 .. Len(t) : t[i] # 0 => \E k \in 1 .. Len(s) : f[k] = i
  PROVE  Total(s) = Total(t)
<1>1. PICK g : Sums(g, s)
  BY SumsExist
<1>2. PICK h : Sums(h, t)
  BY SumsExist
<1>3. Len(s) \in Nat /\ Len(t) \in Nat
  OBVIOUS
<1>4. \A k \in 1 .. Len(s) : f[k] \in 1 .. Len(t)
  OBVIOUS
<1>. DEFINE Upto(m, n) == \A k \in 1 .. Len(s) : k <= m <=> f[k] <= n
            Bad == {n \in 0 .. Len(t) : \E m \in 0 .. Len(s) : Upto(m, n) /\ g[m] # h[n]}
<1>5. Bad = {}
  <2>. SUFFICES ASSUME Bad # {} PROVE FALSE
    OBVIOUS
  <2>1. Bad \in SUBSET Nat
    BY <1>3
  <2>2. PICK n \in Bad : \A j \in Bad : n <= j
    BY <2>1, F!SmallestNumber
  <2>3. PICK m \in 0 .. Len(s) : Upto(m, n) /\ g[m] # h[n]
    OBVIOUS
  <2>4. n \in 0 .. Len(t) /\ n \in Nat /\ m \in Nat
    BY <1>3
  <2>5. ASSUME NEW l \in 0 .. Len(s), n - 1 \in 0 .. Len(t), Upto(l, n - 1)
         PROVE  g[l] = h[n - 1]
    <3>1. ~(n <= n - 1)
      BY <2>4
    <3>2. n - 1 \notin Bad
      BY <2>2, <3>1
    <3>. QED
      BY <2>5, <3>2
  <2>. HIDE DEF Bad
  <2>6. CASE n = 0
    <3>1. m = 0
      <4>. SUFFICES ASSUME m # 0 PROVE FALSE
        OBVIOUS
      <4>1. m \in 1 .. Len(s)
        BY <1>3
      <4>. QED
        BY <4>1, <2>3, <2>6, <2>4, <1>4
    <3>. QED
      BY <1>1, <1>2, <2>3, <2>6, <3>1 DEF Sums
  <2>7. CASE n # 0 /\ \E k \in 1 .. Len(s) : f[k] = n
    <3>1. PICK k \in 1 .. Len(s) : f[k] = n
      BY <2>7
    <3>2. k = m
      <4>1. k <= m
        BY <2>3, <2>4, <3>1
      <4>2. m \in 1 .. Len(s) /\ f[m] <= n
        BY <1>3, <2>3, <4>1
      <4>3. k < m => f[k] < f[m]
        BY <3>1, <4>2
      <4>4. f[m] \in Nat /\ k \in Nat
        BY <1>3, <1>4, <4>2
      <4>. QED
        BY <2>4, <3>1, <4>1, <4>2, <4>3, <4>4
    <3>3. n - 1 \in 0 .. Len(t) /\ m - 1 \in 0 .. Len(s)
      BY <1>3, <2>4, <2>7, <3>2
    <3>4. Upto(m - 1, n - 1)
      <4>. SUFFICES ASSUME NEW j \in 1 .. Len(s) PROVE j <= m - 1 <=> f[j] <= n - 1
        OBVIOUS
      <4>1. f[j] \in Nat /\ f[m] = n /\ m \in 1 .. Len(s) /\ m \in Nat /\ n \in Nat /\ j \in Nat
        BY <1>3, <1>4, <2>4, <3>1, <3>2
      <4>2. j <= m <=> f[j] <= n
        BY <2>3
      <4>3. j < m => f[j] < n
        BY <4>1
      <4>4. f[j] # n => j # m
        BY <3>1, <3>2
      <4>. QED
        BY <4>1, <4>2, <4>3, <4>4
    <3>5. g[m - 1] = h[n - 1]
      BY <2>5, <3>3, <3>4
    <3>6. g[m] = g[m - 1] + s[m] /\ h[n] = h[n - 1] + t[n] /\ s[m] = t[n]
      BY <1>1, <1>2, <2>7, <3>1, <3>2 DEF Sums
    <3>. QED
      BY <2>3, <3>5, <3>6
  <2>8. CASE n # 0 /\ ~ \E k \in 1 .. Len(s) : f[k] = n
    <3>1. n \in 1 .. Len(t) /\ t[n] = 0
      BY <1>3, <2>8, <2>4
    <3>2. n - 1 \in 0 .. Len(t)
      BY <1>3, <2>4, <2>8
    <3>3. Upto(m, n - 1)
      <4>. SUFFICES ASSUME NEW j \in 1 .. Len(s) PROVE j <= m <=> f[j] <= n - 1
        OBVIOUS
      <4>1. f[j] \in Nat /\ f[j] # n /\ (j <= m <=> f[j] <= n)
        BY <1>4, <2>3, <2>8
      <4>. QED
        BY <2>4, <4>1
    <3>4. g[m] = h[n - 1]
      BY <2>5, <3>2, <3>3
    <3>5. h[n] = h[n - 1] + t[n] /\ h[n - 1] \in Nat
      BY <1>2, <3>1 DEF Sums
    <3>. QED
      BY <2>3, <3>1, <3>4, <3>5
  <2>. QED
    BY <2>6, <2>7, <2>8
<1>6. Upto(Len(s), Len(t)) /\ Len(s) \in 0 .. Len(s) /\ Len(t) \in 0 .. Len(t)
  BY <1>3, <1>4
<1>7. g[Len(s)] = h[Len(t)]
  BY <1>5, <1>6
<1>. QED
  BY <1>1, <1>2, <1>7 DEF Sums

----------------------------------------------------------------------------
(* Books: what is where.                                                   *)

(* The price of an entry of the price index.                               *)
PriceOf(b, i) == b.oid_to_price_level_[i].price_

(* On either side, as good as is a total order of the prices.              *)
LEMMA PriceOrder ==
  ASSUME NEW s, NEW p \in Nat, NEW q \in Nat
  PROVE  /\ AsGood(s, p, p)
         /\ AsGood(s, p, q) \/ AsGood(s, q, p)
         /\ AsGood(s, p, q) /\ AsGood(s, q, p) => p = q
         /\ \A r \in Nat : AsGood(s, p, q) /\ AsGood(s, q, r) => AsGood(s, p, r)
BY DEF AsGood

(* A level in the price index, with what LevelOK says of it.               *)
LEMMA LevelFacts ==
  ASSUME NEW b, BookOK(b), NEW i \in Indexes, b.oid_to_price_level_[i] # NULL
  PROVE  LET l == b.oid_to_price_level_[i] IN
         /\ l \in MarketOrdersAtPrice /\ l.side_ \in Side
         /\ l.price_ \in Prices /\ PriceOf(b, i) \in Nat
         /\ l.orders \in Seq(OrderIds) /\ Len(l.orders) \in Nat
         /\ \A k \in 1 .. Len(l.orders) : l.orders[k] \in OrderIds /\ l.orders[k] \in Nat
         /\ LevelOK(b, i)
<1>. DEFINE l == b.oid_to_price_level_[i]
<1>1. l \in MarketOrdersAtPrice /\ LevelOK(b, i)
  BY DEF BookOK
<1>2. l.side_ \in Side /\ l.price_ \in Prices /\ l.orders \in Seq(OrderIds)
  BY <1>1 DEF MarketOrdersAtPrice
<1>3. PriceOf(b, i) \in Nat
  BY <1>2, ClientBookAssumption DEF PriceOf
<1>. HIDE DEF l
<1>4. Len(l.orders) \in Nat /\ \A k \in 1 .. Len(l.orders) : l.orders[k] \in OrderIds
  BY <1>2
<1>5. OrderIds \subseteq Nat
  BY ClientBookAssumption DEF OrderIds
<1>. QED
  BY <1>1, <1>2, <1>3, <1>4, <1>5 DEF l

(* An order of the book, with what OrderOK says of it.                     *)
LEMMA OrderFacts ==
  ASSUME NEW b, BookOK(b), NEW id \in OrderIds, b.oid_to_order_[id] # NULL
  PROVE  LET o == b.oid_to_order_[id] IN
         /\ o \in MarketOrders /\ o.side_ \in Side /\ o.price_ \in Prices /\ o.price_ \in Nat
         /\ o.qty_ \in Qtys /\ o.qty_ \in Nat /\ o.order_id_ = id
         /\ priceToIndex(o.price_) \in Indexes
         /\ b.oid_to_price_level_[priceToIndex(o.price_)] # NULL
         /\ OrderOK(b, id)
<1>. DEFINE o == b.oid_to_order_[id]
<1>1. o \in MarketOrders /\ OrderOK(b, id)
  BY DEF BookOK
<1>2. o.side_ \in Side /\ o.price_ \in Prices /\ o.qty_ \in Qtys
  BY <1>1 DEF MarketOrders
<1>3. o.price_ \in Nat /\ o.qty_ \in Nat
  BY <1>2, ClientBookAssumption
<1>4. priceToIndex(o.price_) \in Indexes
  BY <1>3, ClientBookAssumption DEF priceToIndex, Indexes
<1>5. o.order_id_ = id /\ b.oid_to_price_level_[priceToIndex(o.price_)] # NULL
  BY <1>1 DEF OrderOK
<1>. QED
  BY <1>1, <1>2, <1>3, <1>4, <1>5

(* A side with levels has a best one, ...                                  *)
LEMMA BestExists ==
  ASSUME NEW b, BookOK(b), NEW s \in Side, LevelsOf(b, s) # {}
  PROVE  \E i \in LevelsOf(b, s) :
           \A j \in LevelsOf(b, s) : AsGood(s, PriceOf(b, i), PriceOf(b, j))
<1>. DEFINE L == LevelsOf(b, s)
            Best(n, i) == i \in L /\ i < n /\ \A j \in L : j < n => AsGood(s, PriceOf(b, i), PriceOf(b, j))
            Bad == {n \in Nat : (\E j \in L : j < n) /\ ~ \E i \in L : Best(n, i)}
<1>1. L \subseteq Indexes /\ \A i \in L : i \in Nat /\ i < ME_MAX_PRICE_LEVELS
  BY ClientBookAssumption DEF LevelsOf, Indexes
<1>2. \A i \in L : PriceOf(b, i) \in Nat
  BY <1>1, LevelFacts DEF LevelsOf
<1>. HIDE DEF L
<1>3. Bad = {}
  <2>. SUFFICES ASSUME Bad # {} PROVE FALSE
    OBVIOUS
  <2>1. PICK n \in Bad : \A j \in Bad : n <= j
    BY F!SmallestNumber
  <2>2. n \in Nat /\ (\E j \in L : j < n) /\ ~ \E i \in L : Best(n, i)
    OBVIOUS
  <2>3. n # 0 /\ n - 1 \in Nat /\ ~(n <= n - 1)
    BY <1>1, <2>2
  <2>4. ASSUME NEW j \in Nat, j < n PROVE j < n - 1 \/ j = n - 1
    BY <2>2, <2>4
  <2>5. n - 1 \notin Bad
    BY <2>1, <2>3
  <2>6. CASE ~ \E j \in L : j < n - 1
    <3>1. PICK i \in L : i < n
      BY <2>2
    <3>2. \A j \in L : j < n => j = i
      BY <1>1, <2>2, <2>6, <3>1
    <3>3. AsGood(s, PriceOf(b, i), PriceOf(b, i))
      BY <1>2, PriceOrder
    <3>. QED
      BY <2>2, <3>1, <3>2, <3>3
  <2>7. CASE \E j \in L : j < n - 1
    <3>1. PICK i \in L : Best(n - 1, i)
      BY <2>3, <2>5, <2>7
    <3>2. i < n /\ i \in Nat
      BY <1>1, <2>2, <3>1
    <3>3. CASE n - 1 \in L /\ ~AsGood(s, PriceOf(b, i), PriceOf(b, n - 1))
      <4>1. AsGood(s, PriceOf(b, n - 1), PriceOf(b, i))
        BY <1>2, <3>3, PriceOrder
      <4>2. ASSUME NEW j \in L, j < n PROVE AsGood(s, PriceOf(b, n - 1), PriceOf(b, j))
        <5>1. j < n - 1 \/ j = n - 1
          BY <1>1, <2>4, <4>2
        <5>2. PriceOf(b, j) \in Nat /\ PriceOf(b, i) \in Nat /\ PriceOf(b, n - 1) \in Nat
          BY <1>2, <3>3
        <5>3. CASE j < n - 1
          BY <3>1, <4>1, <5>2, <5>3, PriceOrder
        <5>4. CASE j = n - 1
          BY <5>2, <5>4, PriceOrder
        <5>. QED
          BY <5>1, <5>3, <5>4
      <4>3. Best(n, n - 1)
        BY <2>2, <3>3, <4>2
      <4>. QED
        BY <2>2, <3>3, <4>3
    <3>4. CASE ~(n - 1 \in L /\ ~AsGood(s, PriceOf(b, i), PriceOf(b, n - 1)))
      <4>1. ASSUME NEW j \in L, j < n PROVE AsGood(s, PriceOf(b, i), PriceOf(b, j))
        <5>1. j < n - 1 \/ j = n - 1
          BY <1>1, <2>4, <4>1
        <5>. QED
          BY <3>1, <3>4, <5>1
      <4>2. Best(n, i)
        BY <3>1, <3>2, <4>1
      <4>. QED
        BY <2>2, <4>2
    <3>. QED
      BY <3>3, <3>4
  <2>. QED
    BY <2>6, <2>7
<1>4. ME_MAX_PRICE_LEVELS \in Nat /\ \E j \in L : j < ME_MAX_PRICE_LEVELS
  BY <1>1, ClientBookAssumption DEF L
<1>5. PICK i \in L : Best(ME_MAX_PRICE_LEVELS, i)
  BY <1>3, <1>4
<1>. QED
  BY <1>1, <1>5 DEF L

(* ... which is the head of the side's list, ...                           *)
LEMMA BestIs ==
  ASSUME NEW b, BookOK(b), NEW s \in Side, NEW i \in LevelsOf(b, s),
         \A j \in LevelsOf(b, s) : AsGood(s, PriceOf(b, i), PriceOf(b, j))
  PROVE  best(b, s) = b.oid_to_price_level_[i]
<1>. DEFINE L == LevelsOf(b, s)
            c == CHOOSE k \in L : \A j \in L :
                   AsGood(s, b.oid_to_price_level_[k].price_, b.oid_to_price_level_[j].price_)
<1>1. c \in L /\ \A j \in L : AsGood(s, PriceOf(b, c), PriceOf(b, j))
  BY DEF PriceOf
<1>2. best(b, s) = b.oid_to_price_level_[c]
  BY DEF best
<1>. HIDE DEF c
<1>3. \A k \in L : PriceOf(b, k) \in Nat /\ priceToIndex(PriceOf(b, k)) = k
  BY LevelFacts DEF LevelsOf, LevelOK, PriceOf
<1>4. PriceOf(b, c) = PriceOf(b, i)
  BY <1>1, <1>3, PriceOrder
<1>5. c = i
  BY <1>1, <1>3, <1>4
<1>. QED
  BY <1>2, <1>5

(* ... and there is none only if there is no level.                        *)
LEMMA BestOrNone ==
  ASSUME NEW b, BookOK(b), NEW s \in Side, best(b, s) # NULL
  PROVE  \E i \in LevelsOf(b, s) :
           /\ best(b, s) = b.oid_to_price_level_[i]
           /\ \A j \in LevelsOf(b, s) : AsGood(s, PriceOf(b, i), PriceOf(b, j))
<1>1. LevelsOf(b, s) # {}
  BY DEF best
<1>. QED
  BY <1>1, BestExists, BestIs

(* A side has no best level exactly when it has no level.                  *)
LEMMA BestNone ==
  ASSUME NEW b, BookOK(b), NEW s \in Side
  PROVE  best(b, s) = NULL <=> LevelsOf(b, s) = {}
<1>1. LevelsOf(b, s) = {} => best(b, s) = NULL
  BY DEF best
<1>2. LevelsOf(b, s) # {} => best(b, s) # NULL
  BY BestExists, BestIs DEF LevelsOf
<1>. QED
  BY <1>1, <1>2

----------------------------------------------------------------------------
(* Books: what an update does.                                             *)

(* The books, whatever their levels say of their orders.                   *)
Books == [oid_to_order_ : [OrderIds -> MarketOrders \cup {NULL}],
          oid_to_price_level_ : [Indexes -> MarketOrdersAtPrice \cup {NULL}]]

(* An update about an order repeats the order's fields.                    *)
LEMMA ForFields ==
  ASSUME NEW type, NEW o
  PROVE  LET m == For(type, o) IN
         /\ m.type_ = type /\ m.order_id_ = o.order_id_ /\ m.side_ = o.side_
         /\ m.price_ = o.price_ /\ m.qty_ = o.qty_
BY DEF For, Update

(* An order with n of it left is the same order.                           *)
LEMMA LeftFacts ==
  ASSUME NEW o \in ExOrders, NEW n
  PROVE  LET p == Left(o, n) IN
         /\ p.order_id_ = o.order_id_ /\ p.side_ = o.side_ /\ p.price_ = o.price_
         /\ p.qty_ = n /\ p.left_ = n
         /\ n \in Qtys => p \in ExOrders
BY DEF Left, ExOrders

(* An update for an order of the exchange is an order of the book.         *)
LEMMA NewMarketOrder ==
  ASSUME NEW o \in ExOrders, o.order_id_ \in OrderIds
  PROVE  For("ADD", o) \in MarketOrders /\ For("ADD", o) # NULL
<1>1. For("ADD", o) \in MarketOrders
  BY DEF For, Update, MarketOrders, ExOrders
<1>. QED
  BY <1>1, NullMarketOrder

(* Only one entry of each index differs.                                   *)
Differs(b, a, i, id) ==
  /\ \A j \in Indexes \ {i} : a.oid_to_price_level_[j] = b.oid_to_price_level_[j]
  /\ \A d \in OrderIds \ {id} : a.oid_to_order_[d] = b.oid_to_order_[d]

(* What AddOrder makes of the level l of an order m.                       *)
Extended(l, m) ==
  IF l = NULL THEN [side_ |-> m.side_, price_ |-> m.price_, orders |-> <<m.order_id_>>]
  ELSE [l EXCEPT !.orders = Append(@, m.order_id_)]

(* A level with one more order: the same and the new one at its end.       *)
LEMMA ExtendedFacts ==
  ASSUME NEW l \in MarketOrdersAtPrice \cup {NULL}, NEW m \in MarketOrders,
         l # NULL => l.side_ = m.side_ /\ l.price_ = m.price_
  PROVE  LET e == Extended(l, m)
             n == IF l = NULL THEN 0 ELSE Len(l.orders)
         IN /\ e \in MarketOrdersAtPrice /\ e # NULL
            /\ e.side_ = m.side_ /\ e.price_ = m.price_
            /\ n \in Nat /\ Len(e.orders) = n + 1 /\ e.orders[n + 1] = m.order_id_
            /\ l # NULL => \A k \in 1 .. n : e.orders[k] = l.orders[k]
<1>. DEFINE e == Extended(l, m)
<1>1. m.order_id_ \in OrderIds /\ m.side_ \in Side /\ m.price_ \in Prices
  BY DEF MarketOrders
<1>2. CASE l = NULL
  <2>1. e = [side_ |-> m.side_, price_ |-> m.price_, orders |-> <<m.order_id_>>]
    BY <1>2 DEF Extended
  <2>2. <<m.order_id_>> \in Seq(OrderIds)
    BY <1>1
  <2>3. e \in MarketOrdersAtPrice
    BY <1>1, <2>1, <2>2 DEF MarketOrdersAtPrice
  <2>4. Len(e.orders) = 1 /\ e.orders[1] = m.order_id_
    BY <2>1
  <2>. QED
    BY <1>2, <2>1, <2>3, <2>4, NullMarketOrder
<1>3. CASE l # NULL
  <2>1. l \in MarketOrdersAtPrice
    BY <1>3
  <2>2. l.orders \in Seq(OrderIds)
    BY <2>1 DEF MarketOrdersAtPrice
  <2>3. e = [l EXCEPT !.orders = Append(l.orders, m.order_id_)]
    BY <1>3 DEF Extended
  <2>4. Append(l.orders, m.order_id_) \in Seq(OrderIds)
    BY <1>1, <2>2
  <2>5. e \in MarketOrdersAtPrice /\ e.side_ = l.side_ /\ e.price_ = l.price_
        /\ e.orders = Append(l.orders, m.order_id_)
    BY <2>1, <2>3, <2>4 DEF MarketOrdersAtPrice
  <2>6. /\ Len(l.orders) \in Nat
        /\ Len(Append(l.orders, m.order_id_)) = Len(l.orders) + 1
        /\ Append(l.orders, m.order_id_)[Len(l.orders) + 1] = m.order_id_
        /\ \A k \in 1 .. Len(l.orders) : Append(l.orders, m.order_id_)[k] = l.orders[k]
    BY <1>1, <2>2
  <2>. QED
    BY <1>3, <2>5, <2>6, NullMarketOrder
<1>. QED
  BY <1>2, <1>3

(* AddOrder writes one entry of each index (MarketOrderBook::AddOrder).    *)
LEMMA AddOrderIs ==
  ASSUME NEW b \in Books, NEW m \in MarketOrders
  PROVE  LET i == priceToIndex(m.price_) IN
         /\ i \in Indexes /\ m.order_id_ \in OrderIds
         /\ AddOrder(b, m) =
              [oid_to_order_ |-> [b.oid_to_order_ EXCEPT ![m.order_id_] = m],
               oid_to_price_level_ |->
                 [b.oid_to_price_level_ EXCEPT ![i] = Extended(b.oid_to_price_level_[i], m)]]
<1>. DEFINE i == priceToIndex(m.price_)
            e == Extended(b.oid_to_price_level_[i], m)
<1>1. m.price_ \in Nat /\ m.order_id_ \in OrderIds
  BY ClientBookAssumption DEF MarketOrders
<1>2. i \in Indexes
  BY <1>1, ClientBookAssumption DEF priceToIndex, Indexes
<1>3. AddOrder(b, m) = [oid_to_order_ |-> [b.oid_to_order_ EXCEPT ![m.order_id_] = m],
                        oid_to_price_level_ |-> [b.oid_to_price_level_ EXCEPT ![i] = e]]
  BY Zenon DEF AddOrder, Extended
<1>. QED
  BY <1>1, <1>2, <1>3, Zenon

(* An order that is new goes to the end of its level.                      *)
LEMMA AddHolds ==
  ASSUME NoAlias, NEW b, NEW orders \in Seq(ExOrders), Holds(b, orders),
         NEW o \in ExOrders, o.order_id_ \in OrderIds,
         \A j \in 1 .. Len(orders) : orders[j].order_id_ < o.order_id_,
         \A j \in 1 .. Len(orders) : orders[j].price_ = o.price_ => orders[j].side_ = o.side_
  PROVE  LET a == AddOrder(b, For("ADD", o)) IN
         /\ Holds(a, Append(orders, o))
         /\ Differs(b, a, priceToIndex(o.price_), o.order_id_)
         /\ b.oid_to_order_[o.order_id_] = NULL
         /\ \A x \in {a, b} : LET l == x.oid_to_price_level_[priceToIndex(o.price_)] IN
              l # NULL => l.side_ = o.side_ /\ l.price_ = o.price_
<1>. DEFINE m == For("ADD", o)
            a == AddOrder(b, m)
            i == priceToIndex(o.price_)
            id == o.order_id_
            l == b.oid_to_price_level_[i]
            e == Extended(l, m)
            n == IF l = NULL THEN 0 ELSE Len(l.orders)
<1>1. m \in MarketOrders /\ m # NULL /\ m.order_id_ = id /\ m.side_ = o.side_ /\ m.price_ = o.price_
  BY NewMarketOrder, ForFields
<1>2. BookOK(b) /\ b \in Books
  BY DEF Holds, BookOK, Books
<1>3. /\ i \in Indexes /\ id \in OrderIds
      /\ a = [oid_to_order_ |-> [b.oid_to_order_ EXCEPT ![id] = m],
              oid_to_price_level_ |-> [b.oid_to_price_level_ EXCEPT ![i] = e]]
  <2>. HIDE DEF m
  <2>1. LET j == priceToIndex(m.price_) IN
        /\ j \in Indexes /\ m.order_id_ \in OrderIds
        /\ a = [oid_to_order_ |-> [b.oid_to_order_ EXCEPT ![m.order_id_] = m],
                oid_to_price_level_ |->
                  [b.oid_to_price_level_ EXCEPT ![j] = Extended(b.oid_to_price_level_[j], m)]]
    BY <1>1, <1>2, AddOrderIs, Zenon
  <2>. QED
    BY <1>1, <2>1, Zenon
<1>4. /\ a.oid_to_order_[id] = m /\ a.oid_to_price_level_[i] = e
      /\ \A j \in Indexes \ {i} : a.oid_to_price_level_[j] = b.oid_to_price_level_[j]
      /\ \A d \in OrderIds \ {id} : a.oid_to_order_[d] = b.oid_to_order_[d]
  BY <1>2, <1>3 DEF Books
<1>5. \A d \in OrderIds : b.oid_to_order_[d] # NULL =>
        \E j \in 1 .. Len(orders) : orders[j].order_id_ = d /\ b.oid_to_order_[d] = For("ADD", orders[j])
  BY DEF Holds
<1>6. \A d \in OrderIds : b.oid_to_order_[d] # NULL => d < id /\ d # id
  <2>1. id \in Nat /\ \A d \in OrderIds : d \in Nat
    BY ClientBookAssumption DEF OrderIds
  <2>. QED
    BY <1>5, <2>1
<1>7. \A d \in OrderIds : b.oid_to_order_[d] # NULL /\ b.oid_to_order_[d].price_ = o.price_ =>
        b.oid_to_order_[d].side_ = o.side_
  BY <1>5, ForFields
<1>8. l # NULL => l.side_ = o.side_ /\ l.price_ = o.price_
  <2>. SUFFICES ASSUME l # NULL PROVE l.side_ = o.side_ /\ l.price_ = o.price_
    OBVIOUS
  <2>1. l.price_ \in Prices /\ Len(l.orders) \in Nat /\ LevelOK(b, i)
        /\ \A k \in 1 .. Len(l.orders) : l.orders[k] \in OrderIds
    BY <1>2, <1>3, LevelFacts
  <2>2. l.price_ = o.price_
    BY <2>1 DEF NoAlias, LevelOK, ExOrders
  <2>3. 1 \in 1 .. Len(l.orders)
    BY <2>1 DEF LevelOK
  <2>4. l.orders[1] \in OrderIds /\ b.oid_to_order_[l.orders[1]] # NULL
        /\ b.oid_to_order_[l.orders[1]].side_ = l.side_ /\ b.oid_to_order_[l.orders[1]].price_ = l.price_
    BY <2>1, <2>3 DEF LevelOK
  <2>. QED
    BY <2>2, <2>4, <1>7
<1>9. l \in MarketOrdersAtPrice \cup {NULL}
  BY <1>2, <1>3 DEF Books
<1>10. /\ e \in MarketOrdersAtPrice /\ e # NULL /\ e.side_ = o.side_ /\ e.price_ = o.price_
       /\ n \in Nat /\ Len(e.orders) = n + 1 /\ e.orders[n + 1] = id
       /\ l # NULL => \A k \in 1 .. n : e.orders[k] = l.orders[k]
  BY <1>1, <1>8, <1>9, ExtendedFacts, ZenonT(30)
<1>. HIDE DEF a, m, e
<1>11. a \in Books
  <2>1. [b.oid_to_order_ EXCEPT ![id] = m] \in [OrderIds -> MarketOrders \cup {NULL}]
    BY <1>1, <1>2 DEF Books
  <2>2. [b.oid_to_price_level_ EXCEPT ![i] = e] \in [Indexes -> MarketOrdersAtPrice \cup {NULL}]
    BY <1>2, <1>10 DEF Books
  <2>. QED
    BY <1>3, <2>1, <2>2, Zenon DEF Books
<1>12. ASSUME NEW d \in OrderIds, a.oid_to_order_[d] # NULL PROVE OrderOK(a, d)
  <2>1. CASE d = id
    <3>1. n + 1 \in 1 .. Len(e.orders)
      BY <1>10
    <3>. QED
      <4>1. a.oid_to_order_[id] = m /\ m.order_id_ = id /\ m.price_ = o.price_
        BY <1>1, <1>4
      <4>2. a.oid_to_price_level_[priceToIndex(o.price_)] = e
        BY <1>4
      <4>. QED
        BY <1>10, <2>1, <3>1, <4>1, <4>2 DEF OrderOK
  <2>2. CASE d # id
    <3>. DEFINE od == b.oid_to_order_[d]
                j == priceToIndex(od.price_)
    <3>1. a.oid_to_order_[d] = od /\ od # NULL /\ OrderOK(b, d) /\ j \in Indexes
      BY <1>2, <1>4, <1>12, <2>2, OrderFacts
    <3>2. PICK k \in 1 .. Len(b.oid_to_price_level_[j].orders) : b.oid_to_price_level_[j].orders[k] = d
      BY <3>1 DEF OrderOK
    <3>3. CASE j # i
      BY <1>4, <3>1, <3>3 DEF OrderOK
    <3>4. CASE j = i
      <4>1. l # NULL /\ k \in 1 .. n
        BY <3>1, <3>2, <3>4 DEF OrderOK
      <4>2. k \in 1 .. Len(e.orders) /\ e.orders[k] = d
        BY <1>10, <3>2, <3>4, <4>1
      <4>. QED
        BY <1>4, <1>10, <3>1, <3>4, <4>2 DEF OrderOK
    <3>. QED
      BY <3>3, <3>4
  <2>. QED
    BY <2>1, <2>2
<1>13. ASSUME NEW j \in Indexes, a.oid_to_price_level_[j] # NULL PROVE LevelOK(a, j)
  <2>1. CASE j # i
    <3>1. a.oid_to_price_level_[j] = b.oid_to_price_level_[j] /\ LevelOK(b, j)
          /\ \A k \in 1 .. Len(b.oid_to_price_level_[j].orders) : b.oid_to_price_level_[j].orders[k] \in OrderIds
      BY <1>2, <1>4, <1>13, <2>1, LevelFacts
    <3>2. \A k \in 1 .. Len(b.oid_to_price_level_[j].orders) :
            LET d == b.oid_to_price_level_[j].orders[k] IN a.oid_to_order_[d] = b.oid_to_order_[d]
      BY <1>4, <1>6, <3>1 DEF LevelOK
    <3>. QED
      BY <3>1, <3>2 DEF LevelOK
  <2>2. CASE j = i
    <3>1. a.oid_to_price_level_[i] = e
      BY <1>4
    <3>2. \A k \in 1 .. n : /\ e.orders[k] \in OrderIds /\ e.orders[k] < id
                            /\ e.orders[k] = l.orders[k] /\ l # NULL
                            /\ b.oid_to_order_[e.orders[k]] # NULL
                            /\ b.oid_to_order_[e.orders[k]].side_ = o.side_
                            /\ b.oid_to_order_[e.orders[k]].price_ = o.price_
      <4>. SUFFICES ASSUME NEW k \in 1 .. n
           PROVE  /\ e.orders[k] \in OrderIds /\ e.orders[k] < id
                  /\ e.orders[k] = l.orders[k] /\ l # NULL
                  /\ b.oid_to_order_[e.orders[k]] # NULL
                  /\ b.oid_to_order_[e.orders[k]].side_ = o.side_
                  /\ b.oid_to_order_[e.orders[k]].price_ = o.price_
        OBVIOUS
      <4>1. l # NULL
        OBVIOUS
      <4>2. e.orders[k] = l.orders[k] /\ k \in 1 .. Len(l.orders)
        BY <1>10, <4>1
      <4>3. LevelOK(b, i) /\ l.orders[k] \in OrderIds
        BY <1>2, <1>3, <4>1, <4>2, LevelFacts
      <4>4. b.oid_to_order_[l.orders[k]] # NULL /\ b.oid_to_order_[l.orders[k]].side_ = l.side_
            /\ b.oid_to_order_[l.orders[k]].price_ = l.price_
        BY <4>2, <4>3 DEF LevelOK
      <4>. QED
        BY <1>6, <1>8, <4>1, <4>2, <4>3, <4>4
    <3>3. \A k \in 1 .. n + 1 :
            LET d == e.orders[k] IN
            a.oid_to_order_[d] # NULL /\ a.oid_to_order_[d].side_ = e.side_ /\ a.oid_to_order_[d].price_ = e.price_
      <4>3. a.oid_to_order_[e.orders[n + 1]] = m
        BY <1>4, <1>10
      <4>1. \A k \in 1 .. n : a.oid_to_order_[e.orders[k]] = b.oid_to_order_[e.orders[k]]
        BY <1>4, <1>6, <3>2
      <4>2. \A k \in 1 .. n + 1 : k \in 1 .. n \/ k = n + 1
        BY <1>10
      <4>4. ASSUME NEW k \in 1 .. n
            PROVE  LET d == e.orders[k] IN
                   a.oid_to_order_[d] # NULL /\ a.oid_to_order_[d].side_ = e.side_
                   /\ a.oid_to_order_[d].price_ = e.price_
        BY <1>10, <3>2, <4>1
      <4>5. LET d == e.orders[n + 1] IN
            a.oid_to_order_[d] # NULL /\ a.oid_to_order_[d].side_ = e.side_
            /\ a.oid_to_order_[d].price_ = e.price_
        BY <1>1, <1>10, <4>3
      <4>. QED
        BY <4>2, <4>4, <4>5
    <3>4. \A k1, k2 \in 1 .. n + 1 : k1 < k2 => e.orders[k1] < e.orders[k2]
      <4>. SUFFICES ASSUME NEW k1 \in 1 .. n + 1, NEW k2 \in 1 .. n + 1, k1 < k2
           PROVE  e.orders[k1] < e.orders[k2]
        OBVIOUS
      <4>1. k1 \in 1 .. n /\ (k2 \in 1 .. n \/ k2 = n + 1)
        BY <1>10
      <4>2. CASE k2 = n + 1
        BY <1>10, <3>2, <4>1, <4>2
      <4>3. CASE k2 \in 1 .. n
        <5>1. l # NULL /\ e.orders[k1] = l.orders[k1] /\ e.orders[k2] = l.orders[k2]
          BY <3>2, <4>1, <4>3
        <5>2. LevelOK(b, i) /\ k1 \in 1 .. Len(l.orders) /\ k2 \in 1 .. Len(l.orders)
          BY <1>2, <1>3, <4>1, <4>3, <5>1, LevelFacts
        <5>. QED
          BY <5>1, <5>2 DEF LevelOK
      <4>. QED
        BY <4>1, <4>2, <4>3
    <3>5. priceToIndex(e.price_) = i /\ Len(e.orders) > 0
      BY <1>10
    <3>. QED
      BY <1>10, <2>2, <3>1, <3>3, <3>4, <3>5 DEF LevelOK
  <2>. QED
    BY <2>1, <2>2
<1>14. BookOK(a)
  BY <1>11, <1>12, <1>13 DEF BookOK, Books
<1>15. Holds(a, Append(orders, o))
  <2>1. Len(orders) \in Nat /\ Len(Append(orders, o)) = Len(orders) + 1
        /\ Append(orders, o)[Len(orders) + 1] = o
        /\ \A j \in 1 .. Len(orders) : Append(orders, o)[j] = orders[j]
    OBVIOUS
  <2>2. \A j \in 1 .. Len(orders) + 1 : j \in 1 .. Len(orders) \/ j = Len(orders) + 1
    BY <2>1
  <2>3. ASSUME NEW j \in 1 .. Len(orders)
        PROVE  orders[j].order_id_ \in OrderIds /\ a.oid_to_order_[orders[j].order_id_] = For("ADD", orders[j])
    <3>1. orders[j].order_id_ \in OrderIds /\ orders[j].order_id_ < id
          /\ b.oid_to_order_[orders[j].order_id_] = For("ADD", orders[j])
      BY DEF Holds
    <3>2. orders[j].order_id_ # id
      BY <3>1, ClientBookAssumption DEF OrderIds
    <3>. QED
      BY <1>4, <3>1, <3>2
  <2>4. a.oid_to_order_[id] = For("ADD", o)
    BY <1>4 DEF m
  <2>5. ASSUME NEW d \in OrderIds, a.oid_to_order_[d] # NULL
        PROVE  \E j \in 1 .. Len(orders) + 1 : Append(orders, o)[j].order_id_ = d
    <3>1. CASE d = id
      BY <2>1, <3>1
    <3>2. CASE d # id
      <4>1. PICK j \in 1 .. Len(orders) : orders[j].order_id_ = d
        BY <1>4, <1>5, <2>5, <3>2
      <4>. QED
        BY <2>1, <4>1
    <3>. QED
      BY <3>1, <3>2
  <2>. QED
    BY <1>3, <1>14, <2>1, <2>2, <2>3, <2>4, <2>5 DEF Holds
<1>16. Differs(b, a, i, id)
  BY <1>4 DEF Differs
<1>17. b.oid_to_order_[id] = NULL
  BY <1>3, <1>6
<1>. QED
  BY <1>4, <1>8, <1>10, <1>15, <1>16, <1>17 DEF a, m

(* The exchange's book and a level without one of their elements.          *)
LEMMA RemoveAtFacts ==
  ASSUME NEW S, NEW s \in Seq(S), NEW i \in 1 .. Len(s)
  PROVE  LET r == RemoveAt(s, i) IN
         /\ r \in Seq(S) /\ Len(r) = Len(s) - 1
         /\ \A j \in 1 .. i - 1 : r[j] = s[j]
         /\ \A j \in i .. Len(s) - 1 : r[j] = s[j + 1]
<1>. DEFINE u == SubSeq(s, 1, i - 1)
            v == SubSeq(s, i + 1, Len(s))
<1>1. Len(s) \in Nat /\ i \in Nat
  OBVIOUS
<1>2. u \in Seq(S) /\ Len(u) = i - 1 /\ \A j \in 1 .. i - 1 : u[j] = s[j]
  BY <1>1
<1>3. v \in Seq(S) /\ Len(v) = Len(s) - i /\ \A j \in 1 .. Len(s) - i : v[j] = s[j + i]
  BY <1>1
<1>4. RemoveAt(s, i) = u \o v
  BY DEF RemoveAt
<1>. HIDE DEF u, v
<1>5. /\ u \o v \in Seq(S) /\ Len(u \o v) = Len(u) + Len(v)
      /\ \A j \in 1 .. Len(u) + Len(v) :
           (u \o v)[j] = IF j <= Len(u) THEN u[j] ELSE v[j - Len(u)]
  BY <1>2, <1>3, ConcatProperties
<1>6. \A j \in 1 .. i - 1 : (u \o v)[j] = s[j]
  BY <1>1, <1>2, <1>3, <1>5
<1>7. ASSUME NEW j \in i .. Len(s) - 1 PROVE (u \o v)[j] = s[j + 1]
  <2>1. j \in 1 .. Len(u) + Len(v) /\ ~(j <= Len(u)) /\ j - Len(u) \in 1 .. Len(s) - i
        /\ (j - Len(u)) + i = j + 1
    BY <1>1, <1>2, <1>3
  <2>2. (u \o v)[j] = v[j - Len(u)]
    BY <1>5, <2>1
  <2>. QED
    BY <1>3, <2>1, <2>2
<1>. QED
  BY <1>1, <1>2, <1>3, <1>4, <1>5, <1>6, <1>7

(* The first place of an ascending sequence with a value is its only one.  *)
LEMMA RemoveFirstFacts ==
  ASSUME NEW s \in Seq(Nat), NEW k \in 1 .. Len(s),
         \A i, j \in 1 .. Len(s) : i < j => s[i] < s[j]
  PROVE  RemoveFirst(s, s[k]) = RemoveAt(s, k)
<1>. DEFINE I == {i \in 1 .. Len(s) : s[i] = s[k]}
<1>1. Len(s) \in Nat /\ \A i \in 1 .. Len(s) : s[i] \in Nat
  OBVIOUS
<1>2. \A i \in 1 .. Len(s) : s[i] = s[k] => i = k
  <2>. SUFFICES ASSUME NEW i \in 1 .. Len(s), s[i] = s[k], i # k PROVE FALSE
    OBVIOUS
  <2>1. i < k \/ k < i
    OBVIOUS
  <2>2. s[i] < s[k] \/ s[k] < s[i]
    BY <2>1
  <2>. QED
    BY <1>1, <2>2
<1>3. I = {k}
  BY <1>2
<1>4. Min(I) = k
  BY <1>3 DEF Min
<1>5. SelectInSeq(s, LAMBDA v : v = s[k]) = k
  BY <1>3, <1>4 DEF SelectInSeq
<1>. QED
  BY <1>5 DEF RemoveFirst

(* A level without one of its orders.                                      *)
Shrunk(l, id) ==
  IF Len(l.orders) = 1 THEN NULL ELSE [l EXCEPT !.orders = RemoveFirst(@, id)]

(* The level e is l, of n orders, without its k-th; none if it was alone.  *)
Lacks(e, l, k, n) ==
  /\ e \in MarketOrdersAtPrice \cup {NULL}
  /\ e = NULL <=> n = 1
  /\ e # NULL =>
       /\ e.side_ = l.side_ /\ e.price_ = l.price_
       /\ Len(e.orders) = n - 1 /\ n > 1
       /\ \A j \in 1 .. k - 1 : e.orders[j] = l.orders[j]
       /\ \A j \in k .. n - 1 : e.orders[j] = l.orders[j + 1]

(* What removeOrder leaves of a level lacks just that order.               *)
LEMMA ShrunkFacts ==
  ASSUME NEW b, BookOK(b), NEW i \in Indexes, b.oid_to_price_level_[i] # NULL,
         NEW k \in 1 .. Len(b.oid_to_price_level_[i].orders)
  PROVE  LET l == b.oid_to_price_level_[i] IN
         Lacks(Shrunk(l, l.orders[k]), l, k, Len(l.orders))
<1>. DEFINE l == b.oid_to_price_level_[i]
            e == Shrunk(l, l.orders[k])
            r == RemoveAt(l.orders, k)
<1>1. /\ l \in MarketOrdersAtPrice /\ l.orders \in Seq(OrderIds) /\ Len(l.orders) \in Nat
      /\ LevelOK(b, i)
  BY LevelFacts
<1>2. l.orders \in Seq(Nat)
  BY <1>1, ClientBookAssumption DEF OrderIds
<1>3. \A x, y \in 1 .. Len(l.orders) : x < y => l.orders[x] < l.orders[y]
  BY <1>1 DEF LevelOK
<1>. HIDE DEF l, r
<1>4. RemoveFirst(l.orders, l.orders[k]) = r
  BY <1>2, <1>3, RemoveFirstFacts DEF r, l
<1>5. /\ r \in Seq(OrderIds) /\ Len(r) = Len(l.orders) - 1
      /\ \A j \in 1 .. k - 1 : r[j] = l.orders[j]
      /\ \A j \in k .. Len(l.orders) - 1 : r[j] = l.orders[j + 1]
  BY <1>1, RemoveAtFacts DEF r, l
<1>6. CASE Len(l.orders) = 1
  BY <1>6 DEF Shrunk, l, Lacks
<1>7. CASE Len(l.orders) # 1
  <2>1. e = [l EXCEPT !.orders = r]
    BY <1>4, <1>7, Zenon DEF Shrunk
  <2>2. e \in MarketOrdersAtPrice /\ e.side_ = l.side_ /\ e.price_ = l.price_ /\ e.orders = r
    BY <1>1, <1>5, <2>1 DEF MarketOrdersAtPrice
  <2>3. PICK n \in Nat : n = Len(l.orders) /\ n > 0
    BY <1>1 DEF LevelOK, l
  <2>4. n # 1
    BY <1>7, <2>3, Zenon
  <2>5. n > 1
    <3>1. n \in Nat /\ n > 0
      BY <2>3
    <3>. QED
      BY <2>4, <3>1
  <2>. QED
    BY <1>5, <2>2, <2>3, <2>4, <2>5, NullMarketOrder DEF l, Lacks
<1>. QED
  BY <1>6, <1>7 DEF l

(* A book that is the other but for an order and the level at its price.   *)
SameBut(b, a, id) ==
  LET o == b.oid_to_order_[id] IN
  /\ BookOK(a) /\ Differs(b, a, priceToIndex(o.price_), id)
  /\ \A x \in {a, b} : LET l == x.oid_to_price_level_[priceToIndex(o.price_)] IN
                        l # NULL => l.side_ = o.side_ /\ l.price_ = o.price_

(* removeOrder takes an order out of its level, and a level without orders *)
(* away.                                                                   *)
LEMMA RemoveOK ==
  ASSUME NEW b, BookOK(b), NEW id \in OrderIds, b.oid_to_order_[id] # NULL
  PROVE  SameBut(b, removeOrder(b, id), id) /\ removeOrder(b, id).oid_to_order_[id] = NULL
<1>. DEFINE a == removeOrder(b, id)
            o == b.oid_to_order_[id]
            i == priceToIndex(o.price_)
            l == b.oid_to_price_level_[i]
            e == Shrunk(l, id)
<1>1. b \in Books
  BY DEF BookOK, Books
<1>2. /\ i \in Indexes /\ l # NULL
      /\ \E k \in 1 .. Len(l.orders) : l.orders[k] = id
  BY OrderFacts DEF OrderOK
<1>3. PICK k \in 1 .. Len(l.orders) : l.orders[k] = id
  BY <1>2
<1>4. /\ LevelOK(b, i) /\ Len(l.orders) \in Nat
      /\ \A x \in 1 .. Len(l.orders) : l.orders[x] \in OrderIds /\ l.orders[x] \in Nat
  BY <1>2, LevelFacts
<1>16. PICK n \in Nat : n = Len(l.orders) /\ k \in 1 .. n
  BY <1>3, <1>4
<1>5. l.side_ = o.side_ /\ l.price_ = o.price_
  BY <1>3, <1>4 DEF LevelOK
<1>6. Lacks(e, l, k, n)
  <2>1. k \in 1 .. Len(l.orders)
    BY <1>3
  <2>2. Lacks(Shrunk(l, l.orders[k]), l, k, Len(l.orders))
    BY <1>2, <2>1, ShrunkFacts
  <2>. QED
    BY <1>3, <1>16, <2>2
<1>7. a = [oid_to_order_ |-> [b.oid_to_order_ EXCEPT ![id] = NULL],
           oid_to_price_level_ |-> [b.oid_to_price_level_ EXCEPT ![i] = e]]
  BY Zenon DEF removeOrder, Shrunk
<1>. HIDE DEF a, e
<1>8. /\ a.oid_to_order_[id] = NULL /\ a.oid_to_price_level_[i] = e
      /\ \A j \in Indexes \ {i} : a.oid_to_price_level_[j] = b.oid_to_price_level_[j]
      /\ \A d \in OrderIds \ {id} : a.oid_to_order_[d] = b.oid_to_order_[d]
  BY <1>1, <1>2, <1>7 DEF Books
<1>9. a \in Books
  <2>1. [b.oid_to_order_ EXCEPT ![id] = NULL] \in [OrderIds -> MarketOrders \cup {NULL}]
    BY <1>1 DEF Books
  <2>2. [b.oid_to_price_level_ EXCEPT ![i] = e] \in [Indexes -> MarketOrdersAtPrice \cup {NULL}]
    BY <1>1, <1>6 DEF Books, Lacks
  <2>. QED
    BY <1>7, <2>1, <2>2, Zenon DEF Books
<1>10. \A x \in 1 .. n : x # k => l.orders[x] # id
  <2>. SUFFICES ASSUME NEW x \in 1 .. n, x # k PROVE l.orders[x] # l.orders[k]
    BY <1>3
  <2>1. k \in 1 .. n /\ (x < k \/ k < x)
    BY <1>16
  <2>2. l.orders[x] < l.orders[k] \/ l.orders[k] < l.orders[x]
    BY <1>4, <1>16, <2>1 DEF LevelOK
  <2>3. l.orders[x] \in Nat /\ l.orders[k] \in Nat
    BY <1>4, <1>16, <2>1
  <2>. QED
    BY <2>2, <2>3
<1>. HIDE DEF l
<1>. DEFINE old(j) == IF j < k THEN j ELSE j + 1
<1>11. e # NULL => \A j \in 1 .. Len(e.orders) :
         old(j) \in 1 .. n /\ old(j) # k /\ e.orders[j] = l.orders[old(j)]
  <2>. SUFFICES ASSUME e # NULL, NEW j \in 1 .. Len(e.orders)
       PROVE  old(j) \in 1 .. n /\ old(j) # k /\ e.orders[j] = l.orders[old(j)]
    OBVIOUS
  <2>1. j \in 1 .. n - 1 /\ k \in 1 .. n /\ n \in Nat
    BY <1>16, <1>6 DEF Lacks
  <2>2. CASE j < k
    <3>1. j \in 1 .. k - 1
      BY <2>1, <2>2
    <3>. QED
      BY <1>6, <2>1, <2>2, <3>1 DEF Lacks
  <2>3. CASE ~(j < k)
    <3>1. j \in k .. n - 1
      BY <2>1, <2>3
    <3>. QED
      BY <1>6, <2>1, <2>3, <3>1 DEF Lacks
  <2>. QED
    BY <2>2, <2>3
<1>12. ASSUME NEW d \in OrderIds, a.oid_to_order_[d] # NULL PROVE OrderOK(a, d)
  <2>. DEFINE od == b.oid_to_order_[d]
              j == priceToIndex(od.price_)
  <2>1. d # id
    BY <1>8, <1>12
  <2>2. a.oid_to_order_[d] = od /\ od # NULL /\ OrderOK(b, d) /\ j \in Indexes
    BY <1>8, <1>12, <2>1, OrderFacts
  <2>3. PICK x \in 1 .. Len(b.oid_to_price_level_[j].orders) : b.oid_to_price_level_[j].orders[x] = d
    BY <2>2 DEF OrderOK
  <2>4. CASE j # i
    BY <1>8, <2>2, <2>4 DEF OrderOK
  <2>5. CASE j = i
    <3>1. x \in 1 .. n /\ l.orders[x] = d /\ x # k
      BY <1>3, <1>16, <2>1, <2>3, <2>5 DEF l
    <3>2. n # 1 /\ e # NULL
      <4>1. n # 1
        <5>. SUFFICES ASSUME n = 1 PROVE FALSE
          OBVIOUS
        <5>1. x = 1 /\ k = 1
          BY <1>16, <3>1
        <5>. QED
          BY <3>1, <5>1
      <4>. QED
        BY <1>6, <4>1 DEF Lacks
    <3>3. \E y \in 1 .. Len(e.orders) : e.orders[y] = d
      <4>1. k \in 1 .. n /\ Len(e.orders) = n - 1
        BY <1>6, <1>16, <3>2 DEF Lacks
      <4>2. CASE x < k
        <5>1. x \in 1 .. k - 1 /\ x \in 1 .. Len(e.orders)
          BY <3>1, <4>1, <4>2
        <5>. QED
          BY <1>6, <3>1, <3>2, <5>1 DEF Lacks
      <4>3. CASE k < x
        <5>1. x - 1 \in k .. n - 1 /\ x - 1 \in 1 .. Len(e.orders) /\ (x - 1) + 1 = x
          BY <3>1, <4>1, <4>3
        <5>2. e.orders[x - 1] = l.orders[(x - 1) + 1]
          BY <1>6, <3>2, <5>1 DEF Lacks
        <5>. QED
          BY <3>1, <5>1, <5>2
      <4>. QED
        BY <3>1, <4>1, <4>2, <4>3
    <3>. QED
      BY <1>8, <2>2, <2>5, <3>2, <3>3 DEF OrderOK
  <2>. QED
    BY <2>4, <2>5
<1>13. ASSUME NEW j \in Indexes, a.oid_to_price_level_[j] # NULL PROVE LevelOK(a, j)
  <2>1. CASE j # i
    <3>1. a.oid_to_price_level_[j] = b.oid_to_price_level_[j] /\ LevelOK(b, j)
          /\ \A x \in 1 .. Len(b.oid_to_price_level_[j].orders) : b.oid_to_price_level_[j].orders[x] \in OrderIds
      BY <1>8, <1>13, <2>1, LevelFacts
    <3>2. \A x \in 1 .. Len(b.oid_to_price_level_[j].orders) : b.oid_to_price_level_[j].orders[x] # id
      BY <2>1, <3>1 DEF LevelOK
    <3>3. \A x \in 1 .. Len(b.oid_to_price_level_[j].orders) :
            LET d == b.oid_to_price_level_[j].orders[x] IN a.oid_to_order_[d] = b.oid_to_order_[d]
      BY <1>8, <3>1, <3>2
    <3>. QED
      BY <3>1, <3>3 DEF LevelOK
  <2>2. CASE j = i
    <3>1. a.oid_to_price_level_[i] = e /\ e # NULL
      BY <1>8, <1>13, <2>2
    <3>2. ASSUME NEW x \in 1 .. Len(e.orders)
          PROVE  /\ a.oid_to_order_[e.orders[x]] # NULL
                 /\ a.oid_to_order_[e.orders[x]].side_ = e.side_
                 /\ a.oid_to_order_[e.orders[x]].price_ = e.price_
      <4>. DEFINE d == e.orders[x]
      <4>1. old(x) \in 1 .. n /\ d = l.orders[old(x)] /\ d # id
        BY <1>10, <1>11, <3>1
      <4>2. d \in OrderIds /\ b.oid_to_order_[d] # NULL /\ b.oid_to_order_[d].side_ = l.side_
            /\ b.oid_to_order_[d].price_ = l.price_
        BY <1>4, <1>16, <4>1 DEF LevelOK, l
      <4>3. a.oid_to_order_[d] = b.oid_to_order_[d]
        BY <1>8, <4>1, <4>2
      <4>. QED
        BY <1>6, <3>1, <4>2, <4>3 DEF Lacks
    <3>3. ASSUME NEW x \in 1 .. Len(e.orders), NEW y \in 1 .. Len(e.orders), x < y
          PROVE  e.orders[x] < e.orders[y]
      <4>1. e.orders[x] = l.orders[old(x)] /\ e.orders[y] = l.orders[old(y)]
            /\ old(x) \in 1 .. n /\ old(y) \in 1 .. n
        BY <1>11, <3>1
      <4>2. x \in Nat /\ y \in Nat /\ k \in Nat
        BY <1>16
      <4>3. old(x) < old(y)
        BY <3>3, <4>2
      <4>. QED
        BY <1>4, <1>16, <4>1, <4>3 DEF LevelOK, l
    <3>4. priceToIndex(e.price_) = i /\ Len(e.orders) > 0
      <4>1. /\ e.price_ = l.price_ /\ Len(e.orders) = n - 1 /\ n > 1
            /\ priceToIndex(l.price_) = i
        BY <1>5, <1>6, <3>1 DEF l, Lacks
      <4>. QED
        BY <1>16, <4>1
    <3>. QED
      BY <2>2, <3>1, <3>2, <3>3, <3>4 DEF LevelOK
  <2>. QED
    BY <2>1, <2>2
<1>14. BookOK(a)
  BY <1>9, <1>12, <1>13 DEF BookOK, Books
<1>15. Differs(b, a, i, id)
  BY <1>8 DEF Differs
<1>. QED
  BY <1>5, <1>6, <1>8, <1>14, <1>15 DEF a, l, Lacks, SameBut

(* What a MODIFY makes of the book.                                        *)
Modified(b, id, q) == [b EXCEPT !.oid_to_order_[id].qty_ = q]

(* A new quantity changes nothing else.                                    *)
LEMMA ModifyOK ==
  ASSUME NEW b, BookOK(b), NEW id \in OrderIds, b.oid_to_order_[id] # NULL, NEW q \in Qtys
  PROVE  /\ SameBut(b, Modified(b, id, q), id)
         /\ Modified(b, id, q).oid_to_order_[id] = [b.oid_to_order_[id] EXCEPT !.qty_ = q]
<1>. DEFINE a == Modified(b, id, q)
            o == b.oid_to_order_[id]
            p == [o EXCEPT !.qty_ = q]
            i == priceToIndex(o.price_)
<1>1. b \in Books
  BY DEF BookOK, Books
<1>2. o \in MarketOrders /\ OrderOK(b, id) /\ i \in Indexes /\ b.oid_to_price_level_[i] # NULL
  BY OrderFacts
<1>3. /\ p \in MarketOrders /\ p # NULL /\ p.side_ = o.side_ /\ p.price_ = o.price_
      /\ p.order_id_ = o.order_id_
  BY <1>2, NullMarketOrder DEF MarketOrders
<1>4. a = [b EXCEPT !.oid_to_order_ = [b.oid_to_order_ EXCEPT ![id] = p]]
  BY DEF Modified
<1>. HIDE DEF a, p
<1>5. a = [oid_to_order_ |-> [b.oid_to_order_ EXCEPT ![id] = p],
           oid_to_price_level_ |-> b.oid_to_price_level_]
  BY <1>1, <1>4 DEF Books
<1>6. /\ a.oid_to_order_[id] = p /\ a.oid_to_price_level_ = b.oid_to_price_level_
      /\ \A d \in OrderIds \ {id} : a.oid_to_order_[d] = b.oid_to_order_[d]
  BY <1>1, <1>5 DEF Books
<1>7. a \in Books
  <2>1. [b.oid_to_order_ EXCEPT ![id] = p] \in [OrderIds -> MarketOrders \cup {NULL}]
    BY <1>1, <1>3 DEF Books
  <2>. QED
    BY <1>1, <1>5, <2>1 DEF Books
<1>8. \A d \in OrderIds : /\ a.oid_to_order_[d] = NULL <=> b.oid_to_order_[d] = NULL
                          /\ a.oid_to_order_[d].side_ = b.oid_to_order_[d].side_
                          /\ a.oid_to_order_[d].price_ = b.oid_to_order_[d].price_
                          /\ a.oid_to_order_[d].order_id_ = b.oid_to_order_[d].order_id_
  BY <1>3, <1>6
<1>9. \A d \in OrderIds : a.oid_to_order_[d] # NULL => OrderOK(a, d)
  BY <1>6, <1>8 DEF OrderOK, BookOK
<1>10. ASSUME NEW j \in Indexes, a.oid_to_price_level_[j] # NULL PROVE LevelOK(a, j)
  <2>1. LevelOK(b, j) /\ a.oid_to_price_level_[j] = b.oid_to_price_level_[j]
        /\ \A k \in 1 .. Len(b.oid_to_price_level_[j].orders) : b.oid_to_price_level_[j].orders[k] \in OrderIds
    BY <1>6, <1>10, LevelFacts
  <2>2. \A k \in 1 .. Len(b.oid_to_price_level_[j].orders) :
          LET d == b.oid_to_price_level_[j].orders[k] IN
          /\ a.oid_to_order_[d] # NULL /\ a.oid_to_order_[d].side_ = b.oid_to_price_level_[j].side_
          /\ a.oid_to_order_[d].price_ = b.oid_to_price_level_[j].price_
    BY <1>8, <2>1 DEF LevelOK
  <2>. QED
    BY <2>1, <2>2 DEF LevelOK
<1>11. BookOK(a)
  BY <1>7, <1>9, <1>10 DEF BookOK, Books
<1>12. Differs(b, a, i, id)
  BY <1>6 DEF Differs
<1>13. \A x \in {a, b} : LET l == x.oid_to_price_level_[i] IN l.side_ = o.side_ /\ l.price_ = o.price_
  <2>1. LevelOK(b, i)
    BY <1>2, LevelFacts
  <2>2. \E k \in 1 .. Len(b.oid_to_price_level_[i].orders) : b.oid_to_price_level_[i].orders[k] = id
    BY <1>2 DEF OrderOK
  <2>3. b.oid_to_price_level_[i].side_ = o.side_ /\ b.oid_to_price_level_[i].price_ = o.price_
    BY <2>1, <2>2 DEF LevelOK
  <2>. QED
    BY <1>6, <2>3
<1>. QED
  BY <1>6, <1>11, <1>12, <1>13 DEF a, p, SameBut

(* What an update does when it comes to an order of the book.              *)
LEMMA ChangeOK ==
  ASSUME NEW b, BookOK(b), NEW m, Changes(b, m)
  PROVE  LET a == Applied(b, m) IN
         /\ BookOK(a) /\ Differs(b, a, priceToIndex(m.price_), m.order_id_)
         /\ m.side_ \in Side /\ m.price_ \in Nat /\ priceToIndex(m.price_) \in Indexes
         /\ b.oid_to_order_[m.order_id_].price_ = m.price_
         /\ \A x \in {a, b} : LET l == x.oid_to_price_level_[priceToIndex(m.price_)] IN
              l # NULL => l.side_ = m.side_ /\ l.price_ = m.price_
<1>. DEFINE o == b.oid_to_order_[m.order_id_]
<1>1. /\ m.order_id_ \in OrderIds /\ o # NULL /\ m.side_ = o.side_ /\ m.price_ = o.price_
      /\ m.type_ \in {"MODIFY", "CANCEL"} /\ (m.type_ = "MODIFY" => m.qty_ \in Qtys)
  BY DEF Changes
<1>2. o.side_ \in Side /\ o.price_ \in Nat /\ priceToIndex(o.price_) \in Indexes
  BY <1>1, OrderFacts
<1>3. SameBut(b, Applied(b, m), m.order_id_)
  <2>1. CASE m.type_ = "MODIFY"
    <3>1. Applied(b, m) = Modified(b, m.order_id_, m.qty_) /\ m.qty_ \in Qtys
      BY <1>1, <2>1 DEF Applied, Modified
    <3>2. m.order_id_ \in OrderIds /\ b.oid_to_order_[m.order_id_] # NULL /\ m.qty_ \in Qtys
      BY <1>1, <3>1
    <3>3. SameBut(b, Modified(b, m.order_id_, m.qty_), m.order_id_)
      BY <3>2, ModifyOK, Zenon
    <3>. QED
      BY <3>1, <3>3
  <2>2. CASE m.type_ = "CANCEL"
    <3>1. Applied(b, m) = removeOrder(b, m.order_id_)
      BY <1>1, <2>2 DEF Applied
    <3>. QED
      BY <1>1, <3>1, RemoveOK
  <2>. QED
    BY <1>1, <2>1, <2>2
<1>. QED
  BY <1>1, <1>2, <1>3 DEF SameBut

(* When the exchange gives an order a new quantity, or takes it out, the   *)
(* update does the same to a book that is the exchange's.                  *)
LEMMA ModifyHolds ==
  ASSUME NEW b, NEW orders \in Seq(ExOrders), Holds(b, orders),
         \A x, y \in 1 .. Len(orders) : x < y => orders[x].order_id_ < orders[y].order_id_,
         NEW i \in 1 .. Len(orders), NEW q \in Qtys
  PROVE  Holds(Modified(b, orders[i].order_id_, q),
               [orders EXCEPT ![i] = Left(orders[i], q)])
<1>. DEFINE o == orders[i]
            p == Left(o, q)
            id == o.order_id_
            a == Modified(b, id, q)
            new == [orders EXCEPT ![i] = p]
<1>1. /\ id \in OrderIds /\ b.oid_to_order_[id] = For("ADD", o) /\ b.oid_to_order_[id] # NULL
      /\ o \in ExOrders /\ BookOK(b)
  <2>1. o \in ExOrders /\ id \in OrderIds /\ b.oid_to_order_[id] = For("ADD", o) /\ BookOK(b)
    BY DEF Holds
  <2>. QED
    BY <2>1, NewMarketOrder
<1>2. /\ BookOK(a) /\ a.oid_to_order_[id] = [For("ADD", o) EXCEPT !.qty_ = q]
      /\ \A d \in OrderIds \ {id} : a.oid_to_order_[d] = b.oid_to_order_[d]
  <2>1. SameBut(b, a, id) /\ a.oid_to_order_[id] = [b.oid_to_order_[id] EXCEPT !.qty_ = q]
    BY <1>1, ModifyOK
  <2>2. BookOK(a) /\ Differs(b, a, priceToIndex(b.oid_to_order_[id].price_), id)
    BY <2>1, Zenon DEF SameBut
  <2>. QED
    BY <1>1, <2>1, <2>2 DEF Differs
<1>3. [For("ADD", o) EXCEPT !.qty_ = q] = For("ADD", p) /\ p.order_id_ = id
  <2>1. p.order_id_ = id /\ p.side_ = o.side_ /\ p.price_ = o.price_ /\ p.qty_ = q
    BY <1>1, LeftFacts
  <2>. HIDE DEF p
  <2>. QED
    BY <2>1 DEF For, Update
<1>4. Len(orders) \in Nat /\ Len(new) = Len(orders) /\ new[i] = p
      /\ \A j \in 1 .. Len(orders) : j # i => new[j] = orders[j]
  OBVIOUS
<1>5. \A j \in 1 .. Len(orders) : j # i => orders[j].order_id_ # id
  <2>. SUFFICES ASSUME NEW j \in 1 .. Len(orders), j # i PROVE orders[j].order_id_ # orders[i].order_id_
    OBVIOUS
  <2>1. j < i \/ i < j
    OBVIOUS
  <2>4. orders[j] \in ExOrders /\ orders[i] \in ExOrders
    OBVIOUS
  <2>2. orders[j].order_id_ \in Nat /\ orders[i].order_id_ \in Nat
    BY <2>4 DEF ExOrders
  <2>3. orders[j].order_id_ < orders[i].order_id_ \/ orders[i].order_id_ < orders[j].order_id_
    BY <2>1
  <2>. QED
    BY <2>2, <2>3
<1>. HIDE DEF a, p, new
<1>6. ASSUME NEW j \in 1 .. Len(new)
      PROVE  new[j].order_id_ \in OrderIds /\ a.oid_to_order_[new[j].order_id_] = For("ADD", new[j])
  <2>1. CASE j = i
    BY <1>1, <1>2, <1>3, <1>4, <2>1
  <2>2. CASE j # i
    <3>1. new[j] = orders[j] /\ orders[j].order_id_ \in OrderIds /\ orders[j].order_id_ # id
          /\ b.oid_to_order_[orders[j].order_id_] = For("ADD", orders[j])
      BY <1>4, <1>5, <2>2 DEF Holds
    <3>. QED
      BY <1>2, <3>1
  <2>. QED
    BY <2>1, <2>2
<1>7. ASSUME NEW d \in OrderIds, a.oid_to_order_[d] # NULL
      PROVE  \E j \in 1 .. Len(new) : new[j].order_id_ = d
  <2>1. CASE d = id
    BY <1>3, <1>4, <2>1
  <2>2. CASE d # id
    <3>1. PICK j \in 1 .. Len(orders) : orders[j].order_id_ = d
      BY <1>2, <1>7, <2>2 DEF Holds
    <3>2. new[j] = orders[j]
      BY <1>4, <2>2, <3>1
    <3>. QED
      BY <1>4, <3>1, <3>2
  <2>. QED
    BY <2>1, <2>2
<1>8. Holds(a, new)
  BY <1>2, <1>6, <1>7 DEF Holds
<1>. QED
  BY <1>8 DEF a, new, p

(* A cancel does.                                                          *)
LEMMA RemoveHolds ==
  ASSUME NEW b, NEW orders \in Seq(ExOrders), Holds(b, orders),
         \A x, y \in 1 .. Len(orders) : x < y => orders[x].order_id_ < orders[y].order_id_,
         NEW i \in 1 .. Len(orders)
  PROVE  Holds(removeOrder(b, orders[i].order_id_), RemoveAt(orders, i))
<1>. DEFINE id == orders[i].order_id_
            a == removeOrder(b, id)
            new == RemoveAt(orders, i)
<1>1. id \in OrderIds /\ b.oid_to_order_[id] # NULL /\ BookOK(b)
  <2>1. orders[i] \in ExOrders /\ id \in OrderIds /\ b.oid_to_order_[id] = For("ADD", orders[i]) /\ BookOK(b)
    BY DEF Holds
  <2>. QED
    BY <2>1, NewMarketOrder
<1>2. /\ BookOK(a) /\ a.oid_to_order_[id] = NULL
      /\ \A d \in OrderIds \ {id} : a.oid_to_order_[d] = b.oid_to_order_[d]
  <2>1. SameBut(b, a, id) /\ a.oid_to_order_[id] = NULL
    BY <1>1, RemoveOK
  <2>2. BookOK(a) /\ Differs(b, a, priceToIndex(b.oid_to_order_[id].price_), id)
    BY <2>1, Zenon DEF SameBut
  <2>. QED
    BY <1>1, <2>1, <2>2 DEF Differs
<1>3. \A j \in 1 .. Len(orders) : j # i => orders[j].order_id_ # id
  <2>. SUFFICES ASSUME NEW j \in 1 .. Len(orders), j # i PROVE orders[j].order_id_ # orders[i].order_id_
    OBVIOUS
  <2>1. j < i \/ i < j
    OBVIOUS
  <2>4. orders[j] \in ExOrders /\ orders[i] \in ExOrders
    OBVIOUS
  <2>2. orders[j].order_id_ \in Nat /\ orders[i].order_id_ \in Nat
    BY <2>4 DEF ExOrders
  <2>3. orders[j].order_id_ < orders[i].order_id_ \/ orders[i].order_id_ < orders[j].order_id_
    BY <2>1
  <2>. QED
    BY <2>2, <2>3
<1>4. /\ Len(new) = Len(orders) - 1
      /\ \A j \in 1 .. i - 1 : new[j] = orders[j]
      /\ \A j \in i .. Len(orders) - 1 : new[j] = orders[j + 1]
  BY RemoveAtFacts
<1>5. Len(orders) \in Nat /\ i \in Nat
  OBVIOUS
<1>. HIDE DEF a, new
<1>6. ASSUME NEW j \in 1 .. Len(new)
      PROVE  new[j].order_id_ \in OrderIds /\ a.oid_to_order_[new[j].order_id_] = For("ADD", new[j])
  <2>1. PICK k \in 1 .. Len(orders) : k # i /\ new[j] = orders[k]
    <3>1. CASE j < i
      <4>1. j \in 1 .. i - 1 /\ j \in 1 .. Len(orders) /\ j # i
        BY <1>4, <1>5, <3>1
      <4>. QED
        BY <1>4, <4>1
    <3>2. CASE ~(j < i)
      <4>1. j \in i .. Len(orders) - 1 /\ j + 1 \in 1 .. Len(orders) /\ j + 1 # i
        BY <1>4, <1>5, <3>2
      <4>. QED
        BY <1>4, <4>1
    <3>. QED
      BY <3>1, <3>2
  <2>2. orders[k].order_id_ \in OrderIds /\ b.oid_to_order_[orders[k].order_id_] = For("ADD", orders[k])
    BY <2>1 DEF Holds
  <2>. QED
    BY <1>2, <1>3, <2>1, <2>2
<1>7. ASSUME NEW d \in OrderIds, a.oid_to_order_[d] # NULL
      PROVE  \E j \in 1 .. Len(new) : new[j].order_id_ = d
  <2>1. d # id
    BY <1>2, <1>7
  <2>2. PICK k \in 1 .. Len(orders) : orders[k].order_id_ = d
    BY <1>2, <1>7, <2>1 DEF Holds
  <2>3. k # i
    BY <2>1, <2>2
  <2>4. CASE k < i
    <3>1. k \in 1 .. i - 1 /\ k \in 1 .. Len(new)
      BY <1>4, <1>5, <2>2, <2>4
    <3>. QED
      BY <1>4, <2>2, <3>1
  <2>5. CASE i < k
    <3>1. k - 1 \in i .. Len(orders) - 1 /\ k - 1 \in 1 .. Len(new) /\ (k - 1) + 1 = k
      BY <1>4, <1>5, <2>2, <2>5
    <3>2. new[k - 1] = orders[(k - 1) + 1]
      BY <1>4, <3>1
    <3>. QED
      BY <2>2, <3>1, <3>2
  <2>. QED
    BY <1>5, <2>2, <2>3, <2>4, <2>5
<1>8. Holds(a, new)
  BY <1>2, <1>6, <1>7 DEF Holds
<1>. QED
  BY <1>8 DEF a, new

----------------------------------------------------------------------------
(* The best bid and offer.                                                 *)

(* The best price of a side and the quantity at it.                        *)
Quote(b, s) == [price_ |-> best(b, s).price_, qty_ |-> LevelQty(b, best(b, s))]

(* The bbo is the book's where it is known.                                *)
ExactOrUnknown(bbo, b) ==
  \A s \in Side : bbo[s] # NULL => best(b, s) # NULL /\ bbo[s] = Quote(b, s)

(* The bbo after the update m from b to a.                                 *)
Updated(bbo, b, m, a) ==
  [s \in Side |-> IF ~Touches(b, m, s) THEN bbo[s]
                  ELSE IF best(a, s) = NULL THEN NULL ELSE Quote(a, s)]

(* The update m, whatever it does, takes the book b to a.                  *)
UpdateOf(b, a, m) ==
  /\ BookOK(b) /\ BookOK(a)
  /\ m.side_ \in Side /\ m.price_ \in Nat /\ priceToIndex(m.price_) \in Indexes
  /\ Differs(b, a, priceToIndex(m.price_), m.order_id_)
  /\ b.oid_to_order_[m.order_id_] = NULL \/ b.oid_to_order_[m.order_id_].price_ = m.price_
  /\ \A x \in {a, b} : LET l == x.oid_to_price_level_[priceToIndex(m.price_)] IN
       l # NULL => l.side_ = m.side_ /\ l.price_ = m.price_

(* The levels of a side.                                                   *)
LEMMA LevelsOfFacts ==
  ASSUME NEW b, NEW s, NEW i
  PROVE  i \in LevelsOf(b, s) <=> /\ i \in Indexes /\ b.oid_to_price_level_[i] # NULL
                                  /\ b.oid_to_price_level_[i].side_ = s
BY DEF LevelsOf

(* What does not touch the best level leaves it, and its quantity, as they *)
(* were.                                                                   *)
LEMMA UntouchedBest ==
  ASSUME NEW b, NEW a, NEW m, UpdateOf(b, a, m),
         NEW s \in Side, ~Touches(b, m, s), best(b, s) # NULL
  PROVE  best(a, s) # NULL /\ Quote(a, s) = Quote(b, s)
<1>. DEFINE i == priceToIndex(m.price_)
<1>1. /\ BookOK(b) /\ BookOK(a) /\ m.side_ \in Side /\ m.price_ \in Nat /\ i \in Indexes
      /\ Differs(b, a, i, m.order_id_)
      /\ b.oid_to_order_[m.order_id_] = NULL \/ b.oid_to_order_[m.order_id_].price_ = m.price_
      /\ a.oid_to_price_level_[i] # NULL =>
           a.oid_to_price_level_[i].side_ = m.side_ /\ a.oid_to_price_level_[i].price_ = m.price_
      /\ b.oid_to_price_level_[i] # NULL =>
           b.oid_to_price_level_[i].side_ = m.side_ /\ b.oid_to_price_level_[i].price_ = m.price_
  BY DEF UpdateOf
<1>2. PICK j \in LevelsOf(b, s) : /\ best(b, s) = b.oid_to_price_level_[j]
                                  /\ \A k \in LevelsOf(b, s) : AsGood(s, PriceOf(b, j), PriceOf(b, k))
  BY <1>1, BestOrNone
<1>. DEFINE l == b.oid_to_price_level_[j]
<1>3. j \in Indexes /\ l # NULL /\ l.side_ = s /\ l.price_ \in Nat /\ PriceOf(b, j) = l.price_
  BY <1>1, <1>2, LevelsOfFacts, LevelFacts DEF PriceOf
<1>4. m.side_ = s => ~AsGood(s, m.price_, l.price_)
  BY <1>2 DEF Touches
<1>5. j # i
  BY <1>1, <1>3, <1>4, PriceOrder
<1>6. a.oid_to_price_level_[j] = l
  BY <1>1, <1>3, <1>5 DEF Differs
<1>7. j \in LevelsOf(a, s) /\ PriceOf(a, j) = l.price_
  BY <1>3, <1>6, LevelsOfFacts DEF PriceOf
<1>8. ASSUME NEW k \in LevelsOf(a, s) PROVE AsGood(s, PriceOf(a, j), PriceOf(a, k))
  <2>1. k \in Indexes /\ a.oid_to_price_level_[k] # NULL /\ a.oid_to_price_level_[k].side_ = s
    BY LevelsOfFacts
  <2>2. CASE k # i
    <3>1. a.oid_to_price_level_[k] = b.oid_to_price_level_[k]
      BY <1>1, <2>1, <2>2 DEF Differs
    <3>2. k \in LevelsOf(b, s) /\ PriceOf(a, k) = PriceOf(b, k)
      BY <2>1, <3>1, LevelsOfFacts DEF PriceOf
    <3>. QED
      BY <1>2, <1>3, <1>7, <3>2
  <2>3. CASE k = i
    <3>1. m.side_ = s /\ PriceOf(a, k) = m.price_
      BY <1>1, <2>1, <2>3 DEF PriceOf
    <3>2. ~AsGood(s, m.price_, l.price_)
      BY <1>4, <3>1
    <3>3. AsGood(s, l.price_, m.price_)
      <4>1. m.price_ \in Nat /\ l.price_ \in Nat
        BY <1>1, <1>3
      <4>. QED
        BY <3>2, <4>1, PriceOrder
    <3>. QED
      BY <1>7, <3>1, <3>3
  <2>. QED
    BY <2>2, <2>3
<1>9. best(a, s) = l
  BY <1>1, <1>6, <1>7, <1>8, BestIs
<1>10. \A k \in 1 .. Len(l.orders) : a.oid_to_order_[l.orders[k]] = b.oid_to_order_[l.orders[k]]
  <2>. SUFFICES ASSUME NEW k \in 1 .. Len(l.orders)
       PROVE  a.oid_to_order_[l.orders[k]] = b.oid_to_order_[l.orders[k]]
    OBVIOUS
  <2>1. LevelOK(b, j) /\ l.orders[k] \in OrderIds
    BY <1>1, <1>3, LevelFacts
  <2>2. b.oid_to_order_[l.orders[k]] # NULL /\ b.oid_to_order_[l.orders[k]].price_ = l.price_
        /\ priceToIndex(l.price_) = j
    BY <2>1 DEF LevelOK
  <2>3. l.orders[k] # m.order_id_
    BY <1>1, <1>5, <2>2
  <2>. QED
    BY <1>1, <2>1, <2>3 DEF Differs
<1>. HIDE DEF l
<1>11. LevelQty(a, l) = LevelQty(b, l)
  <2>1. [k \in 1 .. Len(l.orders) |-> a.oid_to_order_[l.orders[k]].qty_]
        = [k \in 1 .. Len(l.orders) |-> b.oid_to_order_[l.orders[k]].qty_]
    BY <1>10
  <2>. QED
    BY <2>1 DEF LevelQty
<1>12. best(b, s) = l /\ l # NULL
  BY <1>2, <1>3 DEF l
<1>. QED
  BY <1>9, <1>11, <1>12 DEF Quote

(* What the bbo keeps or takes after an update is exact or unknown.        *)
LEMMA BBOAfter ==
  ASSUME NEW b, NEW a, NEW m, UpdateOf(b, a, m), NEW bbo, ExactOrUnknown(bbo, b)
  PROVE  ExactOrUnknown(Updated(bbo, b, m, a), a)
<1>. SUFFICES ASSUME NEW s \in Side, Updated(bbo, b, m, a)[s] # NULL
     PROVE  best(a, s) # NULL /\ Updated(bbo, b, m, a)[s] = Quote(a, s)
  BY DEF ExactOrUnknown
<1>1. CASE Touches(b, m, s)
  BY <1>1 DEF Updated
<1>2. CASE ~Touches(b, m, s)
  <2>1. Updated(bbo, b, m, a)[s] = bbo[s]
    BY <1>2 DEF Updated
  <2>2. best(b, s) # NULL /\ bbo[s] = Quote(b, s)
    BY <2>1 DEF ExactOrUnknown
  <2>. QED
    BY <1>2, <2>1, <2>2, UntouchedBest
<1>. QED
  BY <1>1, <1>2

(* A MODIFY or CANCEL of an order of the book is such an update.           *)
LEMMA ChangeUpdates ==
  ASSUME NEW b, BookOK(b), NEW m, Changes(b, m)
  PROVE  UpdateOf(b, Applied(b, m), m)
BY ChangeOK DEF UpdateOf

(* A book depends on nothing of a sequence of orders but its elements.     *)
LEMMA HoldsSame ==
  ASSUME NEW b, NEW s, NEW t, Holds(b, s), Len(t) = Len(s), \A i \in 1 .. Len(s) : t[i] = s[i]
  PROVE  Holds(b, t)
BY DEF Holds

----------------------------------------------------------------------------
(* What is under way.                                                      *)

(* The updates of a replay.                                                *)
Adds == {For("ADD", o) : o \in ExOrders}

(* The orders after the first n, as ADD updates.                           *)
Replay(orders, n) == [i \in 1 .. Len(orders) - n |-> For("ADD", orders[n + i])]

(* What a participant is sent that joins or recovers.                      *)
SnapshotOf(orders) ==
  <<Update("CLEAR", NULL, NULL, NULL, NULL)>> \o [i \in 1 .. Len(orders) |-> For("ADD", orders[i])]

(* An update to one order, after the trade it is from if there is one.     *)
Delivers(b, in, orders) ==
  /\ Len(in) \in 1 .. 2
  /\ LET m == in[Len(in)] IN
     /\ in = <<m>> \/ (in = <<in[1], m>> /\ TradesOn(b, in[1], m))
     /\ Changes(b, m)
     /\ Holds(Applied(b, m), orders)

(* What is under way leads the book to the exchange's orders.              *)
Way(b, in, orders, member) ==
  IF ~member THEN in = << >> /\ Holds(b, << >>)
  ELSE \/ in = SnapshotOf(orders)
       \/ \E n \in 0 .. Len(orders) : in = Replay(orders, n) /\ Holds(b, SubSeq(orders, 1, n))
       \/ Delivers(b, in, orders)

(* OnTheWay, and the snapshot, as predicates of their variables' values.   *)
LEMMA WayIs ==
  /\ OnTheWay <=> Way(book, inbox, ex, joined)
  /\ OnTheWay' <=> Way(book', inbox', ex', joined')
  /\ Snapshot = SnapshotOf(ex)
BY Zenon DEF OnTheWay, Way, Delivers, Replay, Snapshot, SnapshotOf

(* The rest of a replay begins with the next order.                        *)
LEMMA ReplayFacts ==
  ASSUME NEW orders \in Seq(ExOrders), NEW n \in 0 .. Len(orders)
  PROVE  LET in == Replay(orders, n) IN
         /\ in \in Seq(Adds) /\ Len(in) = Len(orders) - n
         /\ n = Len(orders) => in = << >>
         /\ n # Len(orders) => /\ in # << >> /\ n + 1 \in 1 .. Len(orders)
                               /\ Head(in) = For("ADD", orders[n + 1])
                               /\ Tail(in) = Replay(orders, n + 1)
<1>. DEFINE in == Replay(orders, n)
<1>1. Len(orders) \in Nat /\ n \in Nat /\ \A i \in 1 .. Len(orders) : orders[i] \in ExOrders
  OBVIOUS
<1>2. \A i \in 1 .. Len(orders) - n : n + i \in 1 .. Len(orders)
  BY <1>1
<1>3. in \in Seq(Adds) /\ Len(in) = Len(orders) - n
      /\ \A i \in 1 .. Len(orders) - n : in[i] = For("ADD", orders[n + i])
  <2>1. \A i \in 1 .. Len(orders) - n : For("ADD", orders[n + i]) \in Adds
    BY <1>1, <1>2 DEF Adds
  <2>2. Len(orders) - n \in Nat
    BY <1>1
  <2>. QED
    BY <2>1, <2>2 DEF Replay
<1>4. ASSUME n # Len(orders)
      PROVE  /\ in # << >> /\ n + 1 \in 1 .. Len(orders)
             /\ Head(in) = For("ADD", orders[n + 1]) /\ Tail(in) = Replay(orders, n + 1)
  <2>1. n + 1 \in 1 .. Len(orders) /\ Len(orders) - n > 0
    BY <1>1, <1>4
  <2>2. in # << >> /\ Head(in) = in[1] /\ in[1] = For("ADD", orders[n + 1])
    BY <1>3, <2>1
  <2>. DEFINE t == Tail(in)
  <2>3. t \in Seq(Adds) /\ Len(t) = Len(orders) - (n + 1)
        /\ \A i \in 1 .. Len(t) : t[i] = in[i + 1]
    BY <1>1, <1>3, <2>1, <2>2, HeadTailProperties
  <2>4. \A i \in 1 .. Len(t) : t[i] = For("ADD", orders[(n + 1) + i])
    <3>. SUFFICES ASSUME NEW i \in 1 .. Len(t) PROVE in[i + 1] = For("ADD", orders[(n + 1) + i])
      BY <2>3
    <3>3. i \in 1 .. Len(orders) - (n + 1)
      BY <2>3
    <3>1. i + 1 \in 1 .. Len(orders) - n /\ n + (i + 1) = (n + 1) + i
      BY <1>1, <3>3
    <3>2. in[i + 1] = For("ADD", orders[n + (i + 1)])
      BY <1>3, <3>1
    <3>. QED
      BY <3>1, <3>2
  <2>. HIDE DEF t
  <2>5. t = [i \in 1 .. Len(orders) - (n + 1) |-> For("ADD", orders[(n + 1) + i])]
    BY <2>3, <2>4
  <2>. QED
    BY <2>1, <2>2, <2>5 DEF t, Replay
<1>5. ASSUME n = Len(orders) PROVE in = << >>
  <2>1. Len(in) = 0
    BY <1>1, <1>3, <1>5
  <2>. QED
    BY <1>3, <2>1
<1>. QED
  BY <1>3, <1>4, <1>5

(* A snapshot is a CLEAR and a replay of all orders.                       *)
LEMMA SnapshotFacts ==
  ASSUME NEW orders \in Seq(ExOrders)
  PROVE  LET in == SnapshotOf(orders) IN
         /\ in # << >> /\ Head(in) = Update("CLEAR", NULL, NULL, NULL, NULL)
         /\ Tail(in) = Replay(orders, 0)
<1>. DEFINE c == Update("CLEAR", NULL, NULL, NULL, NULL)
            r == [i \in 1 .. Len(orders) |-> For("ADD", orders[i])]
            S == Adds \cup {c}
            in == SnapshotOf(orders)
<1>1. Len(orders) \in Nat /\ \A i \in 1 .. Len(orders) : orders[i] \in ExOrders
  OBVIOUS
<1>2. \A i \in 1 .. Len(orders) : For("ADD", orders[i]) \in S
  BY <1>1 DEF Adds
<1>3. c \in S
  OBVIOUS
<1>. HIDE DEF c, S
<1>4. r \in Seq(S) /\ Len(r) = Len(orders) /\ <<c>> \in Seq(S) /\ Len(<<c>>) = 1
  BY <1>1, <1>2, <1>3
<1>5. in = <<c>> \o r
  BY Zenon DEF SnapshotOf, c
<1>. HIDE DEF r
<1>6. /\ <<c>> \o r \in Seq(S) /\ Len(<<c>> \o r) = Len(<<c>>) + Len(r)
      /\ \A i \in 1 .. Len(<<c>>) + Len(r) :
           (<<c>> \o r)[i] = IF i <= Len(<<c>>) THEN <<c>>[i] ELSE r[i - Len(<<c>>)]
  BY <1>4, ConcatProperties
<1>7. /\ in \in Seq(S) /\ Len(in) = Len(orders) + 1 /\ in[1] = c
      /\ \A i \in 1 .. Len(orders) : in[i + 1] = r[i]
  BY <1>1, <1>4, <1>5, <1>6
<1>. HIDE DEF in
<1>8. in # << >> /\ Head(in) = c
  BY <1>1, <1>7
<1>. DEFINE t == Tail(in)
<1>9. t \in Seq(S) /\ Len(t) = Len(orders) /\ \A i \in 1 .. Len(orders) : t[i] = r[i]
  BY <1>1, <1>7, <1>8, HeadTailProperties
<1>. HIDE DEF t
<1>10. t = Replay(orders, 0)
  <2>1. Len(orders) - 0 = Len(orders) /\ \A i \in 1 .. Len(orders) : 0 + i = i
    BY <1>1
  <2>2. \A i \in 1 .. Len(orders) : t[i] = For("ADD", orders[0 + i])
    BY <1>9, <2>1 DEF r
  <2>3. t = [i \in 1 .. Len(orders) - 0 |-> For("ADD", orders[0 + i])]
    BY <1>9, <2>1, <2>2
  <2>. QED
    BY <2>3 DEF Replay
<1>. QED
  BY <1>8, <1>10 DEF in, t, c


(* With nothing under way, the book is the exchange's.                     *)
LEMMA InStep ==
  ASSUME NEW orders \in Seq(ExOrders), NEW b, Way(b, << >>, orders, TRUE)
  PROVE  Holds(b, orders)
<1>1. SnapshotOf(orders) # << >>
  BY SnapshotFacts
<1>2. ~Delivers(b, << >>, orders)
  BY DEF Delivers
<1>3. PICK n \in 0 .. Len(orders) : << >> = Replay(orders, n) /\ Holds(b, SubSeq(orders, 1, n))
  BY <1>1, <1>2, Zenon DEF Way
<1>4. n = Len(orders)
  BY <1>3, ReplayFacts
<1>. QED
  BY <1>3, <1>4, SubSeqFull

----------------------------------------------------------------------------
(* The steps of the exchange.                                              *)

(* The exchange's orders, by ascending ids, with one side at each price.   *)
ExchangeIs(orders, next) ==
  /\ next \in Nat \ {0}
  /\ orders \in Seq(ExOrders)
  /\ \A i \in 1 .. Len(orders) : orders[i].order_id_ < next
  /\ \A i, j \in 1 .. Len(orders) : i < j => orders[i].order_id_ < orders[j].order_id_
  /\ \A i, j \in 1 .. Len(orders) : orders[i].price_ = orders[j].price_ => orders[i].side_ = orders[j].side_
  /\ \A i \in 1 .. Len(orders) : orders[i].left_ <= orders[i].qty_

(* The order being matched, if there is one, comes after all of them.      *)
AggressorIs(agg, orders, next) ==
  agg # NULL =>
    /\ agg \in ExOrders /\ agg.left_ <= agg.qty_
    /\ agg.order_id_ \in 1 .. next - 1
    /\ ExchangeIs(orders, agg.order_id_)

(* The invariant of the book.                                              *)
BookInv(orders, next, agg, b, in, member, bbo, state) ==
  /\ ExchangeIs(orders, next)
  /\ AggressorIs(agg, orders, next)
  /\ state = "running" => BookOK(b) /\ Way(b, in, orders, member) /\ ExactOrUnknown(bbo, b)

(* The book's invariant as a predicate of its variables' values.           *)
LEMMA BookInvIs ==
  /\ ClientBookInv <=> BookInv(ex, next_id, aggressor, book, inbox, joined, bbo_, pc)
  /\ ClientBookInv' <=> BookInv(ex', next_id', aggressor', book', inbox', joined', bbo_', pc')
<1>1. ExchangeOK <=> ExchangeIs(ex, next_id)
  BY Zenon DEF ExchangeOK, ExchangeIs
<1>2. ExchangeOK' <=> ExchangeIs(ex', next_id')
  BY Zenon DEF ExchangeOK, ExchangeIs
<1>7. ExchangeIs(ex, next_id) => (AggressorOK <=> AggressorIs(aggressor, ex, next_id))
  <2>. SUFFICES ASSUME ExchangeIs(ex, next_id), aggressor # NULL, aggressor.order_id_ \in 1 .. next_id - 1
       PROVE  (\A i \in 1 .. Len(ex) : ex[i].order_id_ < aggressor.order_id_)
                <=> ExchangeIs(ex, aggressor.order_id_)
    BY Zenon DEF AggressorOK, AggressorIs
  <2>1. aggressor.order_id_ \in Nat \ {0}
    BY DEF ExchangeIs
  <2>. QED
    BY <2>1, Zenon DEF ExchangeIs
<1>8. ExchangeIs(ex', next_id') => (AggressorOK' <=> AggressorIs(aggressor', ex', next_id'))
  <2>. SUFFICES ASSUME ExchangeIs(ex', next_id'), aggressor' # NULL, aggressor'.order_id_ \in 1 .. next_id' - 1
       PROVE  (\A i \in 1 .. Len(ex') : ex'[i].order_id_ < aggressor'.order_id_)
                <=> ExchangeIs(ex', aggressor'.order_id_)
    BY Zenon DEF AggressorOK, AggressorIs
  <2>1. aggressor'.order_id_ \in Nat \ {0}
    BY DEF ExchangeIs
  <2>. QED
    BY <2>1, Zenon DEF ExchangeIs
<1>3. (pc = "running" => BBOExactOrUnknown) <=> (pc = "running" => ExactOrUnknown(bbo_, book))
  BY DEF BBOExactOrUnknown, ExactOrUnknown, Quote
<1>4. (pc = "running" => BBOExactOrUnknown)' <=> (pc' = "running" => ExactOrUnknown(bbo_', book'))
  BY DEF BBOExactOrUnknown, ExactOrUnknown, Quote
<1>5. ClientBookInv <=> BookInv(ex, next_id, aggressor, book, inbox, joined, bbo_, pc)
  BY <1>1, <1>3, <1>7, WayIs DEF ClientBookInv, BookInv
<1>6. ClientBookInv' <=> BookInv(ex', next_id', aggressor', book', inbox', joined', bbo_', pc')
  BY <1>2, <1>4, <1>8, WayIs DEF ClientBookInv, BookInv
<1>. QED
  BY <1>5, <1>6

(* What the exchange has to send, to a participant that has handled what   *)
(* came before.                                                            *)
LEMMA SendOne ==
  ASSUME NEW b, NEW orders, NEW m, Changes(b, m), Holds(Applied(b, m), orders)
  PROVE  Way(b, <<m>>, orders, TRUE)
<1>. DEFINE in == <<m>>
<1>1. Len(in) = 1 /\ in[1] = m /\ in = <<m>>
  OBVIOUS
<1>. HIDE DEF in
<1>3. in[Len(in)] = m
  BY <1>1
<1>2. Delivers(b, in, orders)
  BY <1>1, <1>3 DEF Delivers
<1>. QED
  BY <1>1, <1>2 DEF Way

(* A trade and what it takes from its order are under way.                 *)
LEMMA SendTwo ==
  ASSUME NEW b, NEW orders, NEW t, NEW m, Changes(b, m), Holds(Applied(b, m), orders), TradesOn(b, t, m)
  PROVE  Way(b, <<t, m>>, orders, TRUE)
<1>. DEFINE in == <<t, m>>
<1>1. Len(in) = 2 /\ in[1] = t /\ in[2] = m /\ in = <<t, m>>
  OBVIOUS
<1>. HIDE DEF in
<1>3. in[Len(in)] = m
  BY <1>1
<1>2. Delivers(b, in, orders)
  BY <1>1, <1>3 DEF Delivers
<1>. QED
  BY <1>1, <1>2 DEF Way

(* The exchange accepts an order.                                          *)
LEMMA NewOrderStep ==
  ASSUME NEW side \in Side, NEW price \in Prices, NEW qty \in Qtys,
         ClientBookInv, NewOrder(side, price, qty)
  PROVE  ClientBookInv'
<1>. DEFINE o == [order_id_ |-> next_id, side_ |-> side, price_ |-> price, qty_ |-> qty, left_ |-> qty]
<1>1. /\ ExchangeIs(ex, next_id)
      /\ pc = "running" => BookOK(book) /\ Way(book, inbox, ex, joined) /\ ExactOrUnknown(bbo_, book)
  BY BookInvIs DEF BookInv
<1>2. /\ aggressor' = o /\ next_id' = next_id + 1
      /\ ex' = ex /\ inbox' = inbox /\ joined' = joined /\ book' = book /\ bbo_' = bbo_ /\ pc' = pc
  BY Zenon DEF NewOrder
<1>3. next_id \in Nat \ {0}
  BY <1>1 DEF ExchangeIs
<1>4. o \in ExOrders /\ o.order_id_ = next_id /\ o.left_ = qty /\ o.qty_ = qty /\ qty \in Nat
  BY <1>3, ClientBookAssumption DEF ExOrders
<1>. HIDE DEF o
<1>5. next_id' \in Nat \ {0} /\ next_id < next_id' /\ next_id \in 1 .. next_id' - 1
  BY <1>2, <1>3
<1>6. ExchangeIs(ex', next_id')
  <2>1. \A i \in 1 .. Len(ex) : ex[i].order_id_ \in Nat
    <3>1. \A i \in 1 .. Len(ex) : ex[i] \in ExOrders
      BY <1>1 DEF ExchangeIs
    <3>. QED
      BY <3>1 DEF ExOrders
  <2>2. \A i \in 1 .. Len(ex) : ex[i].order_id_ < next_id'
    BY <1>1, <1>3, <1>5, <2>1 DEF ExchangeIs
  <2>. QED
    BY <1>1, <1>2, <1>5, <2>2, Zenon DEF ExchangeIs
<1>7. o.left_ <= o.qty_
  BY <1>4
<1>8. AggressorIs(aggressor', ex', next_id')
  BY <1>1, <1>2, <1>4, <1>5, <1>7, Zenon DEF AggressorIs
<1>9. BookInv(ex', next_id', aggressor', book', inbox', joined', bbo_', pc')
  BY <1>1, <1>2, <1>6, <1>8 DEF BookInv
<1>. QED
  BY <1>9, BookInvIs

(* What is left of a new order rests, and its ADD is sent.                 *)
LEMMA RestStep ==
  ASSUME ClientBookInv, Rest
  PROVE  ClientBookInv'
<1>. DEFINE o == aggressor
            side == aggressor.side_
            price == aggressor.price_
            id == aggressor.order_id_
<1>1. /\ ExchangeIs(ex, next_id) /\ AggressorIs(aggressor, ex, next_id)
      /\ pc = "running" => BookOK(book) /\ Way(book, inbox, ex, joined) /\ ExactOrUnknown(bbo_, book)
  BY BookInvIs DEF BookInv
<1>2. /\ inbox = << >> /\ ex' = Append(ex, o) /\ next_id' = next_id /\ aggressor' = NULL /\ o # NULL
      /\ \A i \in 1 .. Len(ex) : ~Crosses(i)
      /\ inbox' = IF joined THEN <<For("ADD", o)>> ELSE << >>
      /\ joined' = joined /\ book' = book /\ bbo_' = bbo_ /\ pc' = pc
  BY Zenon DEF Rest, Send
<1>3. /\ next_id \in Nat \ {0} /\ ex \in Seq(ExOrders) /\ Len(ex) \in Nat
      /\ \A i \in 1 .. Len(ex) : /\ ex[i] \in ExOrders /\ ex[i].price_ \in Nat /\ ex[i].side_ \in Side
                                 /\ ex[i].order_id_ \in Nat
  <2>1. next_id \in Nat \ {0} /\ ex \in Seq(ExOrders)
    BY <1>1 DEF ExchangeIs
  <2>2. Len(ex) \in Nat /\ \A i \in 1 .. Len(ex) : ex[i] \in ExOrders
    BY <2>1
  <2>. QED
    BY <2>1, <2>2, ClientBookAssumption DEF ExOrders
<1>4. /\ o \in ExOrders /\ o.order_id_ = id /\ o.price_ = price /\ o.side_ = side
      /\ o.left_ <= o.qty_ /\ id \in 1 .. next_id - 1 /\ ExchangeIs(ex, id)
  BY <1>1, <1>2, Zenon DEF AggressorIs
<1>5. \A i \in 1 .. Len(ex) : ex[i].price_ = price => ex[i].side_ = side
  <2>1. price \in Nat
    BY <1>4, ClientBookAssumption DEF ExOrders
  <2>. QED
    BY <1>2, <1>3, <2>1 DEF Crosses, AsGood
<1>11. id \in Nat \ {0} /\ id < next_id
  BY <1>3, <1>4
<1>. HIDE DEF o
<1>6. /\ ex' \in Seq(ExOrders) /\ Len(ex') = Len(ex) + 1 /\ ex'[Len(ex) + 1] = o
      /\ \A i \in 1 .. Len(ex) : ex'[i] = ex[i]
  BY <1>2, <1>3, <1>4
<1>7. \A i \in 1 .. Len(ex') : i \in 1 .. Len(ex) \/ i = Len(ex) + 1
  BY <1>3, <1>6
<1>8. ExchangeIs(ex', next_id')
  <2>1. next_id' \in Nat \ {0} /\ id < next_id'
    BY <1>2, <1>3, <1>11
  <2>2. \A i \in 1 .. Len(ex') : ex'[i].order_id_ < next_id'
    BY <1>1, <1>2, <1>3, <1>4, <1>6, <1>7, <1>11, <2>1 DEF ExchangeIs
  <2>3. \A i, j \in 1 .. Len(ex') : i < j => ex'[i].order_id_ < ex'[j].order_id_
    <3>. SUFFICES ASSUME NEW i \in 1 .. Len(ex'), NEW j \in 1 .. Len(ex'), i < j
         PROVE  ex'[i].order_id_ < ex'[j].order_id_
      OBVIOUS
    <3>1. i \in 1 .. Len(ex)
      BY <1>3, <1>6
    <3>. QED
      BY <1>4, <1>6, <1>7, <3>1 DEF ExchangeIs
  <2>4. \A i, j \in 1 .. Len(ex') : ex'[i].price_ = ex'[j].price_ => ex'[i].side_ = ex'[j].side_
    BY <1>1, <1>4, <1>5, <1>6, <1>7 DEF ExchangeIs
  <2>5. \A i \in 1 .. Len(ex') : ex'[i].left_ <= ex'[i].qty_
    BY <1>1, <1>4, <1>6, <1>7 DEF ExchangeIs
  <2>. QED
    BY <1>6, <2>1, <2>2, <2>3, <2>4, <2>5 DEF ExchangeIs
<1>9. ASSUME pc = "running" PROVE Way(book, inbox', ex', joined)
  <2>1. Way(book, << >>, ex, joined)
    BY <1>1, <1>2, <1>9
  <2>2. CASE joined
    <3>1. Holds(book, ex)
      BY <1>3, <2>1, <2>2, InStep DEF Way
    <3>2. Len(SubSeq(ex', 1, Len(ex))) = Len(ex) /\ \A i \in 1 .. Len(ex) : SubSeq(ex', 1, Len(ex))[i] = ex[i]
      BY <1>3, <1>6
    <3>3. Holds(book, SubSeq(ex', 1, Len(ex)))
      BY <3>1, <3>2, HoldsSame
    <3>4. Replay(ex', Len(ex)) = <<For("ADD", o)>>
      <4>1. Len(ex') - Len(ex) = 1
        BY <1>3, <1>6
      <4>2. Replay(ex', Len(ex)) = [i \in 1 .. 1 |-> For("ADD", ex'[Len(ex) + i])]
        BY <4>1 DEF Replay
      <4>3. [i \in 1 .. 1 |-> For("ADD", ex'[Len(ex) + i])] = <<For("ADD", o)>>
        BY <1>6
      <4>. QED
        BY <4>2, <4>3
    <3>5. inbox' = Replay(ex', Len(ex)) /\ Len(ex) \in 0 .. Len(ex')
      BY <1>2, <1>3, <1>6, <2>2, <3>4
    <3>. QED
      BY <2>2, <3>3, <3>5 DEF Way
  <2>3. CASE ~joined
    BY <1>2, <2>1, <2>3 DEF Way
  <2>. QED
    BY <2>2, <2>3
<1>10. BookInv(ex', next_id', aggressor', book', inbox', joined', bbo_', pc')
  BY <1>1, <1>2, <1>8, <1>9 DEF BookInv, AggressorIs
<1>. QED
  BY <1>10, BookInvIs


(* The book of the exchange without one of its orders, or with a smaller   *)
(* one.                                                                    *)
LEMMA WithoutOne ==
  ASSUME NEW orders, NEW next, ExchangeIs(orders, next), NEW i \in 1 .. Len(orders)
  PROVE  ExchangeIs(RemoveAt(orders, i), next)
<1>. DEFINE new == RemoveAt(orders, i)
            old(j) == IF j < i THEN j ELSE j + 1
<1>1. orders \in Seq(ExOrders) /\ Len(orders) \in Nat /\ i \in Nat /\ next \in Nat \ {0}
  BY DEF ExchangeIs
<1>2. /\ new \in Seq(ExOrders) /\ Len(new) = Len(orders) - 1
      /\ \A j \in 1 .. i - 1 : new[j] = orders[j]
      /\ \A j \in i .. Len(orders) - 1 : new[j] = orders[j + 1]
  BY <1>1, RemoveAtFacts
<1>. HIDE DEF new
<1>3. \A j \in 1 .. Len(new) : old(j) \in 1 .. Len(orders) /\ new[j] = orders[old(j)]
  <2>. SUFFICES ASSUME NEW j \in 1 .. Len(new)
       PROVE  old(j) \in 1 .. Len(orders) /\ new[j] = orders[old(j)]
    OBVIOUS
  <2>1. j \in 1 .. Len(orders) - 1
    BY <1>2
  <2>2. CASE j < i
    <3>1. j \in 1 .. i - 1 /\ j \in 1 .. Len(orders)
      BY <1>1, <2>1, <2>2
    <3>. QED
      BY <1>2, <2>2, <3>1
  <2>3. CASE ~(j < i)
    <3>1. j \in i .. Len(orders) - 1 /\ j + 1 \in 1 .. Len(orders)
      BY <1>1, <2>1, <2>3
    <3>. QED
      BY <1>2, <2>3, <3>1
  <2>. QED
    BY <2>2, <2>3
<1>4. \A j, k \in 1 .. Len(new) : j < k => old(j) < old(k)
  <2>1. \A j \in 1 .. Len(new) : j \in Nat
    OBVIOUS
  <2>. QED
    BY <1>1, <2>1
<1>. HIDE DEF old
<1>5. \A j \in 1 .. Len(new) : new[j].order_id_ < next
  BY <1>3 DEF ExchangeIs
<1>6. \A j, k \in 1 .. Len(new) : j < k => new[j].order_id_ < new[k].order_id_
  BY <1>3, <1>4 DEF ExchangeIs
<1>7. \A j, k \in 1 .. Len(new) : new[j].price_ = new[k].price_ => new[j].side_ = new[k].side_
  BY <1>3 DEF ExchangeIs
<1>8. \A j \in 1 .. Len(new) : new[j].left_ <= new[j].qty_
  BY <1>3 DEF ExchangeIs
<1>. QED
  BY <1>1, <1>2, <1>5, <1>6, <1>7, <1>8 DEF ExchangeIs, new

(* The exchange's orders are as they were but for a quantity.              *)
LEMMA WithSmaller ==
  ASSUME NEW orders, NEW next, ExchangeIs(orders, next), NEW i \in 1 .. Len(orders), NEW q \in Qtys
  PROVE  ExchangeIs([orders EXCEPT ![i] = Left(orders[i], q)], next)
<1>. DEFINE p == Left(orders[i], q)
            new == [orders EXCEPT ![i] = p]
<1>1. orders \in Seq(ExOrders) /\ Len(orders) \in Nat /\ next \in Nat \ {0} /\ orders[i] \in ExOrders
  BY DEF ExchangeIs
<1>2. /\ p \in ExOrders /\ p.order_id_ = orders[i].order_id_ /\ p.price_ = orders[i].price_
      /\ p.side_ = orders[i].side_ /\ p.left_ <= p.qty_
  <2>1. q \in Nat
    BY ClientBookAssumption
  <2>. QED
    BY <1>1, <2>1, LeftFacts
<1>. HIDE DEF p
<1>3. new \in Seq(ExOrders) /\ Len(new) = Len(orders)
      /\ \A j \in 1 .. Len(orders) : new[j] = IF j = i THEN p ELSE orders[j]
  BY <1>1, <1>2
<1>. HIDE DEF new
<1>4. \A j \in 1 .. Len(orders) : /\ new[j].order_id_ = orders[j].order_id_
                                  /\ new[j].price_ = orders[j].price_ /\ new[j].side_ = orders[j].side_
  BY <1>2, <1>3
<1>5. \A j \in 1 .. Len(new) : new[j].left_ <= new[j].qty_
  BY <1>2, <1>3 DEF ExchangeIs
<1>. QED
  BY <1>1, <1>3, <1>4, <1>5 DEF ExchangeIs, new, p

(* An order of the exchange is in the participant's book; what changes it, *)
(* or takes it out, is a change of the book.                               *)
UpdatesOrder(m, o, qty) ==
  m.order_id_ = o.order_id_ /\ m.side_ = o.side_ /\ m.price_ = o.price_ /\ m.qty_ = qty

(* An order of the exchange is in a book that holds its orders.            *)
LEMMA KnownOrder ==
  ASSUME NEW b, NEW orders \in Seq(ExOrders), Holds(b, orders), NEW i \in 1 .. Len(orders)
  PROVE  LET o == b.oid_to_order_[orders[i].order_id_] IN
         /\ orders[i] \in ExOrders /\ orders[i].order_id_ \in OrderIds /\ o # NULL
         /\ o.side_ = orders[i].side_ /\ o.price_ = orders[i].price_ /\ o.qty_ = orders[i].qty_
<1>. DEFINE o == b.oid_to_order_[orders[i].order_id_]
<1>1. orders[i] \in ExOrders /\ orders[i].order_id_ \in OrderIds /\ o = For("ADD", orders[i])
  BY DEF Holds
<1>. QED
  BY <1>1, NewMarketOrder, ForFields

(* A CANCEL takes the order out of the book as out of the exchange's.      *)
LEMMA CancelSent ==
  ASSUME NEW b, NEW orders, NEW next, ExchangeIs(orders, next), Holds(b, orders),
         NEW i \in 1 .. Len(orders), NEW q, NEW m, m.type_ = "CANCEL", UpdatesOrder(m, orders[i], q)
  PROVE  Changes(b, m) /\ Holds(Applied(b, m), RemoveAt(orders, i))
<1>1. /\ orders \in Seq(ExOrders)
      /\ \A x, y \in 1 .. Len(orders) : x < y => orders[x].order_id_ < orders[y].order_id_
  BY DEF ExchangeIs
<1>2. Changes(b, m)
  BY <1>1, KnownOrder DEF Changes, UpdatesOrder
<1>3. Applied(b, m) = removeOrder(b, orders[i].order_id_)
  BY <1>1, KnownOrder DEF Applied, UpdatesOrder
<1>4. Holds(removeOrder(b, orders[i].order_id_), RemoveAt(orders, i))
  BY <1>1, RemoveHolds
<1>. QED
  BY <1>2, <1>3, <1>4

(* A MODIFY gives the order the exchange's new quantity.                   *)
LEMMA ModifySent ==
  ASSUME NEW b, NEW orders, NEW next, ExchangeIs(orders, next), Holds(b, orders),
         NEW i \in 1 .. Len(orders), NEW q \in Qtys, NEW m, m.type_ = "MODIFY",
         UpdatesOrder(m, orders[i], q)
  PROVE  /\ Changes(b, m)
         /\ Holds(Applied(b, m), [orders EXCEPT ![i] = Left(orders[i], q)])
<1>1. /\ orders \in Seq(ExOrders)
      /\ \A x, y \in 1 .. Len(orders) : x < y => orders[x].order_id_ < orders[y].order_id_
  BY DEF ExchangeIs
<1>2. Changes(b, m)
  BY <1>1, KnownOrder DEF Changes, UpdatesOrder
<1>3. Applied(b, m) = Modified(b, orders[i].order_id_, q)
  BY <1>1, KnownOrder DEF Applied, UpdatesOrder, Modified
<1>4. Holds(Modified(b, orders[i].order_id_, q),
            [orders EXCEPT ![i] = Left(orders[i], q)])
  BY <1>1, ModifyHolds
<1>. QED
  BY <1>2, <1>3, <1>4

(* Levels and orders of a book that holds the orders of a sequence.        *)
LEMMA LevelHasOrder ==
  ASSUME NEW b, NEW orders \in Seq(ExOrders), Holds(b, orders), NEW s \in Side, NEW k \in LevelsOf(b, s)
  PROVE  \E j \in 1 .. Len(orders) : orders[j].side_ = s /\ orders[j].price_ = PriceOf(b, k)
<1>. DEFINE l == b.oid_to_price_level_[k]
<1>1. BookOK(b) /\ k \in Indexes /\ l # NULL /\ l.side_ = s /\ PriceOf(b, k) = l.price_
  BY LevelsOfFacts DEF Holds, PriceOf
<1>2. LevelOK(b, k) /\ Len(l.orders) \in Nat /\ \A x \in 1 .. Len(l.orders) : l.orders[x] \in OrderIds
  BY <1>1, LevelFacts
<1>3. 1 \in 1 .. Len(l.orders)
  BY <1>2 DEF LevelOK
<1>. DEFINE d == l.orders[1]
<1>4. d \in OrderIds /\ b.oid_to_order_[d] # NULL /\ b.oid_to_order_[d].side_ = l.side_
      /\ b.oid_to_order_[d].price_ = l.price_
  BY <1>2, <1>3 DEF LevelOK
<1>. HIDE DEF d
<1>5. PICK j \in 1 .. Len(orders) : orders[j].order_id_ = d /\ b.oid_to_order_[d] = For("ADD", orders[j])
  BY <1>4 DEF Holds
<1>. QED
  BY <1>1, <1>4, <1>5, ForFields

(* An order of the exchange is on the level at its price.                  *)
LEMMA OrderHasLevel ==
  ASSUME NEW b, NEW orders \in Seq(ExOrders), Holds(b, orders), NEW j \in 1 .. Len(orders)
  PROVE  LET i == priceToIndex(orders[j].price_)
             l == b.oid_to_price_level_[i]
         IN /\ i \in LevelsOf(b, orders[j].side_) /\ PriceOf(b, i) = orders[j].price_
            /\ \E k \in 1 .. Len(l.orders) : l.orders[k] = orders[j].order_id_
<1>. DEFINE d == orders[j].order_id_
            o == b.oid_to_order_[d]
            i == priceToIndex(orders[j].price_)
            l == b.oid_to_price_level_[i]
<1>1. orders[j] \in ExOrders /\ BookOK(b) /\ d \in OrderIds /\ o = For("ADD", orders[j])
  BY DEF Holds
<1>2. o # NULL /\ o.price_ = orders[j].price_ /\ o.side_ = orders[j].side_
  BY <1>1, NewMarketOrder, ForFields
<1>3. i \in Indexes /\ l # NULL /\ OrderOK(b, d)
  BY <1>1, <1>2, OrderFacts
<1>4. PICK k \in 1 .. Len(l.orders) : l.orders[k] = d
  BY <1>2, <1>3 DEF OrderOK
<1>5. LevelOK(b, i)
  BY <1>1, <1>3, LevelFacts
<1>6. l.side_ = o.side_ /\ l.price_ = o.price_
  BY <1>4, <1>5 DEF LevelOK
<1>. QED
  BY <1>2, <1>3, <1>4, <1>6, LevelsOfFacts DEF PriceOf

(* The exchange cancels an order and sends its CANCEL.                     *)
LEMMA CancelStep ==
  ASSUME NEW i \in 1 .. Len(ex), ClientBookInv, CancelOrder(i)
  PROVE  ClientBookInv'
<1>1. /\ ExchangeIs(ex, next_id)
      /\ pc = "running" => BookOK(book) /\ Way(book, inbox, ex, joined) /\ ExactOrUnknown(bbo_, book)
  BY BookInvIs DEF BookInv
<1>2. /\ inbox = << >> /\ ex' = RemoveAt(ex, i) /\ next_id' = next_id
      /\ inbox' = IF joined THEN <<For("CANCEL", Left(ex[i], ex[i].left_))>> ELSE << >>
      /\ aggressor' = NULL
      /\ joined' = joined /\ book' = book /\ bbo_' = bbo_ /\ pc' = pc
  BY Zenon DEF CancelOrder, Send
<1>3. ExchangeIs(ex', next_id')
  BY <1>1, <1>2, WithoutOne
<1>4. ex \in Seq(ExOrders)
  BY <1>1 DEF ExchangeIs
<1>5. ASSUME pc = "running" PROVE Way(book, inbox', ex', joined)
  <2>1. Way(book, << >>, ex, joined)
    BY <1>1, <1>2, <1>5
  <2>2. CASE joined
    <3>1. Holds(book, ex)
      BY <1>4, <2>1, <2>2, InStep DEF Way
    <3>. DEFINE m == For("CANCEL", Left(ex[i], ex[i].left_))
    <3>2. m.type_ = "CANCEL" /\ UpdatesOrder(m, ex[i], ex[i].left_)
      BY <1>4, LeftFacts, ForFields DEF UpdatesOrder
    <3>. HIDE DEF m
    <3>4. Changes(book, m) /\ Holds(Applied(book, m), ex')
      BY <1>1, <1>2, <3>1, <3>2, CancelSent
    <3>3. Way(book, <<m>>, ex', TRUE)
      BY <3>4, SendOne
    <3>. QED
      BY <1>2, <2>2, <3>3 DEF Way, m
  <2>3. CASE ~joined
    BY <1>2, <2>1, <2>3 DEF Way
  <2>. QED
    BY <2>2, <2>3
<1>6. BookInv(ex', next_id', aggressor', book', inbox', joined', bbo_', pc')
  BY <1>1, <1>2, <1>3, <1>5 DEF BookInv, AggressorIs
<1>. QED
  BY <1>6, BookInvIs

(* A trade with an order at the best price is what TradesOn asks for.      *)
LEMMA TradeTakes ==
  ASSUME NEW b, NEW orders, NEW next, ExchangeIs(orders, next), Holds(b, orders),
         NEW i \in 1 .. Len(orders), NEW t, NEW m,
         LET o == b.oid_to_order_[m.order_id_] IN
           /\ o.side_ = orders[i].side_ /\ o.price_ = orders[i].price_
           /\ t.type_ = "TRADE" /\ m.qty_ \in Nat /\ t.qty_ \in 1 .. o.qty_ - m.qty_
           /\ t.side_ \in Side \ {o.side_},
         \A j \in 1 .. Len(orders) : orders[j].side_ = orders[i].side_ =>
           AsGood(orders[i].side_, orders[i].price_, orders[j].price_)
  PROVE  TradesOn(b, t, m)
<1>1. orders \in Seq(ExOrders) /\ orders[i] \in ExOrders
  BY DEF ExchangeIs
<1>2. orders[i].side_ \in Side
  BY <1>1 DEF ExOrders
<1>3. \A k \in LevelsOf(b, orders[i].side_) :
        AsGood(orders[i].side_, orders[i].price_, b.oid_to_price_level_[k].price_)
  BY <1>1, <1>2, LevelHasOrder DEF PriceOf
<1>. QED
  BY <1>3 DEF TradesOn

(* Of two quantities the smaller one is filled.                            *)
LEMMA Filled ==
  ASSUME NEW p \in Qtys, NEW q \in Qtys, NEW f, f = IF p < q THEN p ELSE q
  PROVE  /\ f \in Nat \ {0} /\ p - f \in 0 .. p
         /\ p - f # 0 => p - f \in Qtys
         /\ f # q => q - f \in Qtys /\ q - f <= q
<1>1. p \in Nat \ {0} /\ q \in Nat \ {0}
  BY ClientBookAssumption
<1>2. \A n \in 1 .. p : n \in Qtys
  BY ClientBookAssumption
<1>3. \A n \in 1 .. q : n \in Qtys
  BY ClientBookAssumption
<1>4. f \in Nat \ {0} /\ f <= p /\ f <= q
  BY <1>1
<1>5. p - f # 0 => p - f \in 1 .. p
  BY <1>1, <1>4
<1>6. f # q => q - f \in 1 .. q
  BY <1>1, <1>4
<1>. QED
  BY <1>1, <1>2, <1>3, <1>4, <1>5, <1>6

(* The new order trades with an order of the best price: TRADE, then       *)
(* MODIFY or CANCEL.                                                       *)
LEMMA MatchStep ==
  ASSUME NEW i \in 1 .. Len(ex), ClientBookInv, Match(i)
  PROVE  ClientBookInv'
<1>. DEFINE o == ex[i]
            filled == IF o.left_ < aggressor.left_ THEN o.left_ ELSE aggressor.left_
            rest == o.left_ - filled
            t == Update("TRADE", NULL, aggressor.side_, o.price_, filled)
            p == Left(o, rest)
            m == For(IF rest = 0 THEN "CANCEL" ELSE "MODIFY", p)
            smaller == [aggressor EXCEPT !.left_ = aggressor.left_ - filled]
<1>1. /\ ExchangeIs(ex, next_id) /\ AggressorIs(aggressor, ex, next_id)
      /\ pc = "running" => BookOK(book) /\ Way(book, inbox, ex, joined) /\ ExactOrUnknown(bbo_, book)
  BY BookInvIs DEF BookInv
<1>2. /\ inbox = << >> /\ next_id' = next_id
      /\ aggressor # NULL /\ o.side_ # aggressor.side_
      /\ aggressor' = IF filled = aggressor.left_ THEN NULL ELSE smaller
      /\ ex' = IF rest = 0 THEN RemoveAt(ex, i) ELSE [ex EXCEPT ![i] = p]
      /\ inbox' = IF joined THEN <<t, m>> ELSE << >>
      /\ \A j \in 1 .. Len(ex) : ex[j].side_ = o.side_ => AsGood(o.side_, o.price_, ex[j].price_)
      /\ joined' = joined /\ book' = book /\ bbo_' = bbo_ /\ pc' = pc
  <2>1. /\ inbox = << >> /\ next_id' = next_id
        /\ aggressor # NULL /\ o.side_ # aggressor.side_
        /\ aggressor' = IF filled = aggressor.left_ THEN NULL ELSE smaller
        /\ \A j \in 1 .. Len(ex) : ex[j].side_ = o.side_ => AsGood(o.side_, o.price_, ex[j].price_)
        /\ joined' = joined /\ book' = book /\ bbo_' = bbo_ /\ pc' = pc
    BY Zenon DEF Match, Crosses, AtFront
  <2>2. CASE rest = 0
    BY <2>1, <2>2, Zenon DEF Match, Send
  <2>3. CASE rest # 0
    BY <2>1, <2>3, Zenon DEF Match, Send
  <2>. QED
    BY <2>2, <2>3, Zenon
<1>3. /\ ex \in Seq(ExOrders) /\ o \in ExOrders /\ o.side_ \in Side
      /\ o.left_ \in Qtys /\ o.qty_ \in Nat /\ o.left_ \in Nat /\ o.left_ <= o.qty_
  <2>1. ex \in Seq(ExOrders) /\ o.left_ <= o.qty_
    BY <1>1 DEF ExchangeIs
  <2>2. o \in ExOrders
    BY <2>1
  <2>3. o.side_ \in Side /\ o.left_ \in Qtys /\ o.qty_ \in Qtys
    BY <2>2 DEF ExOrders
  <2>. QED
    BY <2>1, <2>2, <2>3, ClientBookAssumption
<1>10. /\ aggressor \in ExOrders /\ aggressor.left_ <= aggressor.qty_
       /\ aggressor.order_id_ \in 1 .. next_id - 1 /\ ExchangeIs(ex, aggressor.order_id_)
  BY <1>1, <1>2, Zenon DEF AggressorIs
<1>11. /\ aggressor.side_ \in Side /\ aggressor.left_ \in Qtys
       /\ aggressor.left_ \in Nat /\ aggressor.qty_ \in Nat
  <2>1. aggressor.side_ \in Side /\ aggressor.left_ \in Qtys /\ aggressor.qty_ \in Qtys
    BY <1>10 DEF ExOrders
  <2>. QED
    BY <2>1, ClientBookAssumption
<1>4. /\ filled \in Nat \ {0} /\ rest \in Nat /\ o.left_ - rest = filled
      /\ rest # 0 => rest \in Qtys
      /\ filled # aggressor.left_ => /\ aggressor.left_ - filled \in Qtys
                                    /\ aggressor.left_ - filled <= aggressor.left_
  <2>. DEFINE f == filled
  <2>1. f = IF o.left_ < aggressor.left_ THEN o.left_ ELSE aggressor.left_
    OBVIOUS
  <2>. HIDE DEF f
  <2>2. /\ f \in Nat \ {0} /\ o.left_ - f \in 0 .. o.left_
        /\ o.left_ - f # 0 => o.left_ - f \in Qtys
        /\ f # aggressor.left_ => aggressor.left_ - f \in Qtys /\ aggressor.left_ - f <= aggressor.left_
    BY <1>3, <1>11, <2>1, Filled
  <2>3. f = filled
    BY DEF f
  <2>. HIDE DEF filled
  <2>. QED
    BY <1>3, <2>2, <2>3
<1>5. t.type_ = "TRADE" /\ t.qty_ = filled /\ t.side_ \in Side \ {o.side_}
  BY <1>2, <1>11 DEF Update
<1>6. /\ m.type_ = IF rest = 0 THEN "CANCEL" ELSE "MODIFY"
      /\ UpdatesOrder(m, o, rest)
  <2>1. p.order_id_ = o.order_id_ /\ p.side_ = o.side_ /\ p.price_ = o.price_ /\ p.qty_ = rest
    BY <1>3, LeftFacts
  <2>. HIDE DEF p
  <2>. QED
    BY <2>1, ForFields DEF UpdatesOrder
<1>12. smaller.order_id_ = aggressor.order_id_ /\ smaller.qty_ = aggressor.qty_
       /\ smaller.left_ = aggressor.left_ - filled
       /\ (aggressor.left_ - filled \in Qtys => smaller \in ExOrders)
  <2>. DEFINE n == aggressor.left_ - filled
  <2>1. smaller = [aggressor EXCEPT !.left_ = n]
    OBVIOUS
  <2>2. n = aggressor.left_ - filled
    OBVIOUS
  <2>. HIDE DEF n, smaller
  <2>3. /\ smaller.order_id_ = aggressor.order_id_ /\ smaller.qty_ = aggressor.qty_
        /\ smaller.left_ = n /\ (n \in Qtys => smaller \in ExOrders)
    BY <1>10, <2>1 DEF ExOrders
  <2>. QED
    BY <2>2, <2>3
<1>. HIDE DEF t, m, filled, rest, smaller
<1>9. ExchangeIs(ex', next_id')
  BY <1>1, <1>2, <1>4, WithoutOne, WithSmaller
<1>13. AggressorIs(aggressor', ex', next_id')
  <2>1. ExchangeIs(ex', aggressor.order_id_)
    BY <1>2, <1>4, <1>10, WithoutOne, WithSmaller
  <2>2. CASE filled = aggressor.left_
    BY <1>2, <2>2 DEF AggressorIs
  <2>3. CASE filled # aggressor.left_
    <3>1. smaller.left_ <= smaller.qty_
      BY <1>3, <1>4, <1>10, <1>11, <1>12, <2>3
    <3>. QED
      BY <1>2, <1>4, <1>10, <1>12, <2>1, <2>3, <3>1 DEF AggressorIs
  <2>. QED
    BY <2>2, <2>3
<1>7. ASSUME pc = "running" PROVE Way(book, inbox', ex', joined)
  <2>1. Way(book, << >>, ex, joined)
    BY <1>1, <1>2, <1>7
  <2>2. CASE joined
    <3>1. Holds(book, ex)
      BY <1>3, <2>1, <2>2, InStep DEF Way
    <3>. DEFINE ob == book.oid_to_order_[m.order_id_]
    <3>5. Changes(book, m) /\ Holds(Applied(book, m), ex')
      <4>1. CASE rest = 0
        BY <1>1, <1>2, <1>6, <3>1, <4>1, CancelSent
      <4>2. CASE rest # 0
        BY <1>1, <1>2, <1>4, <1>6, <3>1, <4>2, ModifySent
      <4>. QED
        BY <4>1, <4>2
    <3>2. m.qty_ = rest /\ ob.side_ = o.side_ /\ ob.price_ = o.price_ /\ ob.qty_ = o.qty_
      BY <1>3, <1>6, <3>1, KnownOrder DEF UpdatesOrder
    <3>6. filled \in 1 .. o.qty_ - rest
      BY <1>3, <1>4
    <3>3. TradesOn(book, t, m)
      BY <1>1, <1>2, <1>4, <1>5, <3>1, <3>2, <3>6, TradeTakes
    <3>4. Way(book, <<t, m>>, ex', TRUE)
      BY <3>5, <3>3, SendTwo
    <3>. QED
      BY <1>2, <2>2, <3>4 DEF Way
  <2>3. CASE ~joined
    BY <1>2, <2>1, <2>3 DEF Way
  <2>. QED
    BY <2>2, <2>3
<1>8. BookInv(ex', next_id', aggressor', book', inbox', joined', bbo_', pc')
  BY <1>1, <1>2, <1>9, <1>13, <1>7 DEF BookInv
<1>. QED
  BY <1>8, BookInvIs

(* The participant joins or recovers: a snapshot is under way.             *)
LEMMA JoinStep ==
  ASSUME ClientBookInv, Join \/ Recover
  PROVE  ClientBookInv'
<1>1. /\ ExchangeIs(ex, next_id) /\ AggressorIs(aggressor, ex, next_id)
      /\ pc = "running" => BookOK(book) /\ Way(book, inbox, ex, joined) /\ ExactOrUnknown(bbo_, book)
  BY BookInvIs DEF BookInv
<1>2. /\ joined' /\ inbox' = SnapshotOf(ex) /\ ex' = ex /\ next_id' = next_id /\ aggressor' = aggressor
      /\ book' = book /\ bbo_' = bbo_ /\ pc' = pc
  <2>1. Snapshot = SnapshotOf(ex)
    BY WayIs
  <2>2. CASE Join
    BY <2>1, <2>2, Zenon DEF Join
  <2>3. CASE Recover
    BY <2>1, <2>3, Zenon DEF Recover
  <2>. QED
    BY <2>2, <2>3
<1>3. Way(book', inbox', ex', joined')
  BY <1>2, Zenon DEF Way
<1>4. BookInv(ex', next_id', aggressor', book', inbox', joined', bbo_', pc')
  BY <1>1, <1>2, <1>3 DEF BookInv
<1>. QED
  BY <1>4, BookInvIs


----------------------------------------------------------------------------
(* The steps of the participant.                                           *)

(* updateBBO as a function (MarketOrderBook::updateBBO).                   *)
LEMMA UpdateBBOIs ==
  ASSUME NEW m, updateBBO(book, m, book')
  PROVE  bbo_' = Updated(bbo_, book, m, book')
BY Zenon DEF updateBBO, Updated, Quote

(* Of a snapshot, the next order.                                          *)
LEMMA ReplayStep ==
  ASSUME NoAlias, NEW b, NEW orders, NEW next, ExchangeIs(orders, next), NEW n \in 0 .. Len(orders),
         n # Len(orders), Holds(b, SubSeq(orders, 1, n)), orders[n + 1].order_id_ \in OrderIds
  PROVE  LET m == For("ADD", orders[n + 1])
             a == AddOrder(b, m)
         IN UpdateOf(b, a, m) /\ Holds(a, SubSeq(orders, 1, n + 1))
<1>. DEFINE s == SubSeq(orders, 1, n)
            o == orders[n + 1]
            m == For("ADD", o)
            a == AddOrder(b, m)
<1>1. orders \in Seq(ExOrders) /\ Len(orders) \in Nat /\ n \in Nat /\ n + 1 \in 1 .. Len(orders)
  BY DEF ExchangeIs
<1>2. /\ s \in Seq(ExOrders) /\ Len(s) = n /\ \A j \in 1 .. n : s[j] = orders[j]
      /\ o \in ExOrders
  BY <1>1
<1>3. \A j \in 1 .. n : j \in 1 .. Len(orders) /\ j < n + 1
  BY <1>1
<1>4. \A j \in 1 .. Len(s) : s[j].order_id_ < o.order_id_
  BY <1>1, <1>2, <1>3 DEF ExchangeIs
<1>5. \A j \in 1 .. Len(s) : s[j].price_ = o.price_ => s[j].side_ = o.side_
  BY <1>1, <1>2, <1>3 DEF ExchangeIs
<1>. HIDE DEF s, o
<1>6. /\ Holds(a, Append(s, o)) /\ Differs(b, a, priceToIndex(o.price_), o.order_id_)
      /\ b.oid_to_order_[o.order_id_] = NULL
      /\ \A x \in {a, b} : LET l == x.oid_to_price_level_[priceToIndex(o.price_)] IN
           l # NULL => l.side_ = o.side_ /\ l.price_ = o.price_
  <2>1. Holds(b, s) /\ o.order_id_ \in OrderIds
    BY DEF s, o
  <2>. QED
    BY <1>2, <1>4, <1>5, <2>1, AddHolds
<1>7. m.side_ = o.side_ /\ m.price_ = o.price_ /\ m.order_id_ = o.order_id_
  BY ForFields
<1>8. o.side_ \in Side /\ o.price_ \in Nat /\ priceToIndex(o.price_) \in Indexes
  <2>1. o.side_ \in Side /\ o.price_ \in Nat
    BY <1>2, ClientBookAssumption DEF ExOrders
  <2>. QED
    BY <2>1, ClientBookAssumption DEF priceToIndex, Indexes
<1>9. BookOK(a) /\ BookOK(b)
  BY <1>6 DEF Holds
<1>10. Holds(a, SubSeq(orders, 1, n + 1))
  <2>1. Len(Append(s, o)) = n + 1 /\ Append(s, o)[n + 1] = o
        /\ \A j \in 1 .. n : Append(s, o)[j] = s[j]
    BY <1>1, <1>2
  <2>2. Len(SubSeq(orders, 1, n + 1)) = n + 1
        /\ \A j \in 1 .. n + 1 : SubSeq(orders, 1, n + 1)[j] = orders[j]
    BY <1>1
  <2>3. \A j \in 1 .. n + 1 : SubSeq(orders, 1, n + 1)[j] = Append(s, o)[j]
    <3>1. \A j \in 1 .. n + 1 : j \in 1 .. n \/ j = n + 1
      BY <1>1
    <3>. QED
      BY <1>2, <2>1, <2>2, <3>1 DEF o
  <2>. QED
    BY <1>6, <2>1, <2>2, <2>3, HoldsSame
<1>. HIDE DEF a, m
<1>11. UpdateOf(b, a, m)
  BY <1>6, <1>7, <1>8, <1>9 DEF UpdateOf
<1>. QED
  BY <1>10, <1>11 DEF a, m, o

(* The participant handles an update (MarketOrderBook::onMarketUpdate).    *)
LEMMA UpdateStep ==
  ASSUME NoAlias, ClientBookInv, onMarketUpdate
  PROVE  ClientBookInv'
<1>. DEFINE m == Head(inbox)
<1>1. /\ ExchangeIs(ex, next_id) /\ AggressorIs(aggressor, ex, next_id) /\ pc = "running"
      /\ BookOK(book) /\ Way(book, inbox, ex, joined) /\ ExactOrUnknown(bbo_, book)
  BY BookInvIs DEF BookInv, onMarketUpdate
<1>2. /\ inbox # << >> /\ m.type_ # "CLEAR" /\ inbox' = Tail(inbox)
      /\ ex' = ex /\ next_id' = next_id /\ aggressor' = aggressor /\ joined' = joined
  BY Zenon DEF onMarketUpdate, exVars
<1>3. ex \in Seq(ExOrders)
  BY <1>1 DEF ExchangeIs
<1>4. joined
  BY <1>1, <1>2 DEF Way
<1>5. CASE pc' # "running"
  <2>1. BookInv(ex', next_id', aggressor', book', inbox', joined', bbo_', pc')
    BY <1>1, <1>2, <1>5 DEF BookInv
  <2>. QED
    BY <2>1, BookInvIs
<1>6. CASE pc' = "running"
  <2>1. /\ ~(m.type_ = "ADD" /\ NoRoom(book, m))
        /\ book' = Applied(book, m)
        /\ IF m.type_ = "TRADE" THEN bbo_' = bbo_ ELSE updateBBO(book, m, book')
    <3>1. ~(m.type_ = "ADD" /\ NoRoom(book, m))
      BY <1>6 DEF onMarketUpdate
    <3>. QED
      BY <3>1, Zenon DEF onMarketUpdate
  <2>2. SUFFICES BookOK(book') /\ Way(book', inbox', ex, TRUE) /\ ExactOrUnknown(bbo_', book')
    <3>1. Way(book', inbox', ex', joined')
      BY <1>2, <1>4, <2>2 DEF Way
    <3>2. BookInv(ex', next_id', aggressor', book', inbox', joined', bbo_', pc')
      BY <1>1, <1>2, <2>2, <3>1 DEF BookInv
    <3>. QED
      BY <3>2, BookInvIs
  <2>3. inbox # SnapshotOf(ex)
    BY <1>2, <1>3, SnapshotFacts DEF Update
  <2>4. \/ \E n \in 0 .. Len(ex) : inbox = Replay(ex, n) /\ Holds(book, SubSeq(ex, 1, n))
        \/ Delivers(book, inbox, ex)
    BY <1>1, <1>4, <2>3, Zenon DEF Way
  <2>5. CASE \E n \in 0 .. Len(ex) : inbox = Replay(ex, n) /\ Holds(book, SubSeq(ex, 1, n))
    <3>1. PICK n \in 0 .. Len(ex) : inbox = Replay(ex, n) /\ Holds(book, SubSeq(ex, 1, n))
      BY <2>5
    <3>2. n # Len(ex)
      BY <1>2, <1>3, <3>1, ReplayFacts
    <3>3. m = For("ADD", ex[n + 1]) /\ inbox' = Replay(ex, n + 1) /\ n + 1 \in 1 .. Len(ex)
      BY <1>2, <1>3, <3>1, <3>2, ReplayFacts
    <3>. HIDE DEF m
    <3>4. m.type_ = "ADD" /\ m.order_id_ = ex[n + 1].order_id_
      BY <3>3, ForFields
    <3>5. ex[n + 1].order_id_ \in OrderIds
      BY <2>1, <3>4 DEF NoRoom
    <3>6. book' = AddOrder(book, m)
      BY <2>1, <3>4 DEF Applied
    <3>7. UpdateOf(book, book', m) /\ Holds(book', SubSeq(ex, 1, n + 1))
      BY <1>1, <3>1, <3>2, <3>3, <3>5, <3>6, ReplayStep
    <3>8. bbo_' = Updated(bbo_, book, m, book')
      BY <2>1, <3>4, UpdateBBOIs
    <3>9. ExactOrUnknown(bbo_', book')
      BY <1>1, <3>7, <3>8, BBOAfter
    <3>10. n + 1 \in 0 .. Len(ex)
      BY <3>3
    <3>11. Way(book', inbox', ex, TRUE)
      BY <3>3, <3>7, <3>10 DEF Way
    <3>. QED
      BY <3>7, <3>9, <3>11 DEF Holds
  <2>6. CASE Delivers(book, inbox, ex)
    <3>. DEFINE c == inbox[Len(inbox)]
    <3>1. /\ inbox = <<c>> \/ (inbox = <<inbox[1], c>> /\ TradesOn(book, inbox[1], c))
          /\ Changes(book, c) /\ Holds(Applied(book, c), ex)
      BY <2>6, Zenon DEF Delivers
    <3>. HIDE DEF c
    <3>2. CASE inbox = <<c>>
      <4>1. m = c /\ inbox' = << >>
        BY <1>2, <3>2
      <4>2. book' = Applied(book, c) /\ c.type_ # "TRADE"
        BY <2>1, <3>1, <4>1 DEF Changes
      <4>3. UpdateOf(book, book', c)
        BY <1>1, <3>1, <4>2, ChangeUpdates
      <4>4. bbo_' = Updated(bbo_, book, c, book')
        BY <2>1, <4>1, <4>2, UpdateBBOIs
      <4>5. ExactOrUnknown(bbo_', book')
        BY <1>1, <4>3, <4>4, BBOAfter
      <4>6. Len(ex) \in 0 .. Len(ex) /\ Replay(ex, Len(ex)) = << >> /\ SubSeq(ex, 1, Len(ex)) = ex
        <5>1. Len(ex) \in 0 .. Len(ex)
          BY <1>3
        <5>. QED
          BY <1>3, <5>1, ReplayFacts, SubSeqFull
      <4>7. Way(book', inbox', ex, TRUE)
        BY <3>1, <4>1, <4>2, <4>6 DEF Way
      <4>. QED
        BY <4>3, <4>5, <4>7 DEF UpdateOf
    <3>3. CASE inbox = <<inbox[1], c>> /\ TradesOn(book, inbox[1], c)
      <4>. DEFINE t == inbox[1]
      <4>5. inbox = <<t, c>>
        BY <3>3
      <4>. HIDE DEF t
      <4>6. m = t /\ inbox' = <<c>>
        BY <1>2, <4>5
      <4>1. m = inbox[1] /\ inbox' = <<c>>
        BY <4>6 DEF t
      <4>2. m.type_ = "TRADE"
        BY <3>3, <4>1 DEF TradesOn
      <4>3. book' = book /\ bbo_' = bbo_
        BY <2>1, <4>2 DEF Applied
      <4>4. Way(book, <<c>>, ex, TRUE)
        BY <3>1, SendOne
      <4>. QED
        BY <1>1, <4>1, <4>3, <4>4
    <3>. QED
      BY <3>1, <3>2, <3>3
  <2>. QED
    BY <2>4, <2>5, <2>6
<1>. QED
  BY <1>5, <1>6

(* CLEAR on a book without levels leaves it empty; on any other it is the  *)
(* end.                                                                    *)
LEMMA ClearStep ==
  ASSUME ClientBookInv, Clear
  PROVE  ClientBookInv'
<1>1. /\ ExchangeIs(ex, next_id) /\ AggressorIs(aggressor, ex, next_id) /\ pc = "running"
      /\ BookOK(book) /\ Way(book, inbox, ex, joined) /\ ExactOrUnknown(bbo_, book)
  BY BookInvIs DEF BookInv, Clear
<1>2. /\ inbox # << >> /\ Head(inbox).type_ = "CLEAR" /\ inbox' = Tail(inbox)
      /\ ex' = ex /\ next_id' = next_id /\ aggressor' = aggressor /\ joined' = joined /\ bbo_' = bbo_
      /\ book' = [book EXCEPT !.oid_to_order_ = [i \in OrderIds |-> NULL]]
  BY Zenon DEF Clear, exVars
<1>3. ex \in Seq(ExOrders)
  BY <1>1 DEF ExchangeIs
<1>4. joined
  BY <1>1, <1>2 DEF Way
<1>5. CASE pc' # "running"
  <2>1. BookInv(ex', next_id', aggressor', book', inbox', joined', bbo_', pc')
    BY <1>1, <1>2, <1>5 DEF BookInv
  <2>. QED
    BY <2>1, BookInvIs
<1>6. CASE pc' = "running"
  <2>1. \A s \in Side : LevelsOf(book, s) = {}
    <3>. DEFINE Two == \E s \in Side : Cardinality(LevelsOf(book, s)) > 1
                One == \E s \in Side : LevelsOf(book, s) # {}
    <3>1. pc' = IF Two THEN "aborted" ELSE IF One THEN "corrupt" ELSE "running"
      BY Zenon DEF Clear
    <3>2. ~One
      <4>. HIDE DEF One, Two
      <4>. QED
        BY <1>6, <3>1
    <3>. QED
      BY <3>2
  <2>2. ASSUME NEW i \in Indexes, book.oid_to_price_level_[i] # NULL PROVE FALSE
    <3>1. book.oid_to_price_level_[i].side_ \in Side
      BY <1>1, <2>2, LevelFacts
    <3>. QED
      BY <2>1, <2>2, <3>1, LevelsOfFacts
  <2>3. \A s \in Side : bbo_[s] = NULL
    BY <1>1, <2>1, BestNone DEF ExactOrUnknown
  <2>4. book \in Books
    BY <1>1 DEF BookOK, Books
  <2>5. /\ book' \in Books /\ \A d \in OrderIds : book'.oid_to_order_[d] = NULL
        /\ \A i \in Indexes : book'.oid_to_price_level_[i] = NULL
    BY <1>2, <2>2, <2>4 DEF Books
  <2>6. BookOK(book')
    BY <2>5 DEF BookOK, Books
  <2>7. Holds(book', SubSeq(ex, 1, 0))
    <3>1. Len(SubSeq(ex, 1, 0)) = 0
      BY <1>3
    <3>. QED
      BY <2>5, <2>6, <3>1 DEF Holds
  <2>8. inbox = SnapshotOf(ex)
    <3>1. ASSUME NEW n \in 0 .. Len(ex), inbox = Replay(ex, n) PROVE FALSE
      <4>1. n # Len(ex)
        BY <1>2, <1>3, <3>1, ReplayFacts
      <4>2. Head(inbox) = For("ADD", ex[n + 1])
        BY <1>3, <3>1, <4>1, ReplayFacts
      <4>. QED
        BY <1>2, <4>2, ForFields
    <3>2. ~Delivers(book, inbox, ex)
      <4>. SUFFICES ASSUME Delivers(book, inbox, ex) PROVE FALSE
        OBVIOUS
      <4>. DEFINE c == inbox[Len(inbox)]
      <4>1. /\ inbox = <<c>> \/ (inbox = <<inbox[1], c>> /\ TradesOn(book, inbox[1], c))
            /\ Changes(book, c)
        BY Zenon DEF Delivers
      <4>. HIDE DEF c
      <4>2. Head(inbox) = c \/ (Head(inbox) = inbox[1] /\ TradesOn(book, inbox[1], c))
        BY <4>1
      <4>. QED
        BY <1>2, <4>1, <4>2 DEF Changes, TradesOn
    <3>. QED
      BY <1>1, <1>4, <3>1, <3>2 DEF Way
  <2>9. inbox' = Replay(ex, 0) /\ 0 \in 0 .. Len(ex)
    BY <1>2, <1>3, <2>8, SnapshotFacts
  <2>10. Way(book', inbox', ex', joined')
    BY <1>2, <1>4, <2>7, <2>9 DEF Way
  <2>11. ExactOrUnknown(bbo_', book')
    BY <1>2, <2>3 DEF ExactOrUnknown
  <2>12. BookInv(ex', next_id', aggressor', book', inbox', joined', bbo_', pc')
    BY <1>1, <1>2, <2>6, <2>10, <2>11 DEF BookInv
  <2>. QED
    BY <2>12, BookInvIs
<1>. QED
  BY <1>5, <1>6


(* The participant begins with an empty book.                              *)
LEMMA ClientBookInit ==
  ASSUME Init
  PROVE  ClientBookInv
<1>1. /\ ex = << >> /\ next_id = 1 /\ aggressor = NULL /\ inbox = << >> /\ joined = FALSE
      /\ book = [oid_to_order_ |-> [i \in OrderIds |-> NULL],
                 oid_to_price_level_ |-> [i \in Indexes |-> NULL]]
      /\ bbo_ = [s \in Side |-> NULL]
  BY Zenon DEF Init
<1>2. ExchangeIs(ex, next_id)
  BY <1>1 DEF ExchangeIs
<1>3. /\ book \in Books /\ \A d \in OrderIds : book.oid_to_order_[d] = NULL
      /\ \A i \in Indexes : book.oid_to_price_level_[i] = NULL
  BY <1>1 DEF Books
<1>. DEFINE none == << >>
<1>4. BookOK(book)
  BY <1>3 DEF BookOK, Books
<1>5. Holds(book, << >>)
  <2>1. Len(none) = 0
    OBVIOUS
  <2>. QED
    BY <1>3, <1>4, <2>1 DEF Holds
<1>6. Way(book, inbox, ex, joined)
  BY <1>1, <1>5 DEF Way
<1>7. ExactOrUnknown(bbo_, book)
  BY <1>1 DEF ExactOrUnknown
<1>8. BookInv(ex, next_id, aggressor, book, inbox, joined, bbo_, pc)
  BY <1>1, <1>2, <1>4, <1>6, <1>7 DEF BookInv, AggressorIs
<1>. QED
  BY <1>8, BookInvIs

(* Every step of the book and its exchange keeps the invariant.            *)
LEMMA ExchangeKeeps ==
  ASSUME ClientBookInv, Exchange
  PROVE  ClientBookInv'
<1>1. CASE \E s \in Side, p \in Prices, q \in Qtys : NewOrder(s, p, q)
  BY <1>1, NewOrderStep
<1>2. CASE \E i \in 1 .. Len(ex) : CancelOrder(i)
  BY <1>2, CancelStep
<1>3. CASE \E i \in 1 .. Len(ex) : Match(i)
  BY <1>3, MatchStep
<1>5. CASE Rest
  BY <1>5, RestStep
<1>4. CASE Join \/ Recover
  BY <1>4, JoinStep
<1>. QED
  BY <1>1, <1>2, <1>3, <1>4, <1>5, Zenon DEF Exchange

(* A step elsewhere changes nothing of the book or of what is under way.   *)
LEMMA UnchangedKeeps ==
  ASSUME ClientBookInv, UNCHANGED vars
  PROVE  ClientBookInv'
<1>1. ex' = ex /\ next_id' = next_id /\ aggressor' = aggressor /\ joined' = joined /\ inbox' = inbox /\ book' = book
      /\ bbo_' = bbo_ /\ pc' = pc
  BY DEF vars, exVars
<1>2. BookInv(ex', next_id', aggressor', book', inbox', joined', bbo_', pc')
  BY <1>1, BookInvIs
<1>. QED
  BY <1>2, BookInvIs

----------------------------------------------------------------------------
(* The market in the participant's book.                                   *)

(* The quantity at a price.                                                *)
QtyIn(orders, s, p) ==
  Total([i \in 1 .. Len(orders) |->
           IF orders[i].side_ = s /\ orders[i].price_ = p THEN orders[i].qty_ ELSE 0])

(* A level of a book has the quantity of the orders at its price.          *)
LEMMA LevelTotal ==
  ASSUME NEW b, NEW orders, NEW next, ExchangeIs(orders, next), Holds(b, orders),
         NEW s \in Side, NEW i \in LevelsOf(b, s)
  PROVE  /\ LevelQty(b, b.oid_to_price_level_[i]) = QtyIn(orders, s, PriceOf(b, i))
         /\ LevelQty(b, b.oid_to_price_level_[i]) \in Nat
<1>. DEFINE l == b.oid_to_price_level_[i]
            p == PriceOf(b, i)
            place(k) == CHOOSE j \in 1 .. Len(orders) : orders[j].order_id_ = l.orders[k]
            f == [k \in 1 .. Len(l.orders) |-> place(k)]
            u == [k \in 1 .. Len(l.orders) |-> b.oid_to_order_[l.orders[k]].qty_]
            v == [j \in 1 .. Len(orders) |->
                    IF orders[j].side_ = s /\ orders[j].price_ = p THEN orders[j].qty_ ELSE 0]
<1>1. /\ orders \in Seq(ExOrders) /\ Len(orders) \in Nat
      /\ \A j, k \in 1 .. Len(orders) : j < k => orders[j].order_id_ < orders[k].order_id_
  BY DEF ExchangeIs
<1>2. \A j \in 1 .. Len(orders) : orders[j] \in ExOrders /\ orders[j].order_id_ \in Nat
                                  /\ orders[j].qty_ \in Nat
  <2>1. \A j \in 1 .. Len(orders) : orders[j] \in ExOrders
    BY <1>1
  <2>. QED
    BY <2>1, ClientBookAssumption DEF ExOrders
<1>3. BookOK(b) /\ i \in Indexes /\ l # NULL /\ l.side_ = s /\ p = l.price_
  BY LevelsOfFacts DEF Holds, PriceOf
<1>4. /\ LevelOK(b, i) /\ Len(l.orders) \in Nat
      /\ \A k \in 1 .. Len(l.orders) : l.orders[k] \in OrderIds /\ l.orders[k] \in Nat
  BY <1>3, LevelFacts
<1>. HIDE DEF l, p
<1>5. \A k \in 1 .. Len(l.orders) :
        /\ b.oid_to_order_[l.orders[k]] # NULL
        /\ b.oid_to_order_[l.orders[k]].side_ = s /\ b.oid_to_order_[l.orders[k]].price_ = p
  BY <1>3, <1>4 DEF LevelOK, l
<1>6. ASSUME NEW k \in 1 .. Len(l.orders)
      PROVE  /\ f[k] \in 1 .. Len(orders) /\ orders[f[k]].order_id_ = l.orders[k]
             /\ b.oid_to_order_[l.orders[k]] = For("ADD", orders[f[k]])
  <2>1. \E j \in 1 .. Len(orders) : orders[j].order_id_ = l.orders[k]
    BY <1>4, <1>5 DEF Holds
  <2>2. place(k) \in 1 .. Len(orders) /\ orders[place(k)].order_id_ = l.orders[k]
    BY <2>1
  <2>3. f[k] = place(k)
    OBVIOUS
  <2>. HIDE DEF place, f
  <2>4. b.oid_to_order_[orders[f[k]].order_id_] = For("ADD", orders[f[k]])
    BY <2>2, <2>3 DEF Holds
  <2>. QED
    BY <2>2, <2>3, <2>4
<1>7. f \in [1 .. Len(l.orders) -> 1 .. Len(orders)]
  BY <1>6
<1>. HIDE DEF f
<1>8. \A j, k \in 1 .. Len(l.orders) : j < k => f[j] < f[k]
  <2>. SUFFICES ASSUME NEW j \in 1 .. Len(l.orders), NEW k \in 1 .. Len(l.orders), j < k, ~(f[j] < f[k])
       PROVE  FALSE
    OBVIOUS
  <2>1. l.orders[j] < l.orders[k]
    BY <1>4 DEF LevelOK, l
  <2>2. f[j] \in 1 .. Len(orders) /\ f[k] \in 1 .. Len(orders)
    BY <1>6
  <2>3. f[k] = f[j] \/ f[k] < f[j]
    BY <1>1, <2>2
  <2>4. orders[f[k]].order_id_ = orders[f[j]].order_id_ \/ orders[f[k]].order_id_ < orders[f[j]].order_id_
    BY <1>1, <2>2, <2>3
  <2>5. l.orders[k] = l.orders[j] \/ l.orders[k] < l.orders[j]
    BY <1>6, <2>4
  <2>. QED
    BY <1>4, <2>1, <2>5
<1>9. \A k \in 1 .. Len(l.orders) : u[k] = v[f[k]] /\ u[k] \in Nat
  <2>. SUFFICES ASSUME NEW k \in 1 .. Len(l.orders) PROVE u[k] = v[f[k]] /\ u[k] \in Nat
    OBVIOUS
  <2>1. /\ orders[f[k]].side_ = s /\ orders[f[k]].price_ = p
        /\ b.oid_to_order_[l.orders[k]].qty_ = orders[f[k]].qty_
    BY <1>5, <1>6, ForFields, SMTT(30)
  <2>. QED
    BY <1>2, <1>6, <2>1
<1>10. \A j \in 1 .. Len(orders) : v[j] # 0 => \E k \in 1 .. Len(l.orders) : f[k] = j
  <2>. SUFFICES ASSUME NEW j \in 1 .. Len(orders), v[j] # 0
       PROVE  \E k \in 1 .. Len(l.orders) : f[k] = j
    OBVIOUS
  <2>1. orders[j].side_ = s /\ orders[j].price_ = p
    OBVIOUS
  <2>2. priceToIndex(p) = i
    BY <1>3, <1>4 DEF LevelOK, l
  <2>3. PICK k \in 1 .. Len(l.orders) : l.orders[k] = orders[j].order_id_
    BY <1>1, <2>1, <2>2, OrderHasLevel DEF l
  <2>4. f[k] \in 1 .. Len(orders) /\ orders[f[k]].order_id_ = orders[j].order_id_
    BY <1>6, <2>3
  <2>5. ~(f[k] < j) /\ ~(j < f[k])
    BY <1>1, <1>2, <2>4
  <2>6. f[k] = j
    BY <2>4, <2>5
  <2>. QED
    BY <2>6
<1>11. u \in Seq(Nat) /\ v \in Seq(Nat) /\ Len(u) = Len(l.orders) /\ Len(v) = Len(orders)
  <2>1. \A k \in 1 .. Len(l.orders) : b.oid_to_order_[l.orders[k]].qty_ \in Nat
    BY <1>9
  <2>2. u \in Seq(Nat) /\ Len(u) = Len(l.orders)
    BY <1>4, <2>1
  <2>3. v \in Seq(Nat) /\ Len(v) = Len(orders)
    BY <1>1, <1>2
  <2>. QED
    BY <2>2, <2>3
<1>12. LevelQty(b, l) = Total(u) /\ QtyIn(orders, s, p) = Total(v)
  <2>1. LevelQty(b, l) = Total(u)
    BY Zenon DEF LevelQty
  <2>2. QtyIn(orders, s, p) = Total(v)
    BY Zenon DEF QtyIn
  <2>. QED
    BY <2>1, <2>2
<1>. HIDE DEF u, v
<1>13. Total(u) = Total(v)
  <2>1. f \in [1 .. Len(u) -> 1 .. Len(v)]
    BY <1>7, <1>11
  <2>2. \A j, k \in 1 .. Len(u) : j < k => f[j] < f[k]
    BY <1>8, <1>11
  <2>3. \A k \in 1 .. Len(u) : u[k] = v[f[k]]
    BY <1>9, <1>11
  <2>4. \A j \in 1 .. Len(v) : v[j] # 0 => \E k \in 1 .. Len(u) : f[k] = j
    BY <1>10, <1>11
  <2>. QED
    BY <1>11, <2>1, <2>2, <2>3, <2>4, SameTotal
<1>14. Total(u) \in Nat
  BY <1>11, TotalType
<1>. QED
  BY <1>12, <1>13, <1>14 DEF l, p

(* The best level of a side is the market's.                               *)
LEMMA BestIsMarket ==
  ASSUME NEW b, NEW orders, NEW next, ExchangeIs(orders, next), Holds(b, orders),
         NEW s \in Side, best(b, s) # NULL
  PROVE  LET p == best(b, s).price_ IN
         /\ p \in Nat
         /\ \E j \in 1 .. Len(orders) : orders[j].side_ = s /\ orders[j].price_ = p
         /\ \A j \in 1 .. Len(orders) : orders[j].side_ = s => AsGood(s, p, orders[j].price_)
         /\ LevelQty(b, best(b, s)) = QtyIn(orders, s, p) /\ LevelQty(b, best(b, s)) \in Nat
<1>1. orders \in Seq(ExOrders) /\ BookOK(b)
  BY DEF ExchangeIs, Holds
<1>2. PICK i \in LevelsOf(b, s) : /\ best(b, s) = b.oid_to_price_level_[i]
                                  /\ \A j \in LevelsOf(b, s) : AsGood(s, PriceOf(b, i), PriceOf(b, j))
  BY <1>1, BestOrNone
<1>3. best(b, s).price_ = PriceOf(b, i) /\ PriceOf(b, i) \in Nat
  BY <1>1, <1>2, LevelsOfFacts, LevelFacts DEF PriceOf
<1>4. \E j \in 1 .. Len(orders) : orders[j].side_ = s /\ orders[j].price_ = PriceOf(b, i)
  BY <1>1, LevelHasOrder
<1>5. \A j \in 1 .. Len(orders) : orders[j].side_ = s => AsGood(s, PriceOf(b, i), orders[j].price_)
  BY <1>1, <1>2, OrderHasLevel
<1>6. /\ LevelQty(b, b.oid_to_price_level_[i]) = QtyIn(orders, s, PriceOf(b, i))
      /\ LevelQty(b, b.oid_to_price_level_[i]) \in Nat
  BY LevelTotal
<1>. QED
  BY <1>2, <1>3, <1>4, <1>5, <1>6


(* A book that holds the exchange's orders is the exchange's book.         *)
LEMMA HeldIsExchange ==
  ASSUME ExchangeIs(ex, next_id), Holds(book, ex)
  PROVE  BookIsExchange
<1>1. /\ ex \in Seq(ExOrders) /\ Len(ex) \in Nat /\ BookOK(book)
      /\ \A j, k \in 1 .. Len(ex) : j < k => ex[j].order_id_ < ex[k].order_id_
  BY DEF ExchangeIs, Holds
<1>2. ASSUME NEW s \in Side, NEW p \in Prices
      PROVE  LET levels == {i \in LevelsOf(book, s) : book.oid_to_price_level_[i].price_ = p} IN
             /\ RestingAt(s, p) # {} <=> levels # {}
             /\ \A i \in levels : SameQueue(book.oid_to_price_level_[i].orders, RestingAt(s, p))
             /\ \A i, j \in levels : i = j
  <2>. DEFINE levels == {i \in LevelsOf(book, s) : book.oid_to_price_level_[i].price_ = p}
  <2>1. ASSUME NEW j \in RestingAt(s, p)
        PROVE  /\ priceToIndex(p) \in levels /\ j \in 1 .. Len(ex)
               /\ \E k \in 1 .. Len(book.oid_to_price_level_[priceToIndex(p)].orders) :
                    book.oid_to_price_level_[priceToIndex(p)].orders[k] = ex[j].order_id_
    <3>1. j \in 1 .. Len(ex) /\ ex[j].side_ = s /\ ex[j].price_ = p
      BY DEF RestingAt
    <3>. QED
      BY <1>1, <3>1, OrderHasLevel, SMTT(30) DEF PriceOf
  <2>2. ASSUME NEW i \in levels PROVE RestingAt(s, p) # {} /\ i = priceToIndex(p)
    <3>1. i \in LevelsOf(book, s) /\ PriceOf(book, i) = p
      BY DEF PriceOf
    <3>2. \E j \in 1 .. Len(ex) : ex[j].side_ = s /\ ex[j].price_ = p
      BY <1>1, <3>1, LevelHasOrder
    <3>3. LevelOK(book, i)
      BY <1>1, <3>1, LevelsOfFacts, LevelFacts
    <3>. QED
      BY <3>1, <3>2, <3>3 DEF RestingAt, LevelOK, PriceOf
  <2>3. ASSUME NEW i \in levels PROVE SameQueue(book.oid_to_price_level_[i].orders, RestingAt(s, p))
    <3>. DEFINE l == book.oid_to_price_level_[i]
    <3>1. i \in Indexes /\ l # NULL /\ l.side_ = s /\ l.price_ = p
      BY LevelsOfFacts
    <3>2. /\ LevelOK(book, i) /\ Len(l.orders) \in Nat /\ l.orders \in Seq(OrderIds)
          /\ \A k \in 1 .. Len(l.orders) : l.orders[k] \in OrderIds /\ l.orders[k] \in Nat
      BY <1>1, <3>1, LevelFacts
    <3>3. ASSUME NEW k \in 1 .. Len(l.orders)
          PROVE  \E j \in RestingAt(s, p) : ex[j].order_id_ = l.orders[k]
      <4>. DEFINE d == l.orders[k]
      <4>1. d \in OrderIds /\ book.oid_to_order_[d] # NULL /\ book.oid_to_order_[d].side_ = s
            /\ book.oid_to_order_[d].price_ = p
        BY <3>1, <3>2 DEF LevelOK
      <4>. HIDE DEF d
      <4>2. PICK j \in 1 .. Len(ex) : ex[j].order_id_ = d /\ book.oid_to_order_[d] = For("ADD", ex[j])
        BY <4>1 DEF Holds
      <4>3. ex[j].side_ = s /\ ex[j].price_ = p
        BY <4>1, <4>2, ForFields
      <4>. QED
        BY <4>2, <4>3 DEF RestingAt, d
    <3>4. \A j \in RestingAt(s, p) : \E k \in 1 .. Len(l.orders) : l.orders[k] = ex[j].order_id_
      BY <2>1, <2>2
    <3>5. \A j \in RestingAt(s, p) : j \in 1 .. Len(ex) /\ j \in Nat /\ ex[j].order_id_ \in Nat
      <4>1. \A j \in RestingAt(s, p) : j \in 1 .. Len(ex) /\ ex[j] \in ExOrders
        BY <1>1 DEF RestingAt
      <4>. QED
        BY <4>1 DEF ExOrders
    <3>. HIDE DEF l
    <3>6. ToSet(l.orders) = {ex[j].order_id_ : j \in RestingAt(s, p)}
      <4>1. ToSet(l.orders) = {l.orders[k] : k \in 1 .. Len(l.orders)}
        BY <3>2 DEF ToSet
      <4>. QED
        BY <3>3, <3>4, <4>1, SMTT(30)
    <3>7. ASSUME NEW x \in RestingAt(s, p), NEW y \in RestingAt(s, p),
                 NEW k \in 1 .. Len(l.orders), NEW m \in 1 .. Len(l.orders),
                 l.orders[k] = ex[x].order_id_, l.orders[m] = ex[y].order_id_
          PROVE  x < y <=> k < m
      <4>1. x < y => l.orders[k] < l.orders[m]
        BY <1>1, <3>5, <3>7
      <4>2. y < x => l.orders[m] < l.orders[k]
        BY <1>1, <3>5, <3>7
      <4>3. x = y => l.orders[k] = l.orders[m]
        BY <3>7
      <4>4. k < m => l.orders[k] < l.orders[m]
        BY <3>2 DEF LevelOK, l
      <4>5. m < k => l.orders[m] < l.orders[k]
        BY <3>2 DEF LevelOK, l
      <4>6. k = m => l.orders[k] = l.orders[m]
        OBVIOUS
      <4>7. x \in Nat /\ y \in Nat /\ k \in Nat /\ m \in Nat /\ l.orders[k] \in Nat /\ l.orders[m] \in Nat
        BY <3>2, <3>5
      <4>. QED
        BY <4>1, <4>2, <4>3, <4>4, <4>5, <4>6, <4>7
    <3>. QED
      BY <3>6, <3>7 DEF SameQueue, l
  <2>. QED
    BY <2>1, <2>2, <2>3
<1>3. {book.oid_to_order_[i] : i \in OrderIds} \ {NULL} = {For("ADD", ex[i]) : i \in 1 .. Len(ex)}
  <2>1. ASSUME NEW d \in OrderIds, book.oid_to_order_[d] # NULL
        PROVE  \E j \in 1 .. Len(ex) : book.oid_to_order_[d] = For("ADD", ex[j])
    BY <2>1 DEF Holds
  <2>2. ASSUME NEW j \in 1 .. Len(ex)
        PROVE  /\ ex[j].order_id_ \in OrderIds /\ For("ADD", ex[j]) # NULL
               /\ book.oid_to_order_[ex[j].order_id_] = For("ADD", ex[j])
    <3>1. ex[j] \in ExOrders /\ ex[j].order_id_ \in OrderIds
          /\ book.oid_to_order_[ex[j].order_id_] = For("ADD", ex[j])
      BY <1>1 DEF Holds
    <3>. QED
      BY <3>1, NewMarketOrder
  <2>. QED
    BY <2>1, <2>2
<1>4. ASSUME NEW j \in 1 .. Len(ex) PROVE ex[j].left_ <= book.oid_to_order_[ex[j].order_id_].qty_
  <2>1. book.oid_to_order_[ex[j].order_id_].qty_ = ex[j].qty_
    BY <1>1, KnownOrder
  <2>. QED
    BY <2>1 DEF ExchangeIs
<1>. QED
  BY <1>2, <1>3, <1>4 DEF BookIsExchange

(* With nothing under way the invariant gives the book and its best        *)
(* prices.                                                                 *)
LEMMA InvIsExchange ==
  ASSUME ClientBookInv
  PROVE  BookIsExchange /\ BBOExactOrUnknown
<1>1. BookInv(ex, next_id, aggressor, book, inbox, joined, bbo_, pc)
  BY BookInvIs
<1>2. CASE joined /\ inbox = << >> /\ pc = "running"
  <2>1. ex \in Seq(ExOrders)
    BY <1>1 DEF BookInv, ExchangeIs
  <2>2. Way(book, << >>, ex, TRUE)
    BY <1>1, <1>2 DEF BookInv, Way
  <2>3. Holds(book, ex)
    BY <2>1, <2>2, InStep
  <2>4. BookIsExchange
    BY <1>1, <2>3, HeldIsExchange DEF BookInv
  <2>. QED
    BY <2>4 DEF ClientBookInv, BBOExactOrUnknown
<1>3. CASE ~(joined /\ inbox = << >> /\ pc = "running")
  BY <1>3 DEF BookIsExchange, ClientBookInv, BBOExactOrUnknown
<1>. QED
  BY <1>2, <1>3

----------------------------------------------------------------------------
(* What the market maker names.                                            *)

(* The two prices weighted by their quantities, as a fraction.             *)
MarketPrice(bbo) ==
  <<bbo["BUY"].price_ * bbo["BUY"].qty_ + bbo["SELL"].price_ * bbo["SELL"].qty_,
    bbo["SELL"].qty_ + bbo["BUY"].qty_>>

(* The prices a maker names at a fair price.                               *)
Named(fair, bbo) ==
  LET bid  == bbo["BUY"].price_
      ask  == bbo["SELL"].price_
      joinBid == fair # NULL /\ AtLeastThreshold(fair[1] - bid * fair[2], fair[2])
      joinAsk == fair # NULL /\ AtLeastThreshold(ask * fair[2] - fair[1], fair[2])
  IN [bid_price |-> bid - (IF joinBid THEN 0 ELSE 1),
      ask_price |-> ask + (IF joinAsk THEN 0 ELSE 1), qty |-> Clip]

(* The prices of a side.                                                   *)
PricesIn(orders, s) == {orders[i].price_ : i \in {j \in 1 .. Len(orders) : orders[j].side_ = s}}

(* QuotesAroundMarket for an exchange with these orders.                   *)
Around(orders, quotes) ==
  \E bid \in PricesIn(orders, "BUY"), ask \in PricesIn(orders, "SELL") :
    /\ \A p \in PricesIn(orders, "BUY") : p <= bid
    /\ \A p \in PricesIn(orders, "SELL") : ask <= p
    /\ LET bq == QtyIn(orders, "BUY", bid)
           aq == QtyIn(orders, "SELL", ask)
       IN /\ quotes.bid_price \in {bid, bid - 1}
          /\ quotes.bid_price = bid <=> (ask - bid) * aq * ThresholdDen >= ThresholdNum * (aq + bq)
          /\ quotes.ask_price \in {ask, ask + 1}
          /\ quotes.ask_price = ask <=> (ask - bid) * bq * ThresholdDen >= ThresholdNum * (aq + bq)

(* QuotesAroundMarket as a predicate of the orders and the quotes.         *)
LEMMA QuotesIs ==
  /\ QuotesAroundMarket <=>
       (moved # NULL /\ algo_type_ = "MAKER" /\ inbox = << >> /\ pc = "running" => Around(ex, moved))
  /\ QuotesAroundMarket' <=>
       (moved' # NULL /\ algo_type_' = "MAKER" /\ inbox' = << >> /\ pc' = "running" => Around(ex', moved'))
<1>. DEFINE u(orders, s, p) ==
              [i \in 1 .. Len(orders) |->
                 IF i \in {j \in 1 .. Len(orders) : orders[j].side_ = s /\ orders[j].price_ = p}
                 THEN orders[i].qty_ ELSE 0]
            v(orders, s, p) ==
              [i \in 1 .. Len(orders) |->
                 IF orders[i].side_ = s /\ orders[i].price_ = p THEN orders[i].qty_ ELSE 0]
<1>1. ASSUME NEW orders, NEW s, NEW p PROVE u(orders, s, p) = v(orders, s, p)
  OBVIOUS
<1>2. ASSUME NEW s, NEW p
      PROVE  QtyAt(s, p) = Total(u(ex, s, p)) /\ QtyAt(s, p)' = Total(u(ex', s, p))
  BY Zenon DEF QtyAt, RestingAt
<1>3. ASSUME NEW orders, NEW s, NEW p PROVE QtyIn(orders, s, p) = Total(v(orders, s, p))
  BY Zenon DEF QtyIn
<1>. HIDE DEF u, v
<1>4. ASSUME NEW s, NEW p PROVE QtyAt(s, p) = QtyIn(ex, s, p)
  <2>1. QtyAt(s, p) = Total(v(ex, s, p))
    BY <1>1, <1>2
  <2>. QED
    BY <1>3, <2>1
<1>5. ASSUME NEW s, NEW p PROVE QtyAt(s, p)' = QtyIn(ex', s, p)
  <2>1. QtyAt(s, p)' = Total(v(ex', s, p))
    BY <1>1, <1>2
  <2>. QED
    BY <1>3, <2>1
<1>6. ASSUME NEW s PROVE PricesOf(s) = PricesIn(ex, s)
  BY Zenon DEF PricesOf, PricesIn
<1>7. ASSUME NEW s PROVE PricesOf(s)' = PricesIn(ex', s)
  BY Zenon DEF PricesOf, PricesIn
<1>8. QuotesAroundMarket <=>
        (moved # NULL /\ algo_type_ = "MAKER" /\ inbox = << >> /\ pc = "running" => Around(ex, moved))
  BY <1>4, <1>6, ZenonT(30) DEF QuotesAroundMarket, Around
<1>9. QuotesAroundMarket' <=>
        (moved' # NULL /\ algo_type_' = "MAKER" /\ inbox' = << >> /\ pc' = "running" => Around(ex', moved'))
  BY <1>5, <1>7, ZenonT(30) DEF QuotesAroundMarket, Around
<1>. QED
  BY <1>8, <1>9

(* A maker that names prices knows both sides and weighs them.             *)
LEMMA MakeIs ==
  ASSUME onOrderBookUpdate(bbo_'), algo_type_ = "MAKER", moved' # NULL,
         DOMAIN features = {"mkt_price_", "agg_trade_qty_ratio_"}
  PROVE  Known(bbo_') /\ moved' = Named(MarketPrice(bbo_'), bbo_')
<1>1. features' = MktPrice(features, bbo_') /\ Make(features', bbo_')
  BY DEF onOrderBookUpdate
<1>2. Known(bbo_')
  BY <1>1 DEF Make, NoOrders
<1>3. features'.mkt_price_ = MarketPrice(bbo_')
  BY <1>1, <1>2 DEF MktPrice, MarketPrice
<1>4. moved' = Named(features'.mkt_price_, bbo_')
  BY <1>1, <1>2, Zenon DEF Make, moveOrders, Named
<1>. QED
  BY <1>2, <1>3, <1>4

(* The weighted price is (ask - bid) times the other side's share of the   *)
(* quantity away from a side.                                              *)
LEMMA FairPrice ==
  ASSUME NEW bid \in Nat, NEW ask \in Nat, NEW bq \in Nat, NEW aq \in Nat
  PROVE  /\ (bid * bq + ask * aq) - bid * (aq + bq) = (ask - bid) * aq
         /\ ask * (aq + bq) - (bid * bq + ask * aq) = (ask - bid) * bq
         /\ <<bid * bq + ask * aq, aq + bq>> \in Int \X Int
OBVIOUS

(* The prices it names from an exact bbo are around the market.            *)
LEMMA NamedAround ==
  ASSUME NEW orders, NEW next, ExchangeIs(orders, next), NEW b, Holds(b, orders),
         NEW bbo, ExactOrUnknown(bbo, b), Known(bbo)
  PROVE  Around(orders, Named(MarketPrice(bbo), bbo))
<1>. DEFINE bid == bbo["BUY"].price_
            ask == bbo["SELL"].price_
            bq == bbo["BUY"].qty_
            aq == bbo["SELL"].qty_
            fair == MarketPrice(bbo)
            quotes == Named(fair, bbo)
<1>1. \A s \in Side : best(b, s) # NULL /\ bbo[s] = Quote(b, s)
  BY DEF Known, ExactOrUnknown
<1>2. ASSUME NEW s \in Side
      PROVE  bbo[s].price_ = best(b, s).price_ /\ bbo[s].qty_ = LevelQty(b, best(b, s))
  <2>1. bbo[s] = [price_ |-> best(b, s).price_, qty_ |-> LevelQty(b, best(b, s))]
    BY <1>1, Zenon DEF Quote
  <2>. QED
    BY <2>1
<1>3. ASSUME NEW s \in Side
      PROVE  /\ bbo[s].price_ \in Nat /\ bbo[s].qty_ \in Nat
             /\ bbo[s].price_ \in PricesIn(orders, s)
             /\ \A p \in PricesIn(orders, s) : AsGood(s, bbo[s].price_, p)
             /\ bbo[s].qty_ = QtyIn(orders, s, bbo[s].price_)
  <2>. DEFINE p == best(b, s).price_
  <2>1. /\ p \in Nat
        /\ \E j \in 1 .. Len(orders) : orders[j].side_ = s /\ orders[j].price_ = p
        /\ \A j \in 1 .. Len(orders) : orders[j].side_ = s => AsGood(s, p, orders[j].price_)
        /\ LevelQty(b, best(b, s)) = QtyIn(orders, s, p) /\ LevelQty(b, best(b, s)) \in Nat
    BY <1>1, BestIsMarket
  <2>. HIDE DEF p
  <2>2. bbo[s].price_ = p /\ bbo[s].qty_ = LevelQty(b, best(b, s))
    BY <1>2 DEF p
  <2>. QED
    BY <2>1, <2>2 DEF PricesIn
<1>4. "BUY" \in Side /\ "SELL" \in Side
  BY DEF Side
<1>5. /\ bid \in Nat /\ ask \in Nat /\ bq \in Nat /\ aq \in Nat
      /\ bid \in PricesIn(orders, "BUY") /\ ask \in PricesIn(orders, "SELL")
      /\ \A p \in PricesIn(orders, "BUY") : p <= bid
      /\ \A p \in PricesIn(orders, "SELL") : ask <= p
      /\ bq = QtyIn(orders, "BUY", bid) /\ aq = QtyIn(orders, "SELL", ask)
  <2>1. \A p \in PricesIn(orders, "BUY") : AsGood("BUY", bid, p)
    BY <1>3, <1>4
  <2>2. \A p \in PricesIn(orders, "SELL") : AsGood("SELL", ask, p)
    BY <1>3, <1>4
  <2>. QED
    BY <1>3, <1>4, <2>1, <2>2 DEF AsGood
<1>6. fair = <<bid * bq + ask * aq, aq + bq>>
  BY Zenon DEF MarketPrice
<1>7. quotes = [bid_price |-> bid - (IF fair # NULL /\ AtLeastThreshold(fair[1] - bid * fair[2], fair[2])
                                      THEN 0 ELSE 1),
                ask_price |-> ask + (IF fair # NULL /\ AtLeastThreshold(ask * fair[2] - fair[1], fair[2])
                                      THEN 0 ELSE 1),
                qty |-> Clip]
  BY Zenon DEF Named
<1>. HIDE DEF bid, ask, bq, aq, fair, quotes
<1>8. fair # NULL /\ fair[1] = bid * bq + ask * aq /\ fair[2] = aq + bq
  <2>1. <<bid * bq + ask * aq, aq + bq>> \in Int \X Int
    BY <1>5, FairPrice
  <2>2. fair # NULL
    BY <1>6, <2>1, NullFraction
  <2>. QED
    BY <1>6, <2>2
<1>. DEFINE near(d) == d * ThresholdDen >= ThresholdNum * (aq + bq)
<1>9. AtLeastThreshold(fair[1] - bid * fair[2], fair[2]) <=> near((ask - bid) * aq)
  <2>1. fair[1] - bid * fair[2] = (ask - bid) * aq
    BY <1>5, <1>8, FairPrice
  <2>. QED
    BY <1>8, <2>1, Zenon DEF AtLeastThreshold
<1>10. AtLeastThreshold(ask * fair[2] - fair[1], fair[2]) <=> near((ask - bid) * bq)
  <2>1. ask * fair[2] - fair[1] = (ask - bid) * bq
    BY <1>5, <1>8, FairPrice
  <2>. QED
    BY <1>8, <2>1, Zenon DEF AtLeastThreshold
<1>. HIDE DEF near
<1>11. /\ quotes.bid_price = bid - (IF near((ask - bid) * aq) THEN 0 ELSE 1)
       /\ quotes.ask_price = ask + (IF near((ask - bid) * bq) THEN 0 ELSE 1)
  BY <1>7, <1>8, <1>9, <1>10
<1>12. /\ quotes.bid_price \in {bid, bid - 1} /\ (quotes.bid_price = bid <=> near((ask - bid) * aq))
       /\ quotes.ask_price \in {ask, ask + 1} /\ (quotes.ask_price = ask <=> near((ask - bid) * bq))
  BY <1>5, <1>11
<1>13. Around(orders, quotes)
  <2>1. /\ quotes.bid_price \in {bid, bid - 1}
        /\ quotes.bid_price = bid <=>
             (ask - bid) * QtyIn(orders, "SELL", ask) * ThresholdDen
               >= ThresholdNum * (QtyIn(orders, "SELL", ask) + QtyIn(orders, "BUY", bid))
        /\ quotes.ask_price \in {ask, ask + 1}
        /\ quotes.ask_price = ask <=>
             (ask - bid) * QtyIn(orders, "BUY", bid) * ThresholdDen
               >= ThresholdNum * (QtyIn(orders, "SELL", ask) + QtyIn(orders, "BUY", bid))
    BY <1>5, <1>12, Zenon DEF near
  <2>. QED
    BY <1>5, <2>1, Zenon DEF Around
<1>. QED
  BY <1>13 DEF quotes, fair


----------------------------------------------------------------------------
(* What the liquidity taker names.                                         *)

(* A trade comes with what is left of its order.                           *)
LEMMA TradeComes ==
  ASSUME ClientBookInv, onMarketUpdate, Head(inbox).type_ = "TRADE"
  PROVE  \E t, c : /\ Head(inbox) = t /\ inbox' = <<c>>
                   /\ TradesOn(book, t, c) /\ Changes(book, c)
                   /\ book' = book /\ BookOK(book) /\ ExactOrUnknown(bbo_, book)
<1>1. /\ ExchangeIs(ex, next_id) /\ BookOK(book) /\ Way(book, inbox, ex, joined)
      /\ ExactOrUnknown(bbo_, book)
  BY BookInvIs DEF BookInv, onMarketUpdate
<1>2. inbox # << >> /\ inbox' = Tail(inbox)
  BY DEF onMarketUpdate
<1>3. ex \in Seq(ExOrders)
  BY <1>1 DEF ExchangeIs
<1>4. joined
  BY <1>1, <1>2 DEF Way
<1>5. inbox # SnapshotOf(ex)
  BY <1>3, SnapshotFacts DEF Update
<1>6. ASSUME NEW n \in 0 .. Len(ex), inbox = Replay(ex, n) PROVE FALSE
  <2>1. n # Len(ex)
    BY <1>2, <1>3, <1>6, ReplayFacts
  <2>2. Head(inbox) = For("ADD", ex[n + 1])
    BY <1>3, <1>6, <2>1, ReplayFacts
  <2>. QED
    BY <2>2, ForFields
<1>7. Delivers(book, inbox, ex)
  BY <1>1, <1>4, <1>5, <1>6 DEF Way
<1>. DEFINE c == inbox[Len(inbox)]
            t == inbox[1]
<1>8. inbox = <<c>> \/ (inbox = <<t, c>> /\ TradesOn(book, t, c))
  BY <1>7, Zenon DEF Delivers
<1>9. Changes(book, c)
  BY <1>7, Zenon DEF Delivers
<1>. HIDE DEF c, t
<1>10. inbox # <<c>>
  <2>. SUFFICES ASSUME inbox = <<c>> PROVE FALSE
    OBVIOUS
  <2>1. Head(inbox) = c
    OBVIOUS
  <2>. QED
    BY <1>9, <2>1 DEF Changes
<1>11. Head(inbox) = t /\ inbox' = <<c>> /\ TradesOn(book, t, c)
  <2>1. inbox = <<t, c>> /\ TradesOn(book, t, c)
    BY <1>8, <1>10
  <2>2. Head(<<t, c>>) = t /\ Tail(<<t, c>>) = <<c>>
    OBVIOUS
  <2>. QED
    BY <1>2, <2>1, <2>2
<1>12. book' = book
  <2>1. book' = Applied(book, Head(inbox))
    BY Zenon DEF onMarketUpdate
  <2>. QED
    BY <2>1 DEF Applied
<1>. QED
  BY <1>1, <1>9, <1>11, <1>12

(* TakesWhatTraded for this book, the update after the trade, and the      *)
(* quotes.                                                                 *)
TakesRest(b, in, named) ==
  /\ in # << >>
  /\ LET m == Head(in)
         o == b.oid_to_order_[m.order_id_]
         l == b.oid_to_price_level_[priceToIndex(o.price_)]
     IN /\ (o.qty_ - m.qty_) * ThresholdDen >= ThresholdNum * LevelQty(b, l)
        /\ named.bid_price = IF o.side_ = "SELL" THEN o.price_ ELSE NULL
        /\ named.ask_price = IF o.side_ = "BUY" THEN o.price_ ELSE NULL

(* TakesWhatTraded as a predicate of the book and the quotes.              *)
LEMMA TakesIs ==
  /\ TakesWhatTraded <=> (moved # NULL /\ algo_type_ = "TAKER" => TakesRest(book, inbox, moved))
  /\ TakesWhatTraded' <=> (moved' # NULL /\ algo_type_' = "TAKER" => TakesRest(book', inbox', moved'))
BY Zenon DEF TakesWhatTraded, TakesRest

(* The side a trade takes from.                                            *)
Other(side) == IF side = "BUY" THEN "SELL" ELSE "BUY"

(* A taker that names a price knows both sides; it follows the trade.      *)
LEMMA TakeIs ==
  ASSUME NEW t, onTradeUpdate(bbo_, t), algo_type_ = "TAKER", moved' # NULL,
         DOMAIN features = {"mkt_price_", "agg_trade_qty_ratio_"}
  PROVE  /\ Known(bbo_)
         /\ AtLeastThreshold(t.qty_, bbo_[Other(t.side_)].qty_)
         /\ moved' = IF t.side_ = "BUY"
                     THEN [bid_price |-> bbo_["SELL"].price_, ask_price |-> NULL, qty |-> Clip]
                     ELSE [bid_price |-> NULL, ask_price |-> bbo_["BUY"].price_, qty |-> Clip]
<1>1. features' = AggTradeQtyRatio(features, bbo_, t) /\ Take(features', bbo_, t)
  BY DEF onTradeUpdate
<1>2. /\ Known(bbo_)
      /\ AtLeastThreshold(features'.agg_trade_qty_ratio_[1], features'.agg_trade_qty_ratio_[2])
      /\ IF t.side_ = "BUY" THEN moveOrders(bbo_["SELL"].price_, NULL, Clip)
         ELSE moveOrders(NULL, bbo_["BUY"].price_, Clip)
  BY <1>1, Zenon DEF Take, NoOrders
<1>3. features'.agg_trade_qty_ratio_ = <<t.qty_, bbo_[Other(t.side_)].qty_>>
  BY <1>1, <1>2 DEF AggTradeQtyRatio, Other
<1>4. AtLeastThreshold(t.qty_, bbo_[Other(t.side_)].qty_)
  BY <1>2, <1>3
<1>. QED
  BY <1>2, <1>4, Zenon DEF moveOrders

(* A larger number times the same is no smaller.                           *)
LEMMA Times ==
  ASSUME NEW m \in Int, NEW n \in Int, NEW d \in Nat, m <= n
  PROVE  m * d <= n * d
OBVIOUS

(* A level has a quantity.                                                 *)
LEMMA LevelQtyType ==
  ASSUME NEW b, BookOK(b), NEW i \in Indexes, b.oid_to_price_level_[i] # NULL
  PROVE  LevelQty(b, b.oid_to_price_level_[i]) \in Nat
<1>. DEFINE l == b.oid_to_price_level_[i]
            u == [k \in 1 .. Len(l.orders) |-> b.oid_to_order_[l.orders[k]].qty_]
<1>1. /\ Len(l.orders) \in Nat /\ LevelOK(b, i)
      /\ \A k \in 1 .. Len(l.orders) : l.orders[k] \in OrderIds
  BY LevelFacts
<1>2. \A k \in 1 .. Len(l.orders) : b.oid_to_order_[l.orders[k]] # NULL
  BY <1>1 DEF LevelOK
<1>3. \A k \in 1 .. Len(l.orders) : b.oid_to_order_[l.orders[k]].qty_ \in Nat
  BY <1>1, <1>2, OrderFacts
<1>. HIDE DEF l
<1>4. u \in Seq(Nat)
  BY <1>1, <1>3
<1>. HIDE DEF u
<1>5. Total(u) \in Nat
  BY <1>4, TotalType
<1>. QED
  BY <1>5 DEF LevelQty, u, l

(* What it follows takes the threshold's share of the level.               *)
LEMMA TakesRestOf ==
  ASSUME ClientBookInv, onMarketUpdate, Head(inbox).type_ = "TRADE",
         onTradeUpdate(bbo_, Head(inbox)), algo_type_ = "TAKER", moved' # NULL,
         DOMAIN features = {"mkt_price_", "agg_trade_qty_ratio_"}
  PROVE  TakesRest(book', inbox', moved')
<1>1. PICK t, c : /\ Head(inbox) = t /\ inbox' = <<c>>
                  /\ TradesOn(book, t, c) /\ Changes(book, c)
                  /\ book' = book /\ BookOK(book) /\ ExactOrUnknown(bbo_, book)
  BY TradeComes
<1>. DEFINE o == book.oid_to_order_[c.order_id_]
            i == priceToIndex(o.price_)
            l == book.oid_to_price_level_[i]
<1>2. /\ c.order_id_ \in OrderIds /\ o # NULL
      /\ c.qty_ \in Nat /\ t.qty_ \in 1 .. o.qty_ - c.qty_ /\ t.side_ \in Side \ {o.side_}
      /\ \A k \in LevelsOf(book, o.side_) : AsGood(o.side_, o.price_, book.oid_to_price_level_[k].price_)
  BY <1>1 DEF Changes, TradesOn
<1>3. o.side_ \in Side /\ i \in Indexes /\ l # NULL /\ OrderOK(book, c.order_id_)
  BY <1>1, <1>2, OrderFacts
<1>4. l.side_ = o.side_ /\ l.price_ = o.price_
  <2>1. PICK k \in 1 .. Len(l.orders) : l.orders[k] = c.order_id_
    BY <1>3 DEF OrderOK
  <2>2. LevelOK(book, i)
    BY <1>1, <1>3, LevelFacts
  <2>. QED
    BY <2>1, <2>2 DEF LevelOK
<1>5. best(book, o.side_) = l
  <2>1. i \in LevelsOf(book, o.side_) /\ PriceOf(book, i) = o.price_
    BY <1>3, <1>4, LevelsOfFacts DEF PriceOf
  <2>2. \A k \in LevelsOf(book, o.side_) : AsGood(o.side_, PriceOf(book, i), PriceOf(book, k))
    BY <1>2, <2>1 DEF PriceOf
  <2>. QED
    BY <1>1, <1>3, <2>1, <2>2, BestIs
<1>6. /\ Known(bbo_) /\ AtLeastThreshold(t.qty_, bbo_[Other(t.side_)].qty_)
      /\ moved' = IF t.side_ = "BUY"
                  THEN [bid_price |-> bbo_["SELL"].price_, ask_price |-> NULL, qty |-> Clip]
                  ELSE [bid_price |-> NULL, ask_price |-> bbo_["BUY"].price_, qty |-> Clip]
  BY <1>1, TakeIs
<1>. HIDE DEF o, l
<1>7. Other(t.side_) = o.side_ /\ (t.side_ = "BUY" <=> o.side_ = "SELL") /\ (t.side_ # "BUY" <=> o.side_ = "BUY")
  BY <1>2, <1>3 DEF Side, Other
<1>8. bbo_[o.side_].price_ = o.price_ /\ bbo_[o.side_].qty_ = LevelQty(book, l)
  <2>1. bbo_[o.side_] = Quote(book, o.side_)
    BY <1>1, <1>3, <1>6 DEF ExactOrUnknown, Known
  <2>2. bbo_[o.side_] = [price_ |-> l.price_, qty_ |-> LevelQty(book, l)]
    BY <1>5, <2>1, Zenon DEF Quote
  <2>. QED
    BY <1>4, <2>2
<1>9. (o.qty_ - c.qty_) * ThresholdDen >= ThresholdNum * LevelQty(book, l)
  <2>1. AtLeastThreshold(t.qty_, LevelQty(book, l))
    BY <1>6, <1>7, <1>8
  <2>2. t.qty_ * ThresholdDen >= ThresholdNum * LevelQty(book, l)
    BY <2>1, Zenon DEF AtLeastThreshold
  <2>3. o.qty_ \in Nat
    BY <1>1, <1>2, OrderFacts DEF o
  <2>4. o.qty_ - c.qty_ \in Int /\ t.qty_ \in Int /\ t.qty_ <= o.qty_ - c.qty_
    BY <1>2, <2>3
  <2>5. t.qty_ * ThresholdDen <= (o.qty_ - c.qty_) * ThresholdDen
    BY <2>4, TradeEngineAssumption, Times
  <2>6. LevelQty(book, l) \in Nat
    BY <1>1, <1>3, LevelQtyType DEF l
  <2>. QED
    BY <2>2, <2>4, <2>5, <2>6, TradeEngineAssumption
<1>10. /\ moved'.bid_price = IF o.side_ = "SELL" THEN o.price_ ELSE NULL
       /\ moved'.ask_price = IF o.side_ = "BUY" THEN o.price_ ELSE NULL
  <2>1. CASE t.side_ = "BUY"
    <3>1. o.side_ = "SELL" /\ moved' = [bid_price |-> o.price_, ask_price |-> NULL, qty |-> Clip]
      BY <1>6, <1>7, <1>8, <2>1
    <3>. QED
      BY <3>1
  <2>2. CASE t.side_ # "BUY"
    <3>1. o.side_ = "BUY" /\ moved' = [bid_price |-> NULL, ask_price |-> o.price_, qty |-> Clip]
      BY <1>6, <1>7, <1>8, <2>2
    <3>. QED
      BY <3>1
  <2>. QED
    BY <2>1, <2>2
<1>11. inbox' # << >> /\ Head(inbox') = c
  BY <1>1
<1>. QED
  BY <1>1, <1>9, <1>10, <1>11 DEF TakesRest, o, l


----------------------------------------------------------------------------
(* The steps of the trade engine.                                          *)

(* With no price named, there is nothing to say of it.                     *)
LEMMA NothingNamed ==
  /\ moved = NULL => QuotesAroundMarket /\ TakesWhatTraded
  /\ moved' = NULL => QuotesAroundMarket' /\ TakesWhatTraded'
BY QuotesIs, TakesIs

(* The participant handles an update and its algorithm runs                *)
(* (TradeEngine::run).                                                     *)
LEMMA HandleStep ==
  ASSUME NoAlias, TradeEngineInv, HandleUpdate
  PROVE  TradeEngineInv'
<1>1. ClientBookInv /\ DOMAIN features = {"mkt_price_", "agg_trade_qty_ratio_"}
  BY DEF TradeEngineInv
<1>2. /\ onMarketUpdate \/ Clear
      /\ IF pc' = "aborted" THEN NoOrders /\ UNCHANGED features
         ELSE IF Head(inbox).type_ = "TRADE" THEN onTradeUpdate(bbo_, Head(inbox))
         ELSE onOrderBookUpdate(bbo_')
      /\ algo_type_' = algo_type_
  BY Zenon DEF HandleUpdate
<1>3. ClientBookInv'
  BY <1>1, <1>2, UpdateStep, ClearStep
<1>4. CASE pc' = "aborted"
  <2>1. moved' = NULL /\ features' = features
    BY <1>2, <1>4 DEF NoOrders
  <2>. QED
    BY <1>1, <1>3, <2>1, NothingNamed DEF TradeEngineInv
<1>5. CASE pc' # "aborted" /\ Head(inbox).type_ = "TRADE"
  <2>. DEFINE t == Head(inbox)
  <2>1. onTradeUpdate(bbo_, t) /\ onMarketUpdate
    BY <1>2, <1>5 DEF Clear
  <2>2. DOMAIN features' = DOMAIN features
    BY <2>1 DEF onTradeUpdate, AggTradeQtyRatio
  <2>3. algo_type_ # "TAKER" => moved' = NULL
    BY <2>1 DEF onTradeUpdate, NoOrders
  <2>4. ASSUME moved' # NULL, algo_type_ = "TAKER" PROVE TakesRest(book', inbox', moved')
    BY <1>1, <1>5, <2>1, <2>4, TakesRestOf
  <2>5. TakesWhatTraded'
    BY <1>2, <2>4, TakesIs
  <2>6. QuotesAroundMarket'
    BY <1>2, <2>3, QuotesIs
  <2>. QED
    BY <1>1, <1>3, <1>5, <2>2, <2>5, <2>6 DEF TradeEngineInv
<1>6. CASE pc' # "aborted" /\ Head(inbox).type_ # "TRADE"
  <2>1. onOrderBookUpdate(bbo_')
    BY <1>2, <1>6
  <2>2. DOMAIN features' = DOMAIN features
    BY <2>1 DEF onOrderBookUpdate, MktPrice
  <2>3. algo_type_ # "MAKER" => moved' = NULL
    BY <2>1 DEF onOrderBookUpdate, NoOrders
  <2>4. ASSUME moved' # NULL, algo_type_ = "MAKER", inbox' = << >>, pc' = "running"
        PROVE  Around(ex', moved')
    <3>1. Known(bbo_') /\ moved' = Named(MarketPrice(bbo_'), bbo_')
      BY <1>1, <2>1, <2>4, MakeIs
    <3>2. /\ ExchangeIs(ex', next_id') /\ Way(book', << >>, ex', joined')
          /\ ExactOrUnknown(bbo_', book')
      BY <1>3, <2>4, BookInvIs DEF BookInv
    <3>3. joined'
      <4>1. joined' = joined /\ inbox # << >> /\ pc = "running"
        BY <1>2 DEF onMarketUpdate, Clear, exVars
      <4>2. Way(book, inbox, ex, joined)
        BY <1>1, <4>1, BookInvIs DEF BookInv
      <4>. QED
        BY <4>1, <4>2 DEF Way
    <3>4. ex' \in Seq(ExOrders)
      BY <3>2 DEF ExchangeIs
    <3>5. Way(book', << >>, ex', TRUE)
      BY <3>2, <3>3 DEF Way
    <3>6. Holds(book', ex')
      BY <3>4, <3>5, InStep
    <3>. QED
      BY <3>1, <3>2, <3>6, NamedAround
  <2>5. QuotesAroundMarket'
    BY <1>2, <2>4, QuotesIs
  <2>6. TakesWhatTraded'
    BY <1>2, <2>3, TakesIs
  <2>. QED
    BY <1>1, <1>3, <1>6, <2>2, <2>5, <2>6 DEF TradeEngineInv
<1>. QED
  BY <1>4, <1>5, <1>6

(* Every step keeps the invariant.                                         *)
LEMMA EngineKeeps ==
  ASSUME NoAlias, TradeEngineInv, [EngineNext]_<<vars, engineVars>>
  PROVE  TradeEngineInv'
<1>1. ClientBookInv /\ DOMAIN features = {"mkt_price_", "agg_trade_qty_ratio_"}
  BY DEF TradeEngineInv
<1>2. CASE ExchangeStep
  <2>1. Exchange /\ moved' = NULL /\ features' = features
    BY <1>2 DEF ExchangeStep
  <2>2. ClientBookInv'
    BY <1>1, <2>1, ExchangeKeeps
  <2>. QED
    BY <1>1, <2>1, <2>2, NothingNamed DEF TradeEngineInv
<1>3. CASE HandleUpdate
  BY <1>3, HandleStep
<1>4. CASE OtherTicker
  <2>1. UNCHANGED vars /\ moved' = NULL /\ DOMAIN features' = DOMAIN features
    BY <1>4 DEF OtherTicker
  <2>2. ClientBookInv'
    BY <1>1, <2>1, UnchangedKeeps
  <2>. QED
    BY <1>1, <2>1, <2>2, NothingNamed DEF TradeEngineInv
<1>5. CASE UNCHANGED <<vars, engineVars>>
  <2>1. UNCHANGED vars /\ moved' = moved /\ features' = features /\ algo_type_' = algo_type_
    BY <1>5 DEF engineVars
  <2>2. pc' = pc /\ ex' = ex /\ inbox' = inbox /\ book' = book
    BY <2>1 DEF vars, exVars
  <2>3. ClientBookInv'
    BY <1>1, <2>1, UnchangedKeeps
  <2>5. QuotesAroundMarket /\ TakesWhatTraded
    BY DEF TradeEngineInv
  <2>6. QuotesAroundMarket'
    BY <2>1, <2>2, <2>5, QuotesIs
  <2>7. TakesWhatTraded'
    BY <2>1, <2>2, <2>5, TakesIs
  <2>. QED
    BY <1>1, <2>1, <2>3, <2>6, <2>7 DEF TradeEngineInv
<1>. QED
  BY <1>2, <1>3, <1>4, <1>5 DEF EngineNext

(* As long as no two prices in use share an entry of the price index, the  *)
(* participant's book is sound and what is under way leads it to the       *)
(* exchange's, whatever is sent and whenever it joins or recovers          *)
(* (MarketOrderBook::onMarketUpdate, TradeEngine::run).                    *)
THEOREM TradeEngineInvariant ==
  ASSUME NoAlias
  PROVE  EngineSpec => []TradeEngineInv
<1>1. EngineInit => TradeEngineInv
  <2>. SUFFICES ASSUME EngineInit PROVE TradeEngineInv
    OBVIOUS
  <2>1. /\ Init /\ moved = NULL /\ features = [mkt_price_ |-> NULL, agg_trade_qty_ratio_ |-> NULL]
    BY DEF EngineInit
  <2>2. ClientBookInv
    BY <2>1, ClientBookInit
  <2>3. DOMAIN features = {"mkt_price_", "agg_trade_qty_ratio_"}
    BY <2>1
  <2>. QED
    BY <2>1, <2>2, <2>3, NothingNamed DEF TradeEngineInv
<1>2. TradeEngineInv /\ [EngineNext]_<<vars, engineVars>> => TradeEngineInv'
  BY EngineKeeps
<1>. QED
  BY <1>1, <1>2, PTL DEF EngineSpec

(* Once the updates sent are handled, the participant's levels and orders  *)
(* are those of the exchange, in the same priority and with the quantities *)
(* announced, never fewer than are left, unless a CLEAR has found levels   *)
(* to free (MarketOrderBook::onMarketUpdate, MEOrderBook::add).            *)
THEOREM BookIsTheExchanges ==
  ASSUME NoAlias
  PROVE  EngineSpec => []BookIsExchange
<1>1. TradeEngineInv => BookIsExchange
  BY InvIsExchange DEF TradeEngineInv
<1>. QED
  BY <1>1, TradeEngineInvariant, PTL

(* The best bid and offer that the algorithms see are the book's or not    *)
(* known, although updateBBO looks only at what the update touches         *)
(* (MarketOrderBook::updateBBO).                                           *)
THEOREM BBOIsExact ==
  ASSUME NoAlias
  PROVE  EngineSpec => []BBOExactOrUnknown
<1>1. TradeEngineInv => BBOExactOrUnknown
  BY InvIsExchange DEF TradeEngineInv
<1>. QED
  BY <1>1, TradeEngineInvariant, PTL

(* The prices that a market maker names are around the exchange's market   *)
(* once all updates are handled, each joined exactly if it is as far from  *)
(* the price weighted by the quantities announced as the threshold says,   *)
(* although the FeatureEngine is written for other instruments too, until  *)
(* a CLEAR has found levels to free (MarketMaker::onOrderBookUpdate).      *)
THEOREM QuotesFollowMarket ==
  ASSUME NoAlias
  PROVE  EngineSpec => []QuotesAroundMarket
<1>1. TradeEngineInv => QuotesAroundMarket
  BY DEF TradeEngineInv
<1>. QED
  BY <1>1, TradeEngineInvariant, PTL

(* A liquidity taker follows a trade only if the threshold's share of its  *)
(* level goes with it, at the price of the trade                           *)
(* (LiquidityTaker::onTradeUpdate).                                        *)
THEOREM TakerFollowsTrade ==
  ASSUME NoAlias
  PROVE  EngineSpec => []TakesWhatTraded
<1>1. TradeEngineInv => TakesWhatTraded
  BY DEF TradeEngineInv
<1>. QED
  BY <1>1, TradeEngineInvariant, PTL

============================================================================
