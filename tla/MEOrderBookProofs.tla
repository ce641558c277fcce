------------------------- MODULE MEOrderBookProofs -------------------------
(***************************************************************************)
(* The invariant of the matching engine is inductive, whatever the         *)
(* clients, prices, quantities and pool sizes, as long as no two prices in *)
(* use share an entry of the price index (NoAlias).  First what each       *)
(* operation on the book's pointer structure preserves, one lemma per      *)
(* operation; then the steps of the engine; then that each of these maps   *)
(* to a step of the limit order book with price-time priority              *)
(* (LimitOrderBook), or to no step at all.                                 *)
(***************************************************************************)
EXTENDS MEOrderBook, WellFoundedInduction, TLAPS

(* A pool with a free cell has a first one: what updateNextFree finds.     *)
LEMMA FirstFreeIsFree ==
  ASSUME NEW S \in SUBSET Nat, S # {}
  PROVE  FirstFree(S) \in S
<1>. DEFINE R == {ss \in Nat \X Nat : ss[1] < ss[2]}
<1>1. IsWellFoundedOn(R, Nat)
  BY NatLessThanWellFounded DEF OpToRel
<1>2. PICK x \in S : \A y \in S : <<y, x>> \notin R
  BY <1>1, WFMin
<1>3. ASSUME NEW y \in S PROVE x <= y
  <2>1. x \in Nat /\ y \in Nat /\ <<y, x>> \notin R
    BY <1>2
  <2>2. ~(y < x)
    BY <2>1
  <2>. QED
    BY <2>1, <2>2
<1>. QED
  BY <1>3 DEF FirstFree

----------------------------------------------------------------------------
(* Taking an order out of the book.                                        *)

(* A live cell holds an order or a level, and live cells are cells.        *)
LEMMA LiveCells ==
  ASSUME BookTypeOK
  PROVE  /\ \A o \in LiveOrders : o \in OrderCells /\ order[o] \in MEOrder
         /\ \A l \in LiveLevels : l \in LevelCells /\ level[l] \in MEOrdersAtPrice
         /\ \A o \in OrderCells \ LiveOrders : order[o] = NULL
         /\ \A l \in LevelCells \ LiveLevels : level[l] = NULL
         /\ NULL \notin OrderCells /\ NULL \notin LevelCells
BY NullAssumption, NullRecords, OrdersAssumption, LevelsAssumption
   DEF BookTypeOK, LiveOrders, LiveLevels, FreeOrders, FreeLevels, OrderCells, LevelCells

(* The price index has an entry for every price (priceToIndex).            *)
LEMMA IndexOfPrice ==
  ASSUME NEW p \in Prices
  PROVE  priceToIndex(p) \in LevelCells
<1>. DEFINE N == ME_MAX_PRICE_LEVELS
<1>1. p \in Nat /\ N \in Nat /\ N > 0
  BY PriceAssumption, LevelsAssumption
<1>2. p % N \in 0 .. N - 1
  BY <1>1, Z3
<1>. QED
  BY <1>2 DEF priceToIndex, LevelCells

(* An order that is its own neighbour is the only one of its price.        *)
LEMMA AloneAtPrice ==
  ASSUME BookTypeOK, OrderRingInv, FifoInv, OrderIdInv,
         NEW o \in LiveOrders, next_order_[o] = o,
         NEW q \in LiveOrders, order[q].price_ = order[o].price_
  PROVE  q = o
<1>1. order[o] \in MEOrder /\ order[q] \in MEOrder
  BY LiveCells
<1>2. order[q].market_order_id_ \in Nat /\ order[o].market_order_id_ \in Nat
  BY <1>1 DEF MEOrder
<1>. DEFINE h == orders_head_[getOrderAtPrice(order[o].price_)]
<1>3. /\ order[h].market_order_id_ <= order[q].market_order_id_
      /\ h = o => order[q].market_order_id_ <= order[o].market_order_id_
      /\ h # o => order[o].market_order_id_ > order[o].market_order_id_
  BY DEF FifoInv
<1>4. order[q].market_order_id_ = order[o].market_order_id_
  BY <1>2, <1>3
<1>. QED
  BY <1>4 DEF OrderIdInv

(* A live level is the only one of its price.                              *)
LEMMA OneLevelPerPrice ==
  ASSUME PriceIndexInv, NEW l \in LiveLevels, NEW m \in LiveLevels,
         level[l].price_ = level[m].price_
  PROVE  l = m
BY DEF PriceIndexInv

(* Worse is a strict total order of the prices, for either side.           *)
LEMMA WorseIsOrder ==
  ASSUME NEW s \in Side, NEW p \in Prices, NEW q \in Prices, NEW r \in Prices
  PROVE  /\ ~Worse(s, p, p)
         /\ Worse(s, p, q) => ~Worse(s, q, p)
         /\ Worse(s, p, q) /\ Worse(s, q, r) => Worse(s, p, r)
         /\ p # q => Worse(s, p, q) \/ Worse(s, q, p)
BY PriceAssumption DEF Worse, Side

(* A level that is its own neighbour is the only one of its side.          *)
LEMMA AloneOnSide ==
  ASSUME BookTypeOK, PriceIndexInv, BestInv, SortedInv,
         NEW l \in LiveLevels, next_[l] = l,
         NEW m \in LiveLevels, level[m].side_ = level[l].side_
  PROVE  m = l
<1>. DEFINE s == level[l].side_
<1>1. /\ s \in Side
      /\ level[l].price_ \in Nat /\ level[m].price_ \in Nat
  BY LiveCells, PriceAssumption DEF MEOrdersAtPrice
<1>2. l = best[s]
  <2>1. next_[l] # best[s] => Worse(s, level[l].price_, level[l].price_)
    BY DEF SortedInv
  <2>. QED
    BY <1>1, <2>1 DEF Worse
<1>3. /\ ~Worse(s, level[m].price_, level[l].price_)
      /\ ~Worse(s, level[l].price_, level[m].price_)
  BY <1>2 DEF SortedInv, BestInv
<1>. QED
  BY <1>1, <1>3, OneLevelPerPrice DEF Worse, Side

(* removeOrder, with the removal of a level that it leaves empty, keeps    *)
(* the book's invariant and takes exactly the one order out of it.         *)
LEMMA RemoveOrder ==
  ASSUME NoAlias, BookTypeOK, BookInv, NEW o \in LiveOrders, removeOrder(o)
  PROVE  /\ BookTypeOK' /\ BookInv'
         /\ LiveOrders' = LiveOrders \ {o}
         /\ \A q \in LiveOrders' : order'[q] = order[q]
<1>. DEFINE l == getOrderAtPrice(order[o].price_)
            s == order[o].side_
            n == next_order_[o]
            p == prev_order_[o]
            k == <<order[o].client_id_, order[o].client_order_id_>>
<1>. USE DEF BookInv
<1>1. /\ o \in OrderCells /\ order[o] \in MEOrder /\ l \in LiveLevels
      /\ l \in LevelCells /\ level[l] \in MEOrdersAtPrice
      /\ level[l].price_ = order[o].price_ /\ level[l].side_ = s
      /\ n \in LiveOrders /\ p \in LiveOrders /\ prev_order_[n] = o /\ next_order_[p] = o
  BY LiveCells DEF OrderRingInv
<1>2. /\ order' = [order EXCEPT ![o] = NULL]
      /\ LiveOrders' = LiveOrders \ {o}
      /\ \A q \in LiveOrders' : order'[q] = order[q]
  BY <1>1 DEF removeOrder, LiveOrders, FreeOrders, BookTypeOK
<1>3. ClientIndexInv'
  BY <1>1, <1>2, LiveCells DEF removeOrder, ClientIndexInv, BookTypeOK, MEOrder
<1>4. OrderIdInv' /\ NotCrossed'
  BY <1>2 DEF OrderIdInv, NotCrossed
<1>5. CASE n = o
  <2>1. p = o
    BY <1>1, <1>5
  <2>2. \A q \in LiveOrders : order[q].price_ = order[o].price_ => q = o
    BY <1>5, AloneAtPrice
  <2>3. removeOrderAtPrice(l)
    BY <1>5, <2>1 DEF removeOrder
  <2>4. /\ next_order_' = [next_order_ EXCEPT ![o] = NULL]
        /\ prev_order_' = [prev_order_ EXCEPT ![o] = NULL]
    BY <1>5, <2>1 DEF removeOrder
  <2>5. /\ next_[l] \in LiveLevels /\ prev_[l] \in LiveLevels
        /\ prev_[next_[l]] = l /\ next_[prev_[l]] = l
        /\ level[next_[l]].side_ = s /\ level[prev_[l]].side_ = s
        /\ best[s] # NULL /\ best[s] \in LiveLevels /\ level[best[s]].side_ = s
    BY <1>1 DEF LevelRingInv, BestInv, MEOrdersAtPrice
  <2>6. /\ LiveLevels' = LiveLevels \ {l}
        /\ \A m \in LiveLevels' : level'[m] = level[m] /\ orders_head_'[m] = orders_head_[m]
        /\ level' = [level EXCEPT ![l] = NULL]
    BY <1>1, <2>3 DEF removeOrderAtPrice, LiveLevels, FreeLevels, BookTypeOK
  <2>7. BookTypeOK'
    <3>1. /\ order' \in [OrderCells -> MEOrder \cup {NULL}]
          /\ next_order_' \in [OrderCells -> OrderPtr]
          /\ prev_order_' \in [OrderCells -> OrderPtr]
          /\ orders_next_free' \in OrderCells
          /\ cid_oid_to_order_' \in [Clients \X ClientOids -> OrderPtr]
      BY <1>2, <2>4 DEF BookTypeOK, removeOrder, OrderPtr
    <3>2. next_[l] \in LevelPtr /\ prev_[l] \in LevelPtr /\ NULL \in LevelPtr /\ NULL \in OrderPtr
      BY <1>1 DEF BookTypeOK, LevelPtr, OrderPtr
    <3>3. /\ level' \in [LevelCells -> MEOrdersAtPrice \cup {NULL}]
          /\ orders_head_' \in [LevelCells -> OrderPtr]
          /\ price_to_orders_at_price_' \in [LevelCells -> LevelPtr]
          /\ levels_next_free' \in LevelCells
      BY <2>3, <3>2 DEF BookTypeOK, removeOrderAtPrice
    <3>4. /\ next_' \in [LevelCells -> LevelPtr]
          /\ prev_' \in [LevelCells -> LevelPtr]
          /\ best' \in [Side -> LevelPtr]
      BY <2>3, <3>2 DEF BookTypeOK, removeOrderAtPrice
    <3>. QED
      BY <3>1, <3>3, <3>4 DEF BookTypeOK
  <2>8. PoolInv'
    BY <1>1, <1>2, <2>3, <2>6 DEF PoolInv, BookTypeOK, removeOrder, removeOrderAtPrice,
       FreeOrders, FreeLevels
  <2>9. /\ \A i \in LevelCells : price_to_orders_at_price_'[i] =
             IF i = priceToIndex(order[o].price_) THEN NULL ELSE price_to_orders_at_price_[i]
        /\ priceToIndex(order[o].price_) \in LevelCells
    <3>1. priceToIndex(order[o].price_) \in LevelCells
      BY <1>1, IndexOfPrice DEF MEOrder
    <3>. QED
      BY <1>1, <2>3, <3>1 DEF removeOrderAtPrice, BookTypeOK
  <2>10. PriceIndexInv'
    <3>1. ASSUME NEW i \in LevelCells, price_to_orders_at_price_'[i] # NULL
          PROVE  /\ price_to_orders_at_price_'[i] \in LiveLevels'
                 /\ priceToIndex(level'[price_to_orders_at_price_'[i]].price_) = i
      BY <1>1, <2>6, <2>9, <3>1 DEF PriceIndexInv
    <3>2. ASSUME NEW m \in LiveLevels' PROVE getOrderAtPrice(level[m].price_)' = m
      <4>1. level[m].price_ \in Prices /\ order[o].price_ \in Prices /\ m \in LiveLevels /\ m # l
        BY <1>1, <2>6, LiveCells DEF MEOrdersAtPrice
      <4>2. getOrderAtPrice(level[m].price_) = m
        BY <4>1 DEF PriceIndexInv
      <4>3. priceToIndex(level[m].price_) # priceToIndex(order[o].price_)
        BY <4>1, <4>2 DEF NoAlias, getOrderAtPrice
      <4>4. priceToIndex(level[m].price_) \in LevelCells
        BY <4>1, IndexOfPrice
      <4>. QED
        BY <2>6, <2>9, <4>2, <4>3, <4>4 DEF getOrderAtPrice, priceToIndex
    <3>. QED
      BY <3>1, <3>2 DEF PriceIndexInv, priceToIndex
  <2>11. ASSUME NEW q \in LiveOrders'
         PROVE  /\ getOrderAtPrice(order[q].price_) \in LiveLevels'
                /\ getOrderAtPrice(order[q].price_)' = getOrderAtPrice(order[q].price_)
                /\ order'[q] = order[q] /\ q \in LiveOrders /\ q # o
                /\ next_order_'[q] = next_order_[q] /\ prev_order_'[q] = prev_order_[q]
    <3>1. /\ q \in LiveOrders /\ q # o /\ q \in OrderCells /\ order[q] \in MEOrder
          /\ order[q].price_ # order[o].price_
      BY <1>2, <2>2, LiveCells
    <3>2. /\ getOrderAtPrice(order[q].price_) \in LiveLevels
          /\ getOrderAtPrice(order[q].price_) # l
      BY <1>1, <3>1 DEF OrderRingInv
    <3>3. priceToIndex(order[q].price_) \in LevelCells
      BY <3>1, IndexOfPrice DEF MEOrder
    <3>4. getOrderAtPrice(order[q].price_)' = getOrderAtPrice(order[q].price_)
      BY <1>2, <2>9, <3>2, <3>3 DEF getOrderAtPrice, priceToIndex
    <3>. QED
      BY <1>2, <2>4, <2>6, <3>1, <3>2, <3>4 DEF BookTypeOK
  <2>12. OrderRingInv'
    <3>1. ASSUME NEW q \in LiveOrders'
          PROVE  next_order_[q] # o /\ prev_order_[q] # o
      BY <2>2, <2>11, <1>1 DEF OrderRingInv
    <3>2. ASSUME NEW q \in LiveOrders'
          PROVE  /\ next_order_'[q] \in LiveOrders' /\ prev_order_'[next_order_'[q]] = q
                 /\ prev_order_'[q] \in LiveOrders' /\ next_order_'[prev_order_'[q]] = q
                 /\ order'[next_order_'[q]].price_ = order'[q].price_
      BY <1>2, <2>11, <3>1 DEF OrderRingInv
    <3>3. ASSUME NEW q \in LiveOrders'
          PROVE  LET m == getOrderAtPrice(order[q].price_)' IN
                 /\ m \in LiveLevels' /\ level'[m].price_ = order'[q].price_
                 /\ level'[m].side_ = order'[q].side_
      BY <2>6, <2>11 DEF OrderRingInv
    <3>4. ASSUME NEW m \in LiveLevels'
          PROVE  /\ orders_head_'[m] \in LiveOrders'
                 /\ order'[orders_head_'[m]].price_ = level'[m].price_
      <4>1. m \in LiveLevels /\ m # l
        BY <2>6
      <4>2. orders_head_[m] # o
        BY <1>1, <4>1 DEF OrderRingInv, PriceIndexInv
      <4>. QED
        BY <1>2, <2>6, <4>1, <4>2 DEF OrderRingInv
    <3>. QED
      BY <3>2, <3>3, <3>4 DEF OrderRingInv
  <2>13. FifoInv'
    <3>1. ASSUME NEW q \in LiveOrders'
          PROVE  orders_head_'[getOrderAtPrice(order[q].price_)'] =
                   orders_head_[getOrderAtPrice(order[q].price_)]
      BY <2>6, <2>11
    <3>2. ASSUME NEW q \in LiveOrders'
          PROVE  /\ orders_head_[getOrderAtPrice(order[q].price_)] \in LiveOrders'
                 /\ next_order_[q] \in LiveOrders'
      BY <2>11, <2>12, <3>1 DEF OrderRingInv
    <3>. QED
      BY <2>11, <3>1, <3>2 DEF FifoInv
  <2>14. LevelRingInv' /\ BestInv' /\ SortedInv'
    <3>1. /\ \A m \in LiveLevels' : m \in LiveLevels /\ m # l /\ m \in LevelCells
          /\ \A m \in LiveLevels' : level[m].side_ \in Side
      BY <2>6, LiveCells DEF MEOrdersAtPrice
    <3>2. CASE next_[l] = l
      <4>1. /\ next_' = [next_ EXCEPT ![l] = NULL]
            /\ prev_' = [prev_ EXCEPT ![l] = NULL]
            /\ best' = [best EXCEPT ![s] = NULL]
        BY <1>1, <2>3, <3>2 DEF removeOrderAtPrice
      <4>2. \A m \in LiveLevels' : level[m].side_ # s
        BY <1>1, <3>1, <3>2, AloneOnSide
      <4>3. \A m \in LiveLevels' :
              /\ next_'[m] = next_[m] /\ prev_'[m] = prev_[m]
              /\ next_[m] # l /\ prev_[m] # l
              /\ best'[level[m].side_] = best[level[m].side_]
        BY <1>1, <2>5, <3>1, <4>1, <4>2 DEF BookTypeOK, LevelRingInv
      <4>4. \A m \in LiveLevels' : next_[m] \in LiveLevels' /\ prev_[m] \in LiveLevels'
        BY <2>6, <3>1, <4>3 DEF LevelRingInv
      <4>5. LevelRingInv'
        BY <2>6, <3>1, <4>3, <4>4 DEF LevelRingInv
      <4>6. BestInv'
        <5>1. \A t \in Side : best'[t] # NULL =>
                best'[t] \in LiveLevels' /\ level'[best'[t]].side_ = t
          BY <1>1, <2>6, <4>1 DEF BestInv, BookTypeOK
        <5>. QED
          BY <2>6, <3>1, <4>3, <5>1 DEF BestInv
      <4>7. SortedInv'
        BY <2>6, <3>1, <4>3, <4>4 DEF SortedInv
      <4>. QED
        BY <4>5, <4>6, <4>7
    <3>3. CASE next_[l] # l
      <4>. DEFINE nl == next_[l]
                  pl == prev_[l]
      <4>1. /\ next_' = [next_ EXCEPT ![pl] = nl, ![l] = NULL]
            /\ prev_' = [prev_ EXCEPT ![nl] = pl, ![l] = NULL]
            /\ best' = IF best[s] = l THEN [best EXCEPT ![s] = nl] ELSE best
        BY <1>1, <2>3, <3>3 DEF removeOrderAtPrice
      <4>2. nl \in LiveLevels' /\ pl \in LiveLevels' /\ nl # l /\ pl # l
        BY <2>5, <2>6, <3>3
      <4>3. \A m \in LiveLevels' :
              /\ next_'[m] = IF m = pl THEN nl ELSE next_[m]
              /\ prev_'[m] = IF m = nl THEN pl ELSE prev_[m]
        BY <3>1, <4>1, <4>2 DEF BookTypeOK
      <4>4. \A t \in Side : best'[t] = IF t = s /\ best[s] = l THEN nl ELSE best[t]
        BY <1>1, <4>1 DEF BookTypeOK
      <4>5. \A m \in LiveLevels' :
              /\ m # pl => next_[m] # l /\ next_[m] \in LiveLevels'
              /\ m # nl => prev_[m] # l /\ prev_[m] \in LiveLevels'
        BY <2>6, <3>1, <4>2 DEF LevelRingInv
      <4>6. LevelRingInv'
        <5>1. ASSUME NEW m \in LiveLevels'
              PROVE  next_'[m] \in LiveLevels' /\ prev_'[next_'[m]] = m
          BY <2>5, <3>1, <4>2, <4>3, <4>5 DEF LevelRingInv
        <5>2. ASSUME NEW m \in LiveLevels'
              PROVE  prev_'[m] \in LiveLevels' /\ next_'[prev_'[m]] = m
          BY <2>5, <3>1, <4>2, <4>3, <4>5 DEF LevelRingInv
        <5>3. ASSUME NEW m \in LiveLevels'
              PROVE  level'[next_'[m]].side_ = level'[m].side_
          BY <2>5, <2>6, <3>1, <4>2, <4>3, <4>5 DEF LevelRingInv
        <5>. QED
          BY <5>1, <5>2, <5>3 DEF LevelRingInv
      <4>7. BestInv'
        <5>1. \A t \in Side : best'[t] # NULL =>
                best'[t] \in LiveLevels' /\ level'[best'[t]].side_ = t
          BY <1>1, <2>5, <2>6, <4>2, <4>4 DEF BestInv
        <5>2. ASSUME NEW m \in LiveLevels'
              PROVE  LET t == level[m].side_ IN
                     /\ best'[t] # NULL
                     /\ ~Worse(t, level[best'[t]].price_, level[m].price_)
          <6>. DEFINE t == level[m].side_
          <6>1. /\ m \in LiveLevels /\ t \in Side /\ best[t] # NULL
                /\ ~Worse(t, level[best[t]].price_, level[m].price_)
            BY <3>1 DEF BestInv
          <6>2. CASE t = s /\ best[s] = l
            <7>1. best'[t] = nl /\ best'[t] # NULL
              BY <2>6, <4>2, <4>4, <6>1, <6>2, LiveCells
            <7>2. CASE nl = best[s]
              BY <4>2, <6>2, <7>2
            <7>3. CASE nl # best[s]
              <8>1. /\ Worse(s, level[nl].price_, level[l].price_)
                    /\ ~(/\ Worse(s, level[m].price_, level[l].price_)
                         /\ Worse(s, level[nl].price_, level[m].price_))
                BY <1>1, <6>1, <6>2, <7>3 DEF SortedInv
              <8>2. Worse(s, level[m].price_, level[l].price_)
                <9>1. level[m].price_ # level[l].price_
                  BY <1>1, <3>1, <6>1, OneLevelPerPrice
                <9>. QED
                  BY <1>1, <6>1, <6>2, <9>1, LiveCells, WorseIsOrder DEF MEOrdersAtPrice
              <8>. QED
                BY <6>2, <7>1, <8>1, <8>2
            <7>. QED
              BY <7>2, <7>3
          <6>3. CASE ~(t = s /\ best[s] = l)
            BY <4>4, <6>1, <6>3
          <6>. QED
            BY <6>2, <6>3
        <5>. QED
          BY <2>6, <3>1, <5>1, <5>2 DEF BestInv
      <4>8. SortedInv'
        <5>1. SUFFICES ASSUME NEW m \in LiveLevels', NEW q \in LiveLevels',
                              level[q].side_ = level[m].side_
              PROVE  LET t == level[m].side_ IN
                     IF next_'[m] = best'[t]
                     THEN ~Worse(t, level[q].price_, level[m].price_)
                     ELSE /\ Worse(t, level[next_'[m]].price_, level[m].price_)
                          /\ ~(/\ Worse(t, level[q].price_, level[m].price_)
                               /\ Worse(t, level[next_'[m]].price_, level[q].price_))
          BY <2>6, <4>6 DEF SortedInv, LevelRingInv
        <5>. DEFINE t == level[m].side_
        <5>2. /\ m \in LiveLevels /\ q \in LiveLevels /\ t \in Side
              /\ m # l /\ q # l /\ level[q].price_ # level[l].price_
              /\ level[m].price_ \in Prices /\ level[q].price_ \in Prices
              /\ level[l].price_ \in Prices /\ level[nl].price_ \in Prices
          BY <1>1, <2>5, <3>1, OneLevelPerPrice, LiveCells DEF MEOrdersAtPrice
        <5>3. CASE m # pl
          <6>1. next_'[m] = next_[m] /\ next_[m] # l /\ next_[m] # nl
            BY <2>5, <4>3, <4>5, <5>3, <5>2 DEF LevelRingInv
          <6>2. next_'[m] = best'[t] <=> next_[m] = best[t]
            BY <4>4, <5>2, <6>1
          <6>. QED
            BY <5>1, <5>2, <6>1, <6>2 DEF SortedInv
        <5>4. CASE m = pl
          <6>1. t = s /\ next_'[m] = nl /\ next_[m] = l
            BY <2>5, <4>3, <5>4
          <6>2. CASE best[s] = l
            <7>1. next_'[m] = best'[t] /\ next_[m] = best[t]
              BY <4>4, <5>2, <6>1, <6>2
            <7>. QED
              BY <5>1, <5>2, <7>1 DEF SortedInv
          <6>3. CASE best[s] # l
            <7>1. best'[t] = best[t]
              BY <4>4, <5>2, <6>3
            <7>2. /\ Worse(s, level[l].price_, level[m].price_)
                  /\ ~(/\ Worse(s, level[q].price_, level[m].price_)
                       /\ Worse(s, level[l].price_, level[q].price_))
              BY <5>1, <5>2, <6>1, <6>3 DEF SortedInv
            <7>3. IF nl = best[s]
                  THEN ~Worse(s, level[q].price_, level[l].price_)
                  ELSE /\ Worse(s, level[nl].price_, level[l].price_)
                       /\ ~(/\ Worse(s, level[q].price_, level[l].price_)
                            /\ Worse(s, level[nl].price_, level[q].price_))
              BY <1>1, <5>1, <5>2, <6>1 DEF SortedInv
            <7>. QED
              BY <5>2, <6>1, <7>1, <7>2, <7>3, WorseIsOrder
          <6>. QED
            BY <6>2, <6>3
        <5>. QED
          BY <5>3, <5>4
      <4>. QED
        BY <4>6, <4>7, <4>8
    <3>. QED
      BY <3>2, <3>3
  <2>. QED
    BY <1>2, <1>3, <1>4, <2>7, <2>8, <2>10, <2>12, <2>13, <2>14
<1>6. CASE n # o
  <2>1. /\ next_order_' = [next_order_ EXCEPT ![p] = n, ![o] = NULL]
        /\ prev_order_' = [prev_order_ EXCEPT ![n] = p, ![o] = NULL]
        /\ orders_head_' = IF orders_head_[l] = o THEN [orders_head_ EXCEPT ![l] = n]
                           ELSE orders_head_
        /\ UNCHANGED <<level, next_, prev_, levels_next_free, best,
                       price_to_orders_at_price_>>
    BY <1>6 DEF removeOrder
  <2>2. n \in LiveOrders' /\ p \in LiveOrders' /\ p # o /\ order[n].price_ = order[o].price_
        /\ order[p].price_ = order[o].price_
    BY <1>1, <1>2, <1>6 DEF OrderRingInv
  <2>3. \A q \in LiveOrders' :
          /\ q \in LiveOrders /\ q # o /\ q \in OrderCells /\ order'[q] = order[q]
          /\ order[q] \in MEOrder
          /\ next_order_'[q] = IF q = p THEN n ELSE next_order_[q]
          /\ prev_order_'[q] = IF q = n THEN p ELSE prev_order_[q]
    BY <1>2, <2>1, <2>2, LiveCells DEF BookTypeOK
  <2>4. /\ LiveLevels' = LiveLevels
        /\ \A m \in LiveLevels :
             orders_head_'[m] = IF m = l /\ orders_head_[l] = o THEN n ELSE orders_head_[m]
        /\ \A x : getOrderAtPrice(x)' = getOrderAtPrice(x)
    BY <1>1, <2>1, LiveCells DEF BookTypeOK, LiveLevels, FreeLevels, getOrderAtPrice, priceToIndex
  <2>5. BookTypeOK'
    <3>1. /\ order' \in [OrderCells -> MEOrder \cup {NULL}]
          /\ orders_next_free' \in OrderCells
          /\ cid_oid_to_order_' \in [Clients \X ClientOids -> OrderPtr]
      BY <1>2 DEF BookTypeOK, removeOrder, OrderPtr
    <3>2. n \in OrderPtr /\ p \in OrderPtr /\ NULL \in OrderPtr
      BY <1>1 DEF BookTypeOK, OrderPtr
    <3>3. /\ next_order_' \in [OrderCells -> OrderPtr]
          /\ prev_order_' \in [OrderCells -> OrderPtr]
          /\ orders_head_' \in [LevelCells -> OrderPtr]
      BY <2>1, <3>2 DEF BookTypeOK
    <3>. QED
      BY <2>1, <3>1, <3>3 DEF BookTypeOK
  <2>6. PoolInv'
    BY <1>1, <1>2, <2>1 DEF PoolInv, BookTypeOK, removeOrder, FreeOrders, FreeLevels
  <2>7. LevelRingInv' /\ BestInv' /\ SortedInv' /\ PriceIndexInv'
    BY <2>1, <2>4 DEF LevelRingInv, BestInv, SortedInv, PriceIndexInv, priceToIndex
  <2>8. OrderRingInv'
    <3>1. ASSUME NEW q \in LiveOrders'
          PROVE  /\ next_order_'[q] \in LiveOrders' /\ prev_order_'[next_order_'[q]] = q
                 /\ order'[next_order_'[q]].price_ = order'[q].price_
      BY <1>1, <1>2, <2>2, <2>3 DEF OrderRingInv
    <3>2. ASSUME NEW q \in LiveOrders'
          PROVE  /\ prev_order_'[q] \in LiveOrders' /\ next_order_'[prev_order_'[q]] = q
      BY <1>1, <1>2, <2>2, <2>3 DEF OrderRingInv
    <3>3. ASSUME NEW q \in LiveOrders'
          PROVE  LET m == getOrderAtPrice(order[q].price_)' IN
                 /\ m \in LiveLevels' /\ level'[m].price_ = order'[q].price_
                 /\ level'[m].side_ = order'[q].side_
      BY <2>1, <2>3, <2>4 DEF OrderRingInv
    <3>4. ASSUME NEW m \in LiveLevels'
          PROVE  /\ orders_head_'[m] \in LiveOrders'
                 /\ order'[orders_head_'[m]].price_ = level'[m].price_
      <4>1. m # l => orders_head_[m] # o
        BY <1>1, <2>4 DEF OrderRingInv, PriceIndexInv
      <4>. QED
        BY <1>1, <1>2, <2>1, <2>2, <2>3, <2>4, <4>1 DEF OrderRingInv
    <3>. QED
      BY <3>1, <3>2, <3>3, <3>4 DEF OrderRingInv
  <2>9. FifoInv'
    <3>. DEFINE id(x) == order[x].market_order_id_
                h(x)  == orders_head_[getOrderAtPrice(order[x].price_)]
    <3>1. SUFFICES ASSUME NEW a \in LiveOrders', NEW q \in LiveOrders',
                          order[q].price_ = order[a].price_
          PROVE  LET hh == orders_head_'[getOrderAtPrice(order[a].price_)]
                     nn == next_order_'[a]
                 IN
                 /\ id(hh) <= id(a)
                 /\ IF nn = hh
                    THEN id(q) <= id(a)
                    ELSE id(nn) > id(a) /\ ~(id(a) < id(q) /\ id(q) < id(nn))
                 /\ id(a) < id(q) => order[a].priority_ < order[q].priority_
      <4>1. ASSUME NEW a \in LiveOrders'
            PROVE  /\ next_order_'[a] \in LiveOrders'
                   /\ orders_head_'[getOrderAtPrice(order[a].price_)] \in LiveOrders'
                   /\ getOrderAtPrice(order[a].price_)' = getOrderAtPrice(order[a].price_)
        BY <2>3, <2>4, <2>8 DEF OrderRingInv
      <4>. QED
        BY <2>3, <3>1, <4>1 DEF FifoInv
    <3>2. /\ a \in LiveOrders /\ q \in LiveOrders /\ a # o /\ q # o
          /\ id(a) \in Nat /\ id(q) \in Nat /\ id(o) \in Nat /\ id(n) \in Nat
      BY <1>1, <2>2, <2>3, LiveCells DEF MEOrder
    <3>3. /\ id(h(a)) <= id(a)
          /\ IF next_order_[a] = h(a)
             THEN id(q) <= id(a)
             ELSE id(next_order_[a]) > id(a)
                  /\ ~(id(a) < id(q) /\ id(q) < id(next_order_[a]))
          /\ id(a) < id(q) => order[a].priority_ < order[q].priority_
      BY <3>1, <3>2 DEF FifoInv
    <3>4. CASE order[a].price_ # order[o].price_
      <4>1. /\ next_order_'[a] = next_order_[a]
            /\ orders_head_'[getOrderAtPrice(order[a].price_)] = h(a)
        BY <1>1, <2>2, <2>3, <2>4, <3>2, <3>4 DEF OrderRingInv
      <4>. QED
        BY <3>3, <4>1
    <3>5. CASE order[a].price_ = order[o].price_
      <4>1. h(a) = orders_head_[l] /\ h(a) \in LiveOrders
        BY <1>1, <3>5 DEF OrderRingInv
      <4>2. orders_head_'[getOrderAtPrice(order[a].price_)] = IF h(a) = o THEN n ELSE h(a)
        BY <1>1, <2>4, <3>5
      <4>3. \A x \in LiveOrders : order[x].price_ = order[o].price_ =>
              /\ id(h(a)) <= id(o)
              /\ IF n = h(a) THEN id(x) <= id(o)
                 ELSE id(n) > id(o) /\ ~(id(o) < id(x) /\ id(x) < id(n))
        BY <4>1 DEF FifoInv
      <4>4. \A x \in LiveOrders : id(x) = id(o) => x = o
        BY DEF OrderIdInv
      <4>5. CASE h(a) = o
        <5>1. n # h(a) /\ id(o) <= id(a) /\ id(o) <= id(q) /\ id(a) # id(o) /\ id(q) # id(o)
          <6>1. id(h(a)) <= id(q)
            BY <3>1, <3>2 DEF FifoInv
          <6>. QED
            BY <1>6, <3>2, <3>3, <4>4, <4>5, <6>1
        <5>2. id(n) <= id(a) /\ id(n) <= id(q)
          BY <3>1, <3>2, <3>5, <4>3, <5>1
        <5>3. CASE a = p
          BY <1>1, <2>3, <3>3, <4>2, <4>5, <5>2, <5>3
        <5>4. CASE a # p
          <6>1. next_order_'[a] = next_order_[a] /\ next_order_[a] # n /\ next_order_[a] # o
            BY <1>1, <2>3, <3>2, <5>4 DEF OrderRingInv
          <6>. QED
            BY <3>3, <4>2, <4>5, <5>2, <6>1
        <5>. QED
          BY <5>3, <5>4
      <4>6. CASE h(a) # o
        <5>1. CASE a = p
          <6>1. next_order_'[a] = n /\ next_order_[a] = o
            BY <1>1, <2>3, <5>1
          <6>2. id(o) > id(a) /\ ~(id(a) < id(q) /\ id(q) < id(o))
            BY <3>3, <4>6, <6>1
          <6>3. id(q) # id(o)
            BY <3>2, <4>4
          <6>4. IF n = h(a) THEN id(q) <= id(o)
                ELSE id(n) > id(o) /\ ~(id(o) < id(q) /\ id(q) < id(n))
            BY <3>1, <3>2, <3>5, <4>3
          <6>. QED
            BY <3>2, <3>3, <4>2, <4>6, <6>1, <6>2, <6>3, <6>4
        <5>2. CASE a # p
          BY <2>3, <3>3, <4>2, <4>6, <5>2
        <5>. QED
          BY <5>1, <5>2
      <4>. QED
        BY <4>5, <4>6
    <3>. QED
      BY <3>4, <3>5
  <2>. QED
    BY <1>2, <1>3, <1>4, <2>5, <2>6, <2>7, <2>8, <2>9
<1>. QED
  BY <1>2, <1>5, <1>6
----------------------------------------------------------------------------
(* Filling part of an order: only its quantity changes.                    *)
LEMMA ReduceOrder ==
  ASSUME BookTypeOK, BookInv, NEW o \in LiveOrders, NEW r \in Nat, r > 0,
         order' = [order EXCEPT ![o].qty_ = r],
         UNCHANGED <<next_order_, prev_order_, orders_next_free, cid_oid_to_order_, levelVars>>
  PROVE  /\ BookTypeOK' /\ BookInv'
         /\ LiveOrders' = LiveOrders
         /\ \A q \in LiveOrders : order'[q] = IF q = o THEN [order[q] EXCEPT !.qty_ = r]
                                              ELSE order[q]
<1>1. o \in OrderCells /\ order[o] \in MEOrder /\ NULL \notin MEOrder
  BY LiveCells, NullRecords
<1>2. \A q \in OrderCells : order'[q] = IF q = o THEN [order[q] EXCEPT !.qty_ = r]
                                        ELSE order[q]
  BY <1>1 DEF BookTypeOK
<1>3. [order[o] EXCEPT !.qty_ = r] \in MEOrder
  BY <1>1 DEF MEOrder
<1>4. LiveOrders' = LiveOrders /\ FreeOrders' = FreeOrders
  BY <1>1, <1>2, <1>3 DEF LiveOrders, FreeOrders
<1>5. \A q \in LiveOrders : q \in OrderCells /\ order[q] \in MEOrder
  BY LiveCells
<1>6. \A q \in LiveOrders :
        /\ order'[q].client_id_ = order[q].client_id_
        /\ order'[q].client_order_id_ = order[q].client_order_id_
        /\ order'[q].market_order_id_ = order[q].market_order_id_
        /\ order'[q].side_ = order[q].side_
        /\ order'[q].price_ = order[q].price_
        /\ order'[q].priority_ = order[q].priority_
        /\ order'[q].qty_ = IF q = o THEN r ELSE order[q].qty_
  BY <1>1, <1>2, <1>5 DEF MEOrder
<1>7. BookTypeOK'
  BY <1>2, <1>3 DEF BookTypeOK, levelVars
<1>8. LiveLevels' = LiveLevels /\ FreeLevels' = FreeLevels
      /\ \A x : getOrderAtPrice(x)' = getOrderAtPrice(x)
  BY DEF LiveLevels, FreeLevels, getOrderAtPrice, priceToIndex, levelVars
<1>9. PoolInv' /\ PriceIndexInv' /\ LevelRingInv' /\ BestInv' /\ SortedInv'
  BY <1>4, <1>8 DEF BookInv, PoolInv, PriceIndexInv, LevelRingInv, BestInv, SortedInv,
     levelVars, priceToIndex
<1>10. OrderRingInv'
  BY <1>4, <1>6, <1>8 DEF BookInv, OrderRingInv, levelVars
<1>11. FifoInv'
  BY <1>4, <1>6, <1>8 DEF BookInv, OrderRingInv, FifoInv, levelVars
<1>12. OrderIdInv' /\ ClientIndexInv' /\ NotCrossed'
  BY <1>4, <1>6 DEF BookInv, OrderIdInv, ClientIndexInv, NotCrossed
<1>. QED
  BY <1>2, <1>4, <1>5, <1>7, <1>9, <1>10, <1>11, <1>12 DEF BookInv

----------------------------------------------------------------------------
(* Putting an order into the book.                                         *)

(* When the matching loop has stopped with shares left over, no resting    *)
(* order of the other side is within the incoming order's limit.           *)
LEMMA NothingReaches ==
  ASSUME BookTypeOK, BookInv, incoming \in Incoming, incoming.left > 0, ~CanMatch,
         NEW q \in LiveOrders, order[q].side_ = Opposite(incoming.side_)
  PROVE  ~Reaches(incoming.side_, incoming.price_, order[q].price_)
<1>. DEFINE t == Opposite(incoming.side_)
            m == getOrderAtPrice(order[q].price_)
            b == best[t]
<1>1. /\ incoming.side_ \in Side /\ t \in Side /\ incoming.price_ \in Nat
      /\ order[q].price_ \in Nat
  BY LiveCells, PriceAssumption DEF Incoming, Opposite, Side, MEOrder
<1>2. /\ m \in LiveLevels /\ level[m].price_ = order[q].price_ /\ level[m].side_ = t
  BY DEF BookInv, OrderRingInv
<1>3. /\ b # NULL /\ b \in LiveLevels
      /\ ~Worse(t, level[b].price_, order[q].price_)
  BY <1>1, <1>2 DEF BookInv, BestInv
<1>4. order[bestOrder(t)].price_ = level[b].price_ /\ level[b].price_ \in Nat
  BY <1>3, LiveCells, PriceAssumption DEF BookInv, OrderRingInv, bestOrder, MEOrdersAtPrice
<1>5. ~Reaches(incoming.side_, incoming.price_, level[b].price_)
  BY <1>3, <1>4 DEF CanMatch
<1>. QED
  BY <1>1, <1>3, <1>4, <1>5 DEF Reaches, Worse, Opposite, Side

(* What RestOrder does, whichever way the order then joins its level.      *)
LEMMA RestOrderEffect ==
  ASSUME TypeOK, BookInv, IncomingInv, incoming # NULL, incoming.left > 0,
         ~CanMatch, ~NoRoom, RestOrder
  PROVE  LET o == orders_next_free IN
         /\ o \in OrderCells /\ o \notin LiveOrders /\ order[o] = NULL
         /\ LiveOrders' = LiveOrders \cup {o}
         /\ \A q \in LiveOrders : order'[q] = order[q]
         /\ order'[o] \in MEOrder
         /\ order'[o].side_ = incoming.side_ /\ order'[o].price_ = incoming.price_
         /\ order'[o].qty_ = incoming.left
         /\ order'[o].market_order_id_ = incoming.market_order_id_
         /\ order'[o].client_id_ = incoming.client_id_
         /\ order'[o].client_order_id_ = incoming.client_order_id_
         /\ order'[o].priority_ = getPriority(incoming.price_)
         /\ \A q \in LiveOrders : order[q].market_order_id_ < incoming.market_order_id_
         /\ order' \in [OrderCells -> MEOrder \cup {NULL}]
         /\ orders_next_free' \in OrderCells /\ orders_next_free' \in FreeOrders'
         /\ cid_oid_to_order_' \in [Clients \X ClientOids -> OrderPtr]
         /\ OrderIdInv' /\ ClientIndexInv' /\ NotCrossed'
<1>. DEFINE o == orders_next_free
            N == order'[o]
            k == <<incoming.client_id_, incoming.client_order_id_>>
<1>1. /\ incoming \in Incoming /\ BookTypeOK
      /\ o \in OrderCells /\ o \notin LiveOrders /\ order[o] = NULL
  BY DEF TypeOK, FlowTypeOK, BookInv, PoolInv, FreeOrders, LiveOrders
<1>2. getPriority(incoming.price_) \in Nat
  <2>1. CASE getOrderAtPrice(incoming.price_) = NULL
    BY <2>1 DEF getPriority
  <2>2. CASE getOrderAtPrice(incoming.price_) # NULL
    <3>. DEFINE l == getOrderAtPrice(incoming.price_)
    <3>1. l \in LiveLevels
      BY <1>1, <2>2, IndexOfPrice DEF BookInv, PriceIndexInv, getOrderAtPrice, Incoming
    <3>2. prev_order_[orders_head_[l]] \in LiveOrders
      BY <3>1 DEF BookInv, OrderRingInv
    <3>3. order[prev_order_[orders_head_[l]]].priority_ \in Nat
      BY <1>1, <3>2, LiveCells DEF MEOrder
    <3>. QED
      BY <2>2, <3>3 DEF getPriority
  <2>. QED
    BY <2>1, <2>2
<1>3. N = [client_id_ |-> incoming.client_id_,
           client_order_id_ |-> incoming.client_order_id_,
           market_order_id_ |-> incoming.market_order_id_,
           side_ |-> incoming.side_, price_ |-> incoming.price_,
           qty_ |-> incoming.left, priority_ |-> getPriority(incoming.price_)]
  BY <1>1 DEF RestOrder, BookTypeOK
<1>4. N \in MEOrder
  BY <1>1, <1>2, <1>3 DEF MEOrder, Incoming
<1>5. /\ order' \in [OrderCells -> MEOrder \cup {NULL}]
      /\ \A q \in OrderCells : q # o => order'[q] = order[q]
  BY <1>1, <1>3, <1>4 DEF RestOrder, BookTypeOK
<1>6. LiveOrders' = LiveOrders \cup {o} /\ FreeOrders' = FreeOrders \ {o}
  BY <1>1, <1>4, <1>5, NullRecords DEF LiveOrders, FreeOrders
<1>7. orders_next_free' \in OrderCells /\ orders_next_free' \in FreeOrders'
  <2>1. FreeOrders \ {o} # {}
    BY DEF NoRoom, Exhausted
  <2>2. FreeOrders \ {o} \in SUBSET Nat
    BY OrdersAssumption DEF FreeOrders, OrderCells
  <2>3. orders_next_free' \in FreeOrders \ {o}
    BY <2>1, <2>2, FirstFreeIsFree DEF RestOrder
  <2>. QED
    BY <1>6, <2>3 DEF FreeOrders
<1>8. /\ k \in Clients \X ClientOids /\ incoming.client_id_ \in Clients
      /\ cid_oid_to_order_' = [cid_oid_to_order_ EXCEPT ![k] = o]
      /\ cid_oid_to_order_' \in [Clients \X ClientOids -> OrderPtr]
  BY <1>1 DEF RestOrder, NoRoom, Incoming, BookTypeOK, OrderPtr
<1>9. \A q \in LiveOrders : q \in OrderCells /\ order[q] \in MEOrder /\ q # o /\ order'[q] = order[q]
  BY <1>1, <1>5, LiveCells
<1>10. \A q \in LiveOrders :
         /\ order[q].market_order_id_ < incoming.market_order_id_
         /\ order[q].client_id_ = incoming.client_id_ =>
              order[q].client_order_id_ < incoming.client_order_id_
  BY DEF IncomingInv
<1>11. OrderIdInv'
  <2>1. /\ N.market_order_id_ = incoming.market_order_id_ /\ N.qty_ > 0
        /\ incoming.market_order_id_ \in Nat
        /\ \A q \in LiveOrders : order[q].market_order_id_ # incoming.market_order_id_
    BY <1>1, <1>3, <1>9, <1>10 DEF Incoming, MEOrder
  <2>. QED
    BY <1>6, <1>9, <2>1 DEF BookInv, OrderIdInv
<1>12. ClientIndexInv'
  <2>1. /\ N.client_id_ = incoming.client_id_
        /\ N.client_order_id_ = incoming.client_order_id_
        /\ incoming.client_order_id_ \in ClientOids
    BY <1>3 DEF NoRoom
  <2>2. /\ cid_oid_to_order_'[k] = o
        /\ \A j \in Clients \X ClientOids : j # k => cid_oid_to_order_'[j] = cid_oid_to_order_[j]
    BY <1>1, <1>8 DEF BookTypeOK
  <2>3. ASSUME NEW q \in LiveOrders
        PROVE  /\ <<order[q].client_id_, order[q].client_order_id_>> # k
               /\ <<order[q].client_id_, order[q].client_order_id_>> \in Clients \X ClientOids
    <3>1. order[q].client_id_ = incoming.client_id_ =>
            order[q].client_order_id_ # incoming.client_order_id_
      BY <1>1, <1>9, <1>10 DEF Incoming, MEOrder
    <3>. QED
      BY <1>9, <3>1 DEF BookInv, ClientIndexInv, MEOrder
  <2>4. ASSUME NEW j \in Clients \X ClientOids, cid_oid_to_order_'[j] # NULL
        PROVE  LET q == cid_oid_to_order_'[j] IN
               /\ q \in LiveOrders'
               /\ j = <<order'[q].client_id_, order'[q].client_order_id_>>
    <3>1. CASE j = k
      BY <1>6, <2>1, <2>2, <3>1
    <3>2. CASE j # k
      BY <1>6, <1>9, <2>2, <2>4, <3>2 DEF BookInv, ClientIndexInv
    <3>. QED
      BY <3>1, <3>2
  <2>5. ASSUME NEW q \in LiveOrders'
        PROVE  /\ order'[q].client_order_id_ \in ClientOids
               /\ cid_oid_to_order_'[<<order'[q].client_id_, order'[q].client_order_id_>>] = q
    <3>1. CASE q = o
      BY <2>1, <2>2, <3>1
    <3>2. CASE q \in LiveOrders
      BY <1>9, <2>2, <2>3, <3>2 DEF BookInv, ClientIndexInv
    <3>. QED
      BY <1>6, <3>1, <3>2
  <2>. QED
    BY <2>4, <2>5 DEF ClientIndexInv, ClientOids
<1>13. NotCrossed'
  <2>1. N.side_ = incoming.side_ /\ N.price_ = incoming.price_ /\ N.price_ \in Nat
    <3>1. incoming.price_ \in Nat
      BY <1>1, PriceAssumption DEF Incoming
    <3>. QED
      BY <1>3, <3>1
  <2>2. ASSUME NEW q \in LiveOrders, order[q].side_ = Opposite(incoming.side_)
        PROVE  ~Reaches(incoming.side_, incoming.price_, order[q].price_)
    BY <1>1, <2>2, NothingReaches
  <2>3. ASSUME NEW a \in LiveOrders', NEW b \in LiveOrders',
               order'[a].side_ = "BUY", order'[b].side_ = "SELL"
        PROVE  order'[a].price_ < order'[b].price_
    <3>1. CASE a \in LiveOrders /\ b \in LiveOrders
      BY <1>9, <2>3, <3>1 DEF BookInv, NotCrossed
    <3>2. CASE a = o
      <4>1. b \in LiveOrders /\ incoming.side_ = "BUY" /\ order[b].price_ \in Nat
        BY <1>6, <1>9, <2>1, <2>3, <3>2, PriceAssumption DEF MEOrder
      <4>. QED
        BY <1>9, <2>1, <2>2, <2>3, <3>2, <4>1 DEF Reaches, Opposite
    <3>3. CASE b = o
      <4>1. a \in LiveOrders /\ incoming.side_ = "SELL" /\ order[a].price_ \in Nat
        BY <1>6, <1>9, <2>1, <2>3, <3>3, PriceAssumption DEF MEOrder
      <4>. QED
        BY <1>9, <2>1, <2>2, <2>3, <3>3, <4>1 DEF Reaches, Opposite
    <3>. QED
      BY <1>6, <3>1, <3>2, <3>3
  <2>. QED
    BY <2>3 DEF NotCrossed
<1>. QED
  BY <1>1, <1>3, <1>4, <1>5, <1>6, <1>7, <1>8, <1>9, <1>10, <1>11, <1>12, <1>13

(* The incoming order's price has a level: it is of the order's own side.  *)
LEMMA LevelOfIncoming ==
  ASSUME NoAlias, BookTypeOK, BookInv, incoming \in Incoming, incoming.left > 0,
         ~CanMatch, getOrderAtPrice(incoming.price_) # NULL
  PROVE  LET l == getOrderAtPrice(incoming.price_) IN
         /\ l \in LiveLevels /\ l \in LevelCells
         /\ level[l].price_ = incoming.price_
         /\ level[l].side_ = incoming.side_
<1>. DEFINE l == getOrderAtPrice(incoming.price_)
            h == orders_head_[l]
<1>1. incoming.price_ \in Prices /\ incoming.side_ \in Side
  BY DEF Incoming
<1>2. l \in LiveLevels /\ priceToIndex(level[l].price_) = priceToIndex(incoming.price_)
  BY <1>1, IndexOfPrice DEF BookInv, PriceIndexInv, getOrderAtPrice
<1>3. level[l].price_ = incoming.price_
  BY <1>1, <1>2, LiveCells DEF NoAlias, MEOrdersAtPrice
<1>4. h \in LiveOrders /\ order[h].price_ = incoming.price_ /\ order[h].side_ = level[l].side_
  BY <1>2, <1>3 DEF BookInv, OrderRingInv
<1>5. Reaches(incoming.side_, incoming.price_, order[h].price_)
  <2>1. incoming.price_ \in Nat
    BY <1>1, PriceAssumption
  <2>. QED
    BY <1>4, <2>1 DEF Reaches
<1>6. order[h].side_ # Opposite(incoming.side_)
  BY <1>4, <1>5, NothingReaches
<1>7. order[h].side_ \in Side
  BY <1>4, LiveCells DEF MEOrder
<1>. QED
  BY <1>1, <1>2, <1>3, <1>4, <1>6, <1>7, LiveCells DEF Opposite, Side

(* An order that joins the level of its price goes to the end of the ring, *)
(* and the book keeps its invariant (AddOrderAtPrice, AddOrder).           *)
LEMMA AppendOrder ==
  ASSUME NoAlias, TypeOK, BookInv, IncomingInv, RestAtLevel
  PROVE  BookTypeOK' /\ BookInv'
<1>. DEFINE o == orders_next_free
            l == getOrderAtPrice(incoming.price_)
            h == orders_head_[l]
            t == prev_order_[h]
<1>1. /\ incoming # NULL /\ incoming \in Incoming /\ BookTypeOK
      /\ incoming.left > 0 /\ ~CanMatch /\ ~NoRoom /\ RestOrder /\ l # NULL
      /\ next_order_' = [next_order_ EXCEPT ![t] = o, ![o] = h]
      /\ prev_order_' = [prev_order_ EXCEPT ![o] = t, ![h] = o]
      /\ UNCHANGED levelVars
  BY DEF RestAtLevel, Resting, TypeOK, FlowTypeOK
<1>2. /\ l \in LiveLevels /\ l \in LevelCells
      /\ level[l].price_ = incoming.price_ /\ level[l].side_ = incoming.side_
  BY <1>1, LevelOfIncoming
<1>3. /\ o \in OrderCells /\ o \notin LiveOrders
      /\ LiveOrders' = LiveOrders \cup {o}
      /\ \A q \in LiveOrders : order'[q] = order[q]
      /\ order'[o].side_ = incoming.side_ /\ order'[o].price_ = incoming.price_
      /\ order'[o].market_order_id_ = incoming.market_order_id_
      /\ order'[o].priority_ = getPriority(incoming.price_)
      /\ \A q \in LiveOrders : order[q].market_order_id_ < incoming.market_order_id_
      /\ order' \in [OrderCells -> MEOrder \cup {NULL}]
      /\ orders_next_free' \in OrderCells /\ orders_next_free' \in FreeOrders'
      /\ cid_oid_to_order_' \in [Clients \X ClientOids -> OrderPtr]
      /\ OrderIdInv' /\ ClientIndexInv' /\ NotCrossed'
  BY <1>1, RestOrderEffect
<1>4. /\ h \in LiveOrders /\ t \in LiveOrders /\ next_order_[t] = h
      /\ order[h].price_ = incoming.price_ /\ order[t].price_ = incoming.price_
  BY <1>2 DEF BookInv, OrderRingInv
<1>5. /\ \A q \in LiveOrders :
           /\ q \in OrderCells /\ q # o
           /\ next_order_'[q] = IF q = t THEN o ELSE next_order_[q]
           /\ prev_order_'[q] = IF q = h THEN o ELSE prev_order_[q]
      /\ next_order_'[o] = h /\ prev_order_'[o] = t
  BY <1>1, <1>3, <1>4, LiveCells DEF BookTypeOK
<1>6. /\ LiveLevels' = LiveLevels /\ FreeLevels' = FreeLevels
      /\ \A x : getOrderAtPrice(x)' = getOrderAtPrice(x)
  BY <1>1 DEF levelVars, LiveLevels, FreeLevels, getOrderAtPrice, priceToIndex
<1>7. BookTypeOK'
  <2>1. o \in OrderPtr /\ h \in OrderPtr /\ t \in OrderPtr
    BY <1>3, <1>4, LiveCells, <1>1 DEF OrderPtr
  <2>. QED
    BY <1>1, <1>3, <2>1 DEF BookTypeOK, levelVars
<1>8. PoolInv'
  BY <1>1, <1>3, <1>6 DEF BookInv, PoolInv, levelVars
<1>9. PriceIndexInv' /\ LevelRingInv' /\ BestInv' /\ SortedInv'
  BY <1>1, <1>6 DEF BookInv, PriceIndexInv, LevelRingInv, BestInv, SortedInv, levelVars, priceToIndex
<1>10. OrderRingInv'
  <2>1. ASSUME NEW q \in LiveOrders'
        PROVE  /\ next_order_'[q] \in LiveOrders' /\ prev_order_'[next_order_'[q]] = q
               /\ prev_order_'[q] \in LiveOrders' /\ next_order_'[prev_order_'[q]] = q
               /\ order'[next_order_'[q]].price_ = order'[q].price_
    <3>1. CASE q = o
      BY <1>3, <1>4, <1>5, <3>1
    <3>2. CASE q \in LiveOrders
      BY <1>3, <1>4, <1>5, <3>2 DEF BookInv, OrderRingInv
    <3>. QED
      BY <1>3, <3>1, <3>2
  <2>2. ASSUME NEW q \in LiveOrders'
        PROVE  LET m == getOrderAtPrice(order[q].price_)' IN
               /\ m \in LiveLevels' /\ level'[m].price_ = order'[q].price_
               /\ level'[m].side_ = order'[q].side_
    <3>1. CASE q = o
      BY <1>1, <1>2, <1>3, <1>6, <3>1 DEF levelVars
    <3>2. CASE q \in LiveOrders
      BY <1>1, <1>3, <1>6, <3>2 DEF BookInv, OrderRingInv, levelVars
    <3>. QED
      BY <1>3, <3>1, <3>2
  <2>3. ASSUME NEW m \in LiveLevels'
        PROVE  /\ orders_head_'[m] \in LiveOrders'
               /\ order'[orders_head_'[m]].price_ = level'[m].price_
    BY <1>1, <1>3, <1>6 DEF BookInv, OrderRingInv, levelVars
  <2>. QED
    BY <2>1, <2>2, <2>3 DEF OrderRingInv
<1>11. FifoInv'
  <2>. DEFINE id(x) == order[x].market_order_id_
              new   == incoming.market_order_id_
  <2>1. /\ new \in Nat /\ \A q \in LiveOrders : id(q) \in Nat /\ order[q].priority_ \in Nat
        /\ \A q \in LiveOrders : id(q) < new
        /\ order'[o].priority_ = order[t].priority_ + 1
    BY <1>1, <1>3, LiveCells DEF Incoming, MEOrder, getPriority
  <2>2. \A q \in LiveOrders : order[q].price_ = incoming.price_ =>
          id(q) <= id(t) /\ order[q].priority_ <= order[t].priority_
    <3>1. ASSUME NEW q \in LiveOrders, order[q].price_ = incoming.price_
          PROVE  id(q) <= id(t) /\ order[q].priority_ <= order[t].priority_
      <4>1. id(q) <= id(t)
        BY <1>4, <3>1 DEF BookInv, FifoInv
      <4>2. CASE id(q) = id(t)
        BY <1>4, <2>1, <4>2 DEF BookInv, OrderIdInv
      <4>3. CASE id(q) < id(t)
        BY <1>4, <2>1, <3>1, <4>3 DEF BookInv, FifoInv
      <4>. QED
        BY <1>4, <2>1, <4>1, <4>2, <4>3
    <3>. QED
      BY <3>1
  <2>3. ASSUME NEW a \in LiveOrders', NEW q \in LiveOrders',
               order'[q].price_ = order'[a].price_
        PROVE  LET hh == orders_head_'[getOrderAtPrice(order[a].price_)']
                   nn == next_order_'[a]
               IN
               /\ order'[hh].market_order_id_ <= order'[a].market_order_id_
               /\ IF nn = hh
                  THEN order'[q].market_order_id_ <= order'[a].market_order_id_
                  ELSE /\ order'[nn].market_order_id_ > order'[a].market_order_id_
                       /\ ~(/\ order'[a].market_order_id_ < order'[q].market_order_id_
                            /\ order'[q].market_order_id_ < order'[nn].market_order_id_)
               /\ order'[a].market_order_id_ < order'[q].market_order_id_
                    => order'[a].priority_ < order'[q].priority_
    <3>. DEFINE hh == orders_head_[getOrderAtPrice(order'[a].price_)]
    <3>1. /\ orders_head_'[getOrderAtPrice(order[a].price_)'] = hh
          /\ hh \in LiveOrders
      <4>1. getOrderAtPrice(order[a].price_)' = getOrderAtPrice(order'[a].price_)
        BY <1>1 DEF getOrderAtPrice, levelVars, priceToIndex
      <4>2. getOrderAtPrice(order'[a].price_) \in LiveLevels
        BY <1>2, <1>3 DEF BookInv, OrderRingInv
      <4>. QED
        BY <1>1, <4>1, <4>2 DEF BookInv, OrderRingInv, levelVars
    <3>2. CASE a = o
      <4>1. hh = h /\ next_order_'[a] = h
        BY <1>3, <1>5, <3>2
      <4>. QED
        BY <1>3, <1>4, <2>1, <3>1, <3>2, <4>1
    <3>3. CASE a \in LiveOrders /\ q = o
      <4>1. order[a].price_ = incoming.price_ /\ hh = h
        BY <1>3, <2>3, <3>3
      <4>2. CASE a = t
        <5>. HIDE DEF hh
        <5>1. next_order_'[a] = o /\ o # hh /\ id(hh) <= id(a)
          BY <1>3, <1>4, <1>5, <3>1, <3>3, <4>1, <4>2, SMTT(30) DEF BookInv, FifoInv
        <5>. QED
          BY <1>3, <2>1, <3>1, <3>3, <4>2, <5>1, SMTT(30)
      <4>3. CASE a # t
        <5>. HIDE DEF hh
        <5>1. /\ next_order_'[a] = next_order_[a] /\ next_order_[a] \in LiveOrders
              /\ next_order_[a] # hh
          BY <1>4, <1>5, <3>3, <4>1, <4>3 DEF BookInv, OrderRingInv
        <5>2. id(hh) <= id(a) /\ id(next_order_[a]) > id(a)
          BY <3>3, <4>1, <5>1 DEF BookInv, FifoInv
        <5>3. id(next_order_[a]) < new
          BY <2>1, <5>1
        <5>4. order[a].priority_ < order'[o].priority_
          BY <1>4, <2>1, <2>2, <3>3, <4>1
        <5>5. /\ order'[a] = order[a] /\ order'[hh] = order[hh]
              /\ order'[next_order_[a]] = order[next_order_[a]]
              /\ order'[q].market_order_id_ = new
          BY <1>3, <3>1, <3>3, <5>1
        <5>6. id(a) \in Nat /\ id(next_order_[a]) \in Nat /\ new \in Nat
          BY <2>1, <3>3, <5>1
        <5>. HIDE DEF id, new
        <5>. QED
          BY <3>1, <3>3, <5>1, <5>2, <5>3, <5>4, <5>5, <5>6 DEF id
      <4>. QED
        BY <4>2, <4>3
    <3>4. CASE a \in LiveOrders /\ q \in LiveOrders
      <4>1. /\ id(hh) <= id(a)
            /\ IF next_order_[a] = hh
               THEN id(q) <= id(a)
               ELSE id(next_order_[a]) > id(a)
                    /\ ~(id(a) < id(q) /\ id(q) < id(next_order_[a]))
            /\ id(a) < id(q) => order[a].priority_ < order[q].priority_
        BY <1>3, <2>3, <3>4 DEF BookInv, FifoInv
      <4>2. CASE a = t
        <5>. HIDE DEF hh
        <5>1. next_order_'[a] = o /\ id(q) <= id(a) /\ o # hh
          BY <1>3, <1>4, <1>5, <2>2, <2>3, <3>1, <3>4, <4>2, SMTT(30)
        <5>. QED
          BY <1>3, <2>1, <3>1, <3>4, <4>1, <5>1
      <4>3. CASE a # t
        <5>. HIDE DEF hh
        <5>1. next_order_'[a] = next_order_[a] /\ next_order_[a] \in LiveOrders
          BY <1>5, <3>4, <4>3 DEF BookInv, OrderRingInv
        <5>. QED
          BY <1>3, <3>1, <3>4, <4>1, <5>1
      <4>. QED
        BY <4>2, <4>3
    <3>. QED
      BY <1>3, <3>2, <3>3, <3>4
  <2>. QED
    BY <2>3 DEF FifoInv
<1>. QED
  BY <1>3, <1>7, <1>8, <1>9, <1>10, <1>11 DEF BookInv

(* An order that opens a level, wherever the level then goes in its list.  *)
LEMMA OpenLevelEffect ==
  ASSUME NoAlias, TypeOK, BookInv, IncomingInv, incoming # NULL, incoming.left > 0,
         ~CanMatch, ~NoRoom, getOrderAtPrice(incoming.price_) = NULL, OpenLevel
  PROVE  LET l == levels_next_free IN
         /\ l \in LevelCells /\ l \notin LiveLevels
         /\ LiveLevels' = LiveLevels \cup {l}
         /\ \A m \in LiveLevels : level'[m] = level[m]
         /\ level'[l].side_ = incoming.side_ /\ level'[l].price_ = incoming.price_
         /\ incoming.side_ \in Side /\ incoming.price_ \in Prices
         /\ \A m \in LiveLevels : level[m].price_ # incoming.price_
         /\ order' \in [OrderCells -> MEOrder \cup {NULL}]
         /\ next_order_' \in [OrderCells -> OrderPtr]
         /\ prev_order_' \in [OrderCells -> OrderPtr]
         /\ orders_next_free' \in OrderCells
         /\ cid_oid_to_order_' \in [Clients \X ClientOids -> OrderPtr]
         /\ level' \in [LevelCells -> MEOrdersAtPrice \cup {NULL}]
         /\ orders_head_' \in [LevelCells -> OrderPtr]
         /\ price_to_orders_at_price_' \in [LevelCells -> LevelPtr]
         /\ levels_next_free' \in LevelCells
         /\ PoolInv' /\ PriceIndexInv' /\ OrderRingInv' /\ FifoInv'
         /\ OrderIdInv' /\ ClientIndexInv' /\ NotCrossed'
<1>. DEFINE o == orders_next_free
            l == levels_next_free
            i == priceToIndex(incoming.price_)
<1>1. /\ incoming \in Incoming /\ BookTypeOK /\ RestOrder
      /\ incoming.price_ \in Prices /\ incoming.side_ \in Side /\ i \in LevelCells
      /\ next_order_' = [next_order_ EXCEPT ![o] = o]
      /\ prev_order_' = [prev_order_ EXCEPT ![o] = o]
      /\ level' = [level EXCEPT ![l] = [side_ |-> incoming.side_, price_ |-> incoming.price_]]
      /\ orders_head_' = [orders_head_ EXCEPT ![l] = o]
      /\ levels_next_free' = FirstFree(FreeLevels \ {l})
      /\ price_to_orders_at_price_' = [price_to_orders_at_price_ EXCEPT ![i] = l]
  BY IndexOfPrice DEF TypeOK, FlowTypeOK, OpenLevel, Incoming
<1>2. /\ o \in OrderCells /\ o \notin LiveOrders
      /\ LiveOrders' = LiveOrders \cup {o}
      /\ \A q \in LiveOrders : order'[q] = order[q]
      /\ order'[o].side_ = incoming.side_ /\ order'[o].price_ = incoming.price_
      /\ order'[o] \in MEOrder
      /\ order' \in [OrderCells -> MEOrder \cup {NULL}]
      /\ orders_next_free' \in OrderCells /\ orders_next_free' \in FreeOrders'
      /\ cid_oid_to_order_' \in [Clients \X ClientOids -> OrderPtr]
      /\ OrderIdInv' /\ ClientIndexInv' /\ NotCrossed'
  BY <1>1, RestOrderEffect
<1>3. l \in LevelCells /\ l \notin LiveLevels /\ level[l] = NULL
  BY DEF BookInv, PoolInv, FreeLevels, LiveLevels
<1>4. [side_ |-> incoming.side_, price_ |-> incoming.price_] \in MEOrdersAtPrice
  BY <1>1 DEF MEOrdersAtPrice
<1>5. /\ level' \in [LevelCells -> MEOrdersAtPrice \cup {NULL}]
      /\ level'[l] = [side_ |-> incoming.side_, price_ |-> incoming.price_]
      /\ \A m \in LevelCells : m # l => level'[m] = level[m]
  BY <1>1, <1>3, <1>4 DEF BookTypeOK
<1>6. LiveLevels' = LiveLevels \cup {l} /\ FreeLevels' = FreeLevels \ {l}
  BY <1>3, <1>4, <1>5, NullRecords DEF LiveLevels, FreeLevels
<1>7. \A m \in LiveLevels : m \in LevelCells /\ m # l /\ level'[m] = level[m]
                            /\ level[m].price_ \in Prices
  BY <1>1, <1>3, <1>5, LiveCells DEF MEOrdersAtPrice
<1>8. \A m \in LiveLevels : level[m].price_ # incoming.price_
  BY <1>1, LiveCells DEF BookInv, PriceIndexInv
<1>9. \A q \in LiveOrders : q \in OrderCells /\ q # o /\ order[q].price_ # incoming.price_
  BY <1>1, <1>2, <1>8, LiveCells DEF BookInv, OrderRingInv
<1>10. /\ \A q \in LiveOrders : next_order_'[q] = next_order_[q] /\ prev_order_'[q] = prev_order_[q]
       /\ next_order_'[o] = o /\ prev_order_'[o] = o
       /\ next_order_' \in [OrderCells -> OrderPtr] /\ prev_order_' \in [OrderCells -> OrderPtr]
  BY <1>1, <1>2, <1>9 DEF BookTypeOK, OrderPtr
<1>11. /\ \A m \in LiveLevels : orders_head_'[m] = orders_head_[m]
       /\ orders_head_'[l] = o
       /\ orders_head_' \in [LevelCells -> OrderPtr]
  BY <1>1, <1>2, <1>3, <1>7 DEF BookTypeOK, OrderPtr
<1>12. /\ price_to_orders_at_price_' \in [LevelCells -> LevelPtr]
       /\ price_to_orders_at_price_'[i] = l
       /\ \A j \in LevelCells : j # i => price_to_orders_at_price_'[j] = price_to_orders_at_price_[j]
  BY <1>1, <1>3 DEF BookTypeOK, LevelPtr
<1>13. levels_next_free' \in LevelCells /\ levels_next_free' \in FreeLevels'
  <2>1. FreeLevels \ {l} # {}
    BY DEF NoRoom, Exhausted
  <2>2. FreeLevels \ {l} \in SUBSET Nat
    BY LevelsAssumption DEF FreeLevels, LevelCells
  <2>3. levels_next_free' \in FreeLevels \ {l}
    BY <1>1, <2>1, <2>2, FirstFreeIsFree
  <2>. QED
    BY <1>6, <2>3 DEF FreeLevels
<1>14. PoolInv'
  BY <1>2, <1>13 DEF PoolInv
<1>15. \A p \in Prices : p # incoming.price_ =>
         getOrderAtPrice(p)' = getOrderAtPrice(p) /\ priceToIndex(p) # i
  BY <1>1, <1>12, IndexOfPrice DEF getOrderAtPrice, NoAlias, priceToIndex
<1>16. getOrderAtPrice(incoming.price_) = NULL /\ price_to_orders_at_price_'[priceToIndex(incoming.price_)] = l
  BY <1>12
<1>17. PriceIndexInv'
  <2>1. ASSUME NEW j \in LevelCells, price_to_orders_at_price_'[j] # NULL
        PROVE  /\ price_to_orders_at_price_'[j] \in LiveLevels'
               /\ priceToIndex(level'[price_to_orders_at_price_'[j]].price_) = j
    <3>1. CASE j = i
      BY <1>5, <1>6, <1>12, <3>1
    <3>2. CASE j # i
      BY <1>6, <1>7, <1>12, <2>1, <3>2 DEF BookInv, PriceIndexInv
    <3>. QED
      BY <3>1, <3>2
  <2>2. ASSUME NEW m \in LiveLevels'
        PROVE  getOrderAtPrice(level[m].price_)' = m
    <3>1. CASE m = l
      BY <1>5, <1>12, <3>1 DEF getOrderAtPrice, priceToIndex
    <3>2. CASE m \in LiveLevels
      <4>1. getOrderAtPrice(level[m].price_) = m
        BY <3>2 DEF BookInv, PriceIndexInv
      <4>2. priceToIndex(level[m].price_) \in LevelCells /\ priceToIndex(level[m].price_) # i
        BY <1>7, <1>8, <1>15, <3>2, IndexOfPrice
      <4>. QED
        BY <1>7, <1>12, <3>2, <4>1, <4>2 DEF getOrderAtPrice, priceToIndex
    <3>. QED
      BY <1>6, <3>1, <3>2
  <2>. QED
    BY <2>1, <2>2 DEF PriceIndexInv, priceToIndex
<1>18. ASSUME NEW q \in LiveOrders
       PROVE  /\ getOrderAtPrice(order[q].price_)' = getOrderAtPrice(order[q].price_)
              /\ getOrderAtPrice(order[q].price_) \in LiveLevels
  <2>1. order[q].price_ \in Prices
    BY <1>1, LiveCells DEF MEOrder
  <2>2. getOrderAtPrice(order[q].price_) \in LiveLevels
    BY DEF BookInv, OrderRingInv
  <2>3. priceToIndex(order[q].price_) \in LevelCells /\ priceToIndex(order[q].price_) # i
    BY <1>9, <1>15, <2>1, IndexOfPrice
  <2>. QED
    BY <1>2, <1>12, <2>2, <2>3 DEF getOrderAtPrice, priceToIndex
<1>19. ASSUME NEW q \in OrderCells, q = o
       PROVE  getOrderAtPrice(order[q].price_)' = l
  BY <1>2, <1>12, <1>19 DEF getOrderAtPrice, priceToIndex
<1>20. OrderRingInv'
  <2>1. ASSUME NEW q \in LiveOrders'
        PROVE  /\ next_order_'[q] \in LiveOrders' /\ prev_order_'[next_order_'[q]] = q
               /\ prev_order_'[q] \in LiveOrders' /\ next_order_'[prev_order_'[q]] = q
               /\ order'[next_order_'[q]].price_ = order'[q].price_
    <3>1. CASE q = o
      BY <1>2, <1>10, <3>1
    <3>2. CASE q \in LiveOrders
      BY <1>2, <1>10, <3>2 DEF BookInv, OrderRingInv
    <3>. QED
      BY <1>2, <3>1, <3>2
  <2>2. ASSUME NEW q \in LiveOrders'
        PROVE  LET m == getOrderAtPrice(order[q].price_)' IN
               /\ m \in LiveLevels' /\ level'[m].price_ = order'[q].price_
               /\ level'[m].side_ = order'[q].side_
    <3>1. CASE q = o
      BY <1>2, <1>5, <1>6, <1>19, <3>1
    <3>2. CASE q \in LiveOrders
      BY <1>2, <1>6, <1>7, <1>18, <3>2 DEF BookInv, OrderRingInv
    <3>. QED
      BY <1>2, <3>1, <3>2
  <2>3. ASSUME NEW m \in LiveLevels'
        PROVE  /\ orders_head_'[m] \in LiveOrders'
               /\ order'[orders_head_'[m]].price_ = level'[m].price_
    <3>1. CASE m = l
      BY <1>2, <1>5, <1>11, <3>1
    <3>2. CASE m \in LiveLevels
      BY <1>2, <1>7, <1>11, <3>2 DEF BookInv, OrderRingInv
    <3>. QED
      BY <1>6, <3>1, <3>2
  <2>. QED
    BY <2>1, <2>2, <2>3 DEF OrderRingInv
<1>21. FifoInv'
  <2>1. ASSUME NEW a \in LiveOrders', NEW q \in LiveOrders',
               order'[q].price_ = order'[a].price_
        PROVE  LET hh == orders_head_'[getOrderAtPrice(order[a].price_)']
                   nn == next_order_'[a]
               IN
               /\ order'[hh].market_order_id_ <= order'[a].market_order_id_
               /\ IF nn = hh
                  THEN order'[q].market_order_id_ <= order'[a].market_order_id_
                  ELSE /\ order'[nn].market_order_id_ > order'[a].market_order_id_
                       /\ ~(/\ order'[a].market_order_id_ < order'[q].market_order_id_
                            /\ order'[q].market_order_id_ < order'[nn].market_order_id_)
               /\ order'[a].market_order_id_ < order'[q].market_order_id_
                    => order'[a].priority_ < order'[q].priority_
    <3>1. CASE a = o
      <4>1. q = o /\ order'[o].market_order_id_ \in Nat
        BY <1>2, <1>9, <2>1, <3>1 DEF MEOrder
      <4>2. orders_head_'[getOrderAtPrice(order[a].price_)'] = o /\ next_order_'[a] = o
        BY <1>2, <1>10, <1>11, <1>19, <3>1
      <4>. QED
        BY <3>1, <4>1, <4>2
    <3>2. CASE a \in LiveOrders
      <4>. DEFINE hh == orders_head_[getOrderAtPrice(order[a].price_)]
      <4>1. q \in LiveOrders /\ order[q].price_ = order[a].price_
        BY <1>2, <1>9, <2>1, <3>2
      <4>2. /\ orders_head_'[getOrderAtPrice(order[a].price_)'] = hh /\ hh \in LiveOrders
            /\ next_order_'[a] = next_order_[a] /\ next_order_[a] \in LiveOrders
        BY <1>10, <1>11, <1>18, <3>2 DEF BookInv, OrderRingInv
      <4>. QED
        BY <1>2, <3>2, <4>1, <4>2 DEF BookInv, FifoInv
    <3>. QED
      BY <1>2, <3>1, <3>2
  <2>. QED
    BY <2>1 DEF FifoInv
<1>. QED
  BY <1>1, <1>2, <1>3, <1>5, <1>6, <1>7, <1>8, <1>10, <1>11, <1>12, <1>13, <1>14, <1>17, <1>20, <1>21

(* The first level of its side.                                            *)
LEMMA FirstLevel ==
  ASSUME NoAlias, TypeOK, BookInv, IncomingInv, RestOnEmptySide
  PROVE  BookTypeOK' /\ BookInv'
<1>. DEFINE l == levels_next_free
            s == incoming.side_
<1>1. /\ incoming # NULL /\ incoming.left > 0 /\ ~CanMatch /\ ~NoRoom
      /\ getOrderAtPrice(incoming.price_) = NULL /\ best[s] = NULL /\ OpenLevel
      /\ best' = [best EXCEPT ![s] = l]
      /\ next_' = [next_ EXCEPT ![l] = l]
      /\ prev_' = [prev_ EXCEPT ![l] = l]
      /\ BookTypeOK
  BY DEF RestOnEmptySide, Resting, TypeOK, FlowTypeOK
<1>2. /\ l \in LevelCells /\ l \notin LiveLevels
      /\ LiveLevels' = LiveLevels \cup {l}
      /\ \A m \in LiveLevels : level'[m] = level[m]
      /\ level'[l].side_ = s /\ level'[l].price_ = incoming.price_
      /\ s \in Side /\ incoming.price_ \in Prices
      /\ order' \in [OrderCells -> MEOrder \cup {NULL}]
      /\ next_order_' \in [OrderCells -> OrderPtr]
      /\ prev_order_' \in [OrderCells -> OrderPtr]
      /\ orders_next_free' \in OrderCells
      /\ cid_oid_to_order_' \in [Clients \X ClientOids -> OrderPtr]
      /\ level' \in [LevelCells -> MEOrdersAtPrice \cup {NULL}]
      /\ orders_head_' \in [LevelCells -> OrderPtr]
      /\ price_to_orders_at_price_' \in [LevelCells -> LevelPtr]
      /\ levels_next_free' \in LevelCells
      /\ PoolInv' /\ PriceIndexInv' /\ OrderRingInv' /\ FifoInv'
      /\ OrderIdInv' /\ ClientIndexInv' /\ NotCrossed'
  BY <1>1, OpenLevelEffect
<1>3. BookTypeOK'
  <2>1. l \in LevelPtr
    BY <1>2 DEF LevelPtr
  <2>. QED
    BY <1>1, <1>2, <2>1 DEF BookTypeOK
<1>4. \A m \in LiveLevels :
        /\ m \in LevelCells /\ m # l /\ level[m].side_ \in Side /\ level[m].side_ # s
        /\ next_'[m] = next_[m] /\ prev_'[m] = prev_[m]
        /\ best'[level[m].side_] = best[level[m].side_]
  <2>1. \A m \in LiveLevels :
          m \in LevelCells /\ m # l /\ level[m].side_ \in Side /\ level[m].side_ # s
    BY <1>1, <1>2, LiveCells DEF BookInv, BestInv, MEOrdersAtPrice
  <2>. QED
    BY <1>1, <1>2, <2>1 DEF BookTypeOK
<1>5. next_'[l] = l /\ prev_'[l] = l /\ best'[s] = l
  BY <1>1, <1>2 DEF BookTypeOK
<1>6. LevelRingInv'
  <2>1. ASSUME NEW m \in LiveLevels'
        PROVE  /\ next_'[m] \in LiveLevels' /\ prev_'[next_'[m]] = m
               /\ prev_'[m] \in LiveLevels' /\ next_'[prev_'[m]] = m
               /\ level'[next_'[m]].side_ = level'[m].side_
    BY <1>2, <1>4, <1>5 DEF BookInv, LevelRingInv
  <2>. QED
    BY <2>1 DEF LevelRingInv
<1>7. BestInv'
  <2>1. ASSUME NEW t \in Side, best'[t] # NULL
        PROVE  best'[t] \in LiveLevels' /\ level'[best'[t]].side_ = t
    BY <1>1, <1>2, <1>4, <1>5, <2>1 DEF BookInv, BestInv, BookTypeOK
  <2>2. ASSUME NEW m \in LiveLevels'
        PROVE  LET t == level'[m].side_ IN
               /\ best'[t] # NULL
               /\ ~Worse(t, level'[best'[t]].price_, level'[m].price_)
    <3>1. CASE m = l
      BY <1>1, <1>2, <1>5, <3>1, LiveCells, WorseIsOrder
    <3>2. CASE m \in LiveLevels
      BY <1>2, <1>4, <3>2 DEF BookInv, BestInv
    <3>. QED
      BY <1>2, <3>1, <3>2
  <2>. QED
    BY <2>1, <2>2 DEF BestInv
<1>8. SortedInv'
  <2>1. ASSUME NEW m \in LiveLevels', NEW q \in LiveLevels', level'[q].side_ = level'[m].side_
        PROVE  LET t == level'[m].side_ IN
               IF next_'[m] = best'[t]
               THEN ~Worse(t, level'[q].price_, level'[m].price_)
               ELSE /\ Worse(t, level'[next_'[m]].price_, level'[m].price_)
                    /\ ~(/\ Worse(t, level'[q].price_, level'[m].price_)
                         /\ Worse(t, level'[next_'[m]].price_, level'[q].price_))
    <3>1. CASE m = l
      BY <1>2, <1>4, <1>5, <2>1, <3>1, WorseIsOrder
    <3>2. CASE m \in LiveLevels
      <4>1. q \in LiveLevels /\ level[q].side_ = level[m].side_
        BY <1>2, <1>4, <2>1, <3>2
      <4>2. next_[m] \in LiveLevels
        BY <3>2 DEF BookInv, LevelRingInv
      <4>. QED
        BY <1>2, <1>4, <3>2, <4>1, <4>2 DEF BookInv, SortedInv
    <3>. QED
      BY <1>2, <3>1, <3>2
  <2>. QED
    BY <2>1 DEF SortedInv
<1>. QED
  BY <1>2, <1>3, <1>6, <1>7, <1>8 DEF BookInv

(* A further level of its side, at the place the search found: between the *)
(* level before curr and curr itself.                                      *)
LEMMA InsertLevel ==
  ASSUME NoAlias, TypeOK, BookInv, IncomingInv, SearchInv, RestInNewLevel
  PROVE  BookTypeOK' /\ BookInv'
<1>. DEFINE l == levels_next_free
            s == incoming.side_
            P == incoming.price_
            h == best[s]
            c == curr
            p == prev_[c]
            W(a, b) == Worse(s, a, b)
<1>1. /\ incoming # NULL /\ incoming.left > 0 /\ ~CanMatch /\ ~NoRoom
      /\ getOrderAtPrice(incoming.price_) = NULL /\ OpenLevel
      /\ next_' = [next_ EXCEPT ![l] = next_[p], ![p] = l]
      /\ prev_' = [prev_ EXCEPT ![l] = p, ![next_[p]] = l]
      /\ best' = IF Worse(s, level[h].price_, P) THEN [best EXCEPT ![s] = l] ELSE best
      /\ BookTypeOK
  BY DEF RestInNewLevel, SearchInv, TypeOK, FlowTypeOK
<1>2. /\ l \in LevelCells /\ l \notin LiveLevels
      /\ LiveLevels' = LiveLevels \cup {l}
      /\ \A m \in LiveLevels : level'[m] = level[m] /\ level[m].price_ # P
      /\ level'[l].side_ = s /\ level'[l].price_ = P
      /\ s \in Side /\ P \in Prices
      /\ order' \in [OrderCells -> MEOrder \cup {NULL}]
      /\ next_order_' \in [OrderCells -> OrderPtr]
      /\ prev_order_' \in [OrderCells -> OrderPtr]
      /\ orders_next_free' \in OrderCells
      /\ cid_oid_to_order_' \in [Clients \X ClientOids -> OrderPtr]
      /\ level' \in [LevelCells -> MEOrdersAtPrice \cup {NULL}]
      /\ orders_head_' \in [LevelCells -> OrderPtr]
      /\ price_to_orders_at_price_' \in [LevelCells -> LevelPtr]
      /\ levels_next_free' \in LevelCells
      /\ PoolInv' /\ PriceIndexInv' /\ OrderRingInv' /\ FifoInv'
      /\ OrderIdInv' /\ ClientIndexInv' /\ NotCrossed'
  BY <1>1, OpenLevelEffect
<1>3. /\ c \in LiveLevels /\ level[c].side_ = s
      /\ h \in LiveLevels /\ level[h].side_ = s /\ h # NULL
      /\ p \in LiveLevels /\ level[p].side_ = s /\ next_[p] = c
      /\ c # h => ~W(P, level[c].price_)
      /\ c # h \/ W(P, level[c].price_) => W(P, level[p].price_)
  <2>1. /\ c \in LiveLevels /\ level[c].side_ = s /\ h # NULL
        /\ c # h \/ BehindCurr(c) => BehindCurr(p)
        /\ ~(BehindCurr(c) /\ c # h)
    BY DEF RestInNewLevel, SearchInv
  <2>2. h \in LiveLevels /\ level[h].side_ = s
    BY <1>2, <2>1 DEF BookInv, BestInv
  <2>3. p \in LiveLevels /\ level[p].side_ = s /\ next_[p] = c
    BY <2>1 DEF BookInv, LevelRingInv
  <2>. QED
    BY <2>1, <2>2, <2>3 DEF BehindCurr
<1>4. \A m \in LiveLevels :
        m \in LevelCells /\ m # l /\ level[m].side_ \in Side /\ level[m].price_ \in Prices
  BY <1>1, <1>2, LiveCells DEF MEOrdersAtPrice
<1>5. BookTypeOK'
  <2>1. l \in LevelPtr /\ next_[p] \in LevelPtr /\ p \in LevelPtr
    BY <1>2, <1>3, <1>4 DEF LevelPtr
  <2>2. next_' \in [LevelCells -> LevelPtr] /\ prev_' \in [LevelCells -> LevelPtr]
        /\ best' \in [Side -> LevelPtr]
    BY <1>1, <2>1 DEF BookTypeOK
  <2>. QED
    BY <1>2, <2>2 DEF BookTypeOK
<1>6. /\ \A m \in LiveLevels :
           /\ next_'[m] = IF m = p THEN l ELSE next_[m]
           /\ prev_'[m] = IF m = c THEN l ELSE prev_[m]
      /\ next_'[l] = c /\ prev_'[l] = p
      /\ \A t \in Side : best'[t] = IF t = s /\ W(level[h].price_, P) THEN l ELSE best[t]
  <2>1. /\ next_' = [next_ EXCEPT ![l] = c, ![p] = l]
        /\ prev_' = [prev_ EXCEPT ![l] = p, ![c] = l]
    BY <1>1, <1>3
  <2>2. /\ \A m \in LiveLevels :
             /\ next_'[m] = IF m = p THEN l ELSE next_[m]
             /\ prev_'[m] = IF m = c THEN l ELSE prev_[m]
        /\ next_'[l] = c /\ prev_'[l] = p
    BY <1>1, <1>2, <1>3, <1>4, <2>1 DEF BookTypeOK
  <2>3. \A t \in Side : best'[t] = IF t = s /\ W(level[h].price_, P) THEN l ELSE best[t]
    BY <1>1, <1>2 DEF BookTypeOK
  <2>. QED
    BY <2>2, <2>3
<1>7. LevelRingInv'
  <2>1. ASSUME NEW m \in LiveLevels'
        PROVE  /\ next_'[m] \in LiveLevels' /\ prev_'[next_'[m]] = m
               /\ level'[next_'[m]].side_ = level'[m].side_
    <3>1. CASE m = l
      BY <1>2, <1>3, <1>6, <3>1
    <3>2. CASE m = p
      BY <1>2, <1>3, <1>6, <3>2
    <3>3. CASE m \in LiveLevels /\ m # p
      BY <1>2, <1>3, <1>6, <3>3 DEF BookInv, LevelRingInv
    <3>. QED
      BY <1>2, <3>1, <3>2, <3>3
  <2>2. ASSUME NEW m \in LiveLevels'
        PROVE  prev_'[m] \in LiveLevels' /\ next_'[prev_'[m]] = m
    <3>1. CASE m = l
      BY <1>2, <1>3, <1>6, <3>1
    <3>2. CASE m = c
      BY <1>2, <1>3, <1>6, <3>2
    <3>3. CASE m \in LiveLevels /\ m # c
      BY <1>2, <1>3, <1>6, <3>3 DEF BookInv, LevelRingInv
    <3>. QED
      BY <1>2, <3>1, <3>2, <3>3
  <2>. QED
    BY <2>1, <2>2 DEF LevelRingInv
<1>8. BestInv'
  <2>1. ASSUME NEW t \in Side, best'[t] # NULL
        PROVE  best'[t] \in LiveLevels' /\ level'[best'[t]].side_ = t
    <3>1. CASE t = s /\ W(level[h].price_, P)
      BY <1>2, <1>6, <3>1
    <3>2. CASE ~(t = s /\ W(level[h].price_, P))
      BY <1>2, <1>6, <2>1, <3>2 DEF BookInv, BestInv
    <3>. QED
      BY <3>1, <3>2
  <2>2. ASSUME NEW m \in LiveLevels'
        PROVE  LET t == level'[m].side_ IN
               /\ best'[t] # NULL
               /\ ~Worse(t, level'[best'[t]].price_, level'[m].price_)
    <3>1. CASE m = l
      <4>1. CASE W(level[h].price_, P)
        BY <1>1, <1>2, <1>6, <3>1, <4>1, LiveCells, WorseIsOrder
      <4>2. CASE ~W(level[h].price_, P)
        BY <1>2, <1>3, <1>6, <3>1, <4>2
      <4>. QED
        BY <4>1, <4>2
    <3>2. CASE m \in LiveLevels
      <4>1. /\ level'[m] = level[m] /\ best[level[m].side_] # NULL
            /\ ~Worse(level[m].side_, level[best[level[m].side_]].price_, level[m].price_)
            /\ best[level[m].side_] \in LiveLevels
        BY <1>2, <1>4, <3>2 DEF BookInv, BestInv
      <4>2. CASE level[m].side_ = s /\ W(level[h].price_, P)
        <5>1. ~W(P, level[m].price_)
          BY <1>2, <1>3, <1>4, <3>2, <4>1, <4>2, WorseIsOrder
        <5>. QED
          BY <1>1, <1>2, <1>6, <3>2, <4>1, <4>2, <5>1, LiveCells
      <4>3. CASE ~(level[m].side_ = s /\ W(level[h].price_, P))
        BY <1>2, <1>4, <1>6, <3>2, <4>1, <4>3
      <4>. QED
        BY <4>2, <4>3
    <3>. QED
      BY <1>2, <3>1, <3>2
  <2>. QED
    BY <2>1, <2>2 DEF BestInv
<1>9. SortedInv'
  <2>. DEFINE pr(m) == level[m].price_
  <2>1. \A m \in LiveLevels : level[m].side_ = s =>
          /\ pr(m) \in Prices /\ pr(m) # P /\ ~W(pr(h), pr(m))
          /\ next_[m] \in LiveLevels /\ pr(next_[m]) \in Prices
          /\ level[next_[m]].side_ = s
    BY <1>2, <1>4 DEF BookInv, BestInv, LevelRingInv
  <2>2. \A m, q \in LiveLevels : level[m].side_ = s /\ level[q].side_ = s =>
          IF next_[m] = h
          THEN ~W(pr(q), pr(m))
          ELSE W(pr(next_[m]), pr(m)) /\ ~(W(pr(q), pr(m)) /\ W(pr(next_[m]), pr(q)))
    BY DEF BookInv, SortedInv
  <2>3. \A a, b, d \in Prices :
          /\ ~W(a, a)
          /\ W(a, b) => ~W(b, a)
          /\ W(a, b) /\ W(b, d) => W(a, d)
          /\ a # b => W(a, b) \/ W(b, a)
    BY <1>2, WorseIsOrder
  <2>4. P \in Prices
    BY <1>2
  <2>. HIDE DEF W
  (* Three ways the new level can stand to the head of its side's list.    *)
  <2>5. \/ /\ c # h /\ W(pr(c), P) /\ W(P, pr(p)) /\ ~W(pr(h), P)
        \/ /\ c = h /\ W(P, pr(h)) /\ W(P, pr(p)) /\ ~W(pr(h), P)
        \/ /\ c = h /\ W(pr(h), P)
    <3>1. /\ pr(c) \in Prices /\ pr(c) # P /\ pr(p) \in Prices /\ pr(h) \in Prices
          /\ ~W(pr(h), pr(p)) /\ pr(h) # P
      BY <1>3, <2>1
    <3>2. CASE c # h
      <4>1. W(pr(c), P) /\ W(P, pr(p))
        BY <1>3, <2>3, <2>4, <3>1, <3>2
      <4>. QED
        BY <2>3, <2>4, <3>1, <3>2, <4>1
    <3>3. CASE c = h
      BY <1>3, <2>3, <2>4, <3>1, <3>3
    <3>. QED
      BY <3>2, <3>3
  <2>6. ASSUME NEW q \in LiveLevels, level[q].side_ = s
        PROVE  LET b == IF W(pr(h), P) THEN l ELSE h IN
               /\ IF c = b THEN ~W(pr(q), P)
                  ELSE W(pr(c), P) /\ ~(W(pr(q), P) /\ W(pr(c), pr(q)))
               /\ IF l = b THEN ~W(pr(q), pr(p))
                  ELSE W(P, pr(p)) /\ ~(W(pr(q), pr(p)) /\ W(P, pr(q)))
    <3>1. /\ pr(q) \in Prices /\ pr(c) \in Prices /\ pr(p) \in Prices /\ pr(h) \in Prices
          /\ ~W(pr(h), pr(q)) /\ ~W(pr(h), pr(p)) /\ l # h /\ l # c
          /\ IF c = h THEN ~W(pr(q), pr(p))
             ELSE W(pr(c), pr(p)) /\ ~(W(pr(q), pr(p)) /\ W(pr(c), pr(q)))
      BY <1>3, <1>4, <2>1, <2>2, <2>6
    <3>. QED
      BY <2>3, <2>4, <2>5, <3>1
  <2>7. ASSUME NEW m \in LiveLevels, level[m].side_ = s, m # p
        PROVE  LET b == IF W(pr(h), P) THEN l ELSE h IN
               /\ next_[m] # c
               /\ IF next_[m] = b THEN next_[m] = h /\ ~W(P, pr(m))
                  ELSE next_[m] # h /\ ~(W(P, pr(m)) /\ W(pr(next_[m]), P))
    <3>. DEFINE n == next_[m]
    <3>1. n # c /\ n # l
      BY <1>3, <1>4, <2>1, <2>7 DEF BookInv, LevelRingInv
    <3>2. /\ pr(m) \in Prices /\ pr(n) \in Prices /\ pr(c) \in Prices /\ pr(p) \in Prices
          /\ pr(h) \in Prices /\ ~W(pr(h), pr(m)) /\ pr(m) # P /\ pr(n) # P
          /\ n \in LiveLevels /\ level[n].side_ = s /\ pr(n) # pr(c)
      BY <1>3, <2>1, <2>7, <3>1, OneLevelPerPrice DEF BookInv
    <3>3. /\ IF n = h THEN ~W(pr(c), pr(m)) /\ ~W(pr(p), pr(m))
             ELSE W(pr(n), pr(m)) /\ ~(W(pr(c), pr(m)) /\ W(pr(n), pr(c)))
          /\ IF c = h THEN ~W(pr(n), pr(p)) /\ ~W(pr(m), pr(p))
             ELSE W(pr(c), pr(p)) /\ ~(W(pr(n), pr(p)) /\ W(pr(c), pr(n)))
      BY <1>3, <2>2, <2>7, <3>2
    <3>4. CASE n = h
      BY <2>3, <2>4, <2>5, <3>1, <3>2, <3>3, <3>4
    <3>5. CASE n # h
      <4>1. ~(W(P, pr(m)) /\ W(pr(n), P))
        BY <2>3, <2>4, <2>5, <3>1, <3>2, <3>3, <3>5
      <4>. QED
        BY <3>1, <3>5, <4>1
    <3>. QED
      BY <3>4, <3>5
  <2>8. W(pr(h), P) => ~W(P, pr(p))
    BY <1>3, <2>1, <2>3, <2>4
  <2>9. ASSUME NEW m \in LiveLevels', NEW q \in LiveLevels', level'[q].side_ = level'[m].side_
        PROVE  LET t == level'[m].side_ IN
               IF next_'[m] = best'[t]
               THEN ~Worse(t, level'[q].price_, level'[m].price_)
               ELSE /\ Worse(t, level'[next_'[m]].price_, level'[m].price_)
                    /\ ~(/\ Worse(t, level'[q].price_, level'[m].price_)
                         /\ Worse(t, level'[next_'[m]].price_, level'[q].price_))
    <3>1. CASE level'[m].side_ # s
      <4>1. /\ m \in LiveLevels /\ q \in LiveLevels /\ m # p
            /\ next_[m] \in LiveLevels
        BY <1>2, <1>3, <2>9, <3>1 DEF BookInv, LevelRingInv
      <4>2. next_'[m] = next_[m] /\ best'[level[m].side_] = best[level[m].side_]
        BY <1>2, <1>4, <1>6, <3>1, <4>1
      <4>. QED
        BY <1>2, <2>9, <4>1, <4>2 DEF BookInv, SortedInv
    <3>2. CASE level'[m].side_ = s
      <4>. DEFINE b == IF W(pr(h), P) THEN l ELSE h
      <4>1. best'[s] = b
        BY <1>2, <1>6
      <4>2. q \in LiveLevels => level[q].side_ = s
        BY <1>2, <2>9, <3>2
      <4>3. q = l \/ q \in LiveLevels
        BY <1>2
      <4>4. CASE m = l
        <5>1. next_'[m] = c /\ level'[m].price_ = P /\ level'[c].price_ = pr(c)
          BY <1>2, <1>3, <1>6, <4>4
        <5>2. CASE q = l
          <6>1. level'[q].price_ = P /\ ~W(P, P)
            BY <1>2, <2>3, <2>4, <5>2
          <6>2. c = b \/ W(pr(c), P)
            BY <2>5, <1>3, <1>4
          <6>. QED
            BY <3>2, <4>1, <5>1, <6>1, <6>2 DEF W
        <5>3. CASE q \in LiveLevels
          BY <1>2, <2>6, <3>2, <4>1, <4>2, <5>1, <5>3 DEF W
        <5>. QED
          BY <4>3, <5>2, <5>3
      <4>5. CASE m = p
        <5>1. next_'[m] = l /\ level'[m].price_ = pr(p) /\ level'[l].price_ = P
          BY <1>2, <1>3, <1>6, <4>5
        <5>2. CASE q = l
          <6>1. level'[q].price_ = P /\ ~W(P, P)
            BY <1>2, <2>3, <2>4, <5>2
          <6>2. IF l = b THEN ~W(P, pr(p)) ELSE W(P, pr(p))
            BY <1>3, <1>4, <2>5, <2>8
          <6>. QED
            BY <3>2, <4>1, <5>1, <6>1, <6>2 DEF W
        <5>3. CASE q \in LiveLevels
          BY <1>2, <2>6, <3>2, <4>1, <4>2, <5>1, <5>3 DEF W
        <5>. QED
          BY <4>3, <5>2, <5>3
      <4>6. CASE m \in LiveLevels /\ m # p
        <5>1. /\ next_'[m] = next_[m] /\ level[m].side_ = s /\ next_[m] \in LiveLevels
              /\ level'[m].price_ = pr(m) /\ level'[next_[m]].price_ = pr(next_[m])
          BY <1>2, <1>6, <2>1, <3>2, <4>6
        <5>2. IF next_[m] = b THEN next_[m] = h /\ ~W(P, pr(m))
              ELSE next_[m] # h /\ ~(W(P, pr(m)) /\ W(pr(next_[m]), P))
          BY <2>7, <4>6, <5>1
        <5>3. next_[m] # h => W(pr(next_[m]), pr(m))
          BY <2>2, <4>6, <5>1
        <5>4. CASE q = l
          BY <1>2, <3>2, <4>1, <5>1, <5>2, <5>3, <5>4 DEF W
        <5>5. CASE q \in LiveLevels
          <6>1. IF next_[m] = h
                THEN ~W(pr(q), pr(m))
                ELSE W(pr(next_[m]), pr(m)) /\ ~(W(pr(q), pr(m)) /\ W(pr(next_[m]), pr(q)))
            BY <2>2, <4>2, <4>6, <5>1, <5>5
          <6>. QED
            BY <1>2, <3>2, <4>1, <5>1, <5>2, <5>5, <6>1 DEF W
        <5>. QED
          BY <4>3, <5>4, <5>5
      <4>. QED
        BY <1>2, <4>4, <4>5, <4>6
    <3>. QED
      BY <3>1, <3>2
  <2>. QED
    BY <2>9 DEF SortedInv
<1>. QED
  BY <1>2, <1>5, <1>7, <1>8, <1>9 DEF BookInv

----------------------------------------------------------------------------
(* The steps of the engine.                                                *)

(* A step that leaves the book alone keeps its invariant.                  *)
LEMMA BookUnchanged ==
  ASSUME BookTypeOK, BookInv, UNCHANGED bookVars
  PROVE  /\ BookTypeOK' /\ BookInv'
         /\ LiveOrders' = LiveOrders /\ LiveLevels' = LiveLevels
         /\ order' = order /\ level' = level /\ best' = best
         /\ next_' = next_ /\ prev_' = prev_
         /\ \A p : getOrderAtPrice(p)' = getOrderAtPrice(p)
         /\ UNCHANGED incoming => CanMatch' = CanMatch /\ NoRoom' = NoRoom
<1>. USE DEF bookVars, orderVars, levelVars, FreeOrders, FreeLevels, LiveOrders, LiveLevels,
             getOrderAtPrice, priceToIndex
<1>1. BookTypeOK'
  BY DEF BookTypeOK
<1>2. PoolInv' /\ PriceIndexInv' /\ LevelRingInv' /\ BestInv' /\ SortedInv'
  BY DEF BookInv, PoolInv, PriceIndexInv, LevelRingInv, BestInv, SortedInv
<1>3. OrderRingInv' /\ FifoInv' /\ OrderIdInv' /\ ClientIndexInv' /\ NotCrossed'
  <2>1. OrderRingInv'
    BY DEF BookInv, OrderRingInv
  <2>2. FifoInv'
    BY DEF BookInv, FifoInv
  <2>3. OrderIdInv' /\ ClientIndexInv' /\ NotCrossed'
    BY DEF BookInv, OrderIdInv, ClientIndexInv, NotCrossed
  <2>. QED
    BY <2>1, <2>2, <2>3
<1>4. UNCHANGED incoming => CanMatch' = CanMatch /\ NoRoom' = NoRoom
  BY DEF CanMatch, NoRoom, Exhausted, bestOrder
<1>. QED
  BY <1>1, <1>2, <1>3, <1>4 DEF BookInv

(* The order the matching loop takes next is in the book, on the other     *)
(* side.                                                                   *)
LEMMA BestOrderIsLive ==
  ASSUME TypeOK, BookInv, pc = "matching", CanMatch
  PROVE  /\ bestOrder(Opposite(incoming.side_)) \in LiveOrders
         /\ order[bestOrder(Opposite(incoming.side_))].side_ = Opposite(incoming.side_)
         /\ order[bestOrder(Opposite(incoming.side_))].price_
              = level[best[Opposite(incoming.side_)]].price_
<1>. DEFINE t == Opposite(incoming.side_)
<1>1. t \in Side
  BY DEF TypeOK, FlowTypeOK, Incoming, Opposite, Side
<1>2. best[t] \in LiveLevels /\ level[best[t]].side_ = t
  BY <1>1 DEF CanMatch, BookInv, BestInv
<1>3. orders_head_[best[t]] \in LiveOrders
      /\ order[orders_head_[best[t]]].price_ = level[best[t]].price_
  BY <1>2 DEF BookInv, OrderRingInv
<1>4. getOrderAtPrice(level[best[t]].price_) = best[t]
  BY <1>2 DEF BookInv, PriceIndexInv
<1>. QED
  BY <1>2, <1>3, <1>4 DEF bestOrder, BookInv, OrderRingInv

(* An order leaves the book, or stays with less: it stays the older one.   *)
LEMMA IncomingKept ==
  ASSUME BookTypeOK, IncomingInv, UNCHANGED <<next_order_id_, sent>>,
         LiveOrders' \subseteq LiveOrders,
         \A q \in LiveOrders' :
           /\ order'[q].client_id_ = order[q].client_id_
           /\ order'[q].client_order_id_ = order[q].client_order_id_
           /\ order'[q].market_order_id_ = order[q].market_order_id_,
         \/ UNCHANGED incoming
         \/ incoming' = NULL
         \/ /\ incoming # NULL
            /\ incoming'.client_id_ = incoming.client_id_
            /\ incoming'.client_order_id_ = incoming.client_order_id_
            /\ incoming'.market_order_id_ = incoming.market_order_id_
  PROVE  IncomingInv'
BY DEF IncomingInv

----------------------------------------------------------------------------
(* The empty book.                                                         *)
LEMMA InitInv == Init => EngineInv
<1>. SUFFICES ASSUME Init PROVE EngineInv
  OBVIOUS
<1>. USE DEF Init
<1>1. LiveOrders = {} /\ LiveLevels = {} /\ FreeOrders = OrderCells /\ FreeLevels = LevelCells
  BY DEF LiveOrders, LiveLevels, FreeOrders, FreeLevels
<1>2. 0 \in OrderCells /\ 0 \in LevelCells
  BY OrdersAssumption, LevelsAssumption DEF OrderCells, LevelCells
<1>3. TypeOK
  BY <1>2 DEF TypeOK, BookTypeOK, FlowTypeOK, OrderPtr, LevelPtr
<1>4. BookInv
  BY <1>1, <1>2 DEF BookInv, PoolInv, PriceIndexInv, LevelRingInv, BestInv, SortedInv,
     OrderRingInv, FifoInv, OrderIdInv, ClientIndexInv, NotCrossed
<1>5. IncomingInv /\ SearchInv
  BY <1>1 DEF IncomingInv, SearchInv
<1>. QED
  BY <1>3, <1>4, <1>5 DEF EngineInv

(* A new order arrives at the engine (MEOrderBook::add).                   *)
LEMMA NewOrderInv ==
  ASSUME EngineInv, NEW c \in Clients, NEW s \in Side, NEW p \in Prices, NEW q \in Qtys,
         NewOrder(c, s, p, q)
  PROVE  EngineInv'
<1>. USE DEF EngineInv, TypeOK
<1>1. /\ UNCHANGED bookVars /\ BookTypeOK' /\ BookInv'
      /\ LiveOrders' = LiveOrders /\ order' = order
  BY BookUnchanged DEF NewOrder
<1>2. /\ sent \in [Clients -> Nat] /\ next_order_id_ \in Nat
      /\ sent' = [sent EXCEPT ![c] = sent[c] + 1]
      /\ next_order_id_' = next_order_id_ + 1
      /\ incoming' = [client_id_ |-> c, client_order_id_ |-> sent[c],
                      market_order_id_ |-> next_order_id_, side_ |-> s,
                      price_ |-> p, qty_ |-> q, left |-> q]
      /\ pc' = "matching" /\ curr' = curr
  BY DEF NewOrder, FlowTypeOK
<1>3. incoming' \in Incoming /\ incoming' # NULL
  BY <1>2, QtyAssumption, NullRecords DEF Incoming
<1>4. FlowTypeOK'
  BY <1>2, <1>3 DEF FlowTypeOK, LevelPtr
<1>5. \A o \in LiveOrders : /\ order[o].client_id_ \in Clients
                            /\ order[o].client_order_id_ \in Nat
                            /\ order[o].market_order_id_ \in Nat
  BY LiveCells DEF MEOrder
<1>6. IncomingInv'
  BY <1>1, <1>2, <1>3, <1>5 DEF IncomingInv
<1>7. SearchInv'
  BY <1>2 DEF SearchInv
<1>. QED
  BY <1>1, <1>4, <1>6, <1>7

(* One round of the matching loop (checkForMatch, match).                  *)
LEMMA MatchInv ==
  ASSUME NoAlias, EngineInv, Match
  PROVE  EngineInv'
<1>. USE DEF EngineInv, TypeOK
<1>1. PICK o \in LiveOrders : o = bestOrder(Opposite(incoming.side_))
  BY BestOrderIsLive DEF Match
<1>. DEFINE filled == MinOf(order[o].qty_, incoming.left)
            rest   == order[o].qty_ - filled
<1>2. /\ pc = "matching" /\ pc' = pc /\ UNCHANGED <<next_order_id_, sent, curr>>
      /\ incoming' = [incoming EXCEPT !.left = @ - filled]
      /\ incoming.left > 0
      /\ \/ rest = 0 /\ removeOrder(o)
         \/ /\ rest # 0
            /\ order' = [order EXCEPT ![o].qty_ = rest]
            /\ UNCHANGED <<next_order_, prev_order_, orders_next_free,
                           cid_oid_to_order_, levelVars>>
  BY <1>1 DEF Match, CanMatch
<1>3. /\ incoming \in Incoming /\ incoming # NULL /\ incoming.left \in Nat
      /\ order[o].qty_ \in Nat /\ order[o] \in MEOrder
  BY <1>2, LiveCells DEF FlowTypeOK, Incoming, MEOrder
<1>4. filled \in Nat /\ rest \in Nat /\ incoming.left - filled \in Nat
  BY <1>3 DEF MinOf
<1>5. /\ incoming' \in Incoming /\ incoming' # NULL
      /\ incoming'.client_id_ = incoming.client_id_
      /\ incoming'.client_order_id_ = incoming.client_order_id_
      /\ incoming'.market_order_id_ = incoming.market_order_id_
  <2>. HIDE DEF filled
  <2>. QED
    BY <1>2, <1>3, <1>4, NullRecords DEF Incoming
<1>6. /\ BookTypeOK' /\ BookInv' /\ LiveOrders' \subseteq LiveOrders
      /\ \A q \in LiveOrders' :
           /\ order'[q].client_id_ = order[q].client_id_
           /\ order'[q].client_order_id_ = order[q].client_order_id_
           /\ order'[q].market_order_id_ = order[q].market_order_id_
  <2>. HIDE DEF rest
  <2>1. CASE rest = 0 /\ removeOrder(o)
    BY <2>1, RemoveOrder
  <2>2. CASE rest # 0 /\ order' = [order EXCEPT ![o].qty_ = rest]
             /\ UNCHANGED <<next_order_, prev_order_, orders_next_free,
                            cid_oid_to_order_, levelVars>>
    <3>1. rest \in Nat /\ rest > 0
      BY <1>4, <2>2
    <3>2. /\ BookTypeOK' /\ BookInv' /\ LiveOrders' = LiveOrders
          /\ \A q \in LiveOrders : order'[q] = IF q = o THEN [order[q] EXCEPT !.qty_ = rest]
                                               ELSE order[q]
      BY <2>2, <3>1, ReduceOrder
    <3>. QED
      BY <1>3, <3>2 DEF MEOrder
  <2>. QED
    BY <1>2, <2>1, <2>2
<1>7. FlowTypeOK'
  BY <1>2, <1>5 DEF FlowTypeOK, LevelPtr
<1>8. IncomingInv'
  BY <1>2, <1>3, <1>5, <1>6, IncomingKept
<1>9. SearchInv'
  BY <1>2 DEF SearchInv
<1>. QED
  BY <1>6, <1>7, <1>8, <1>9

(* A request ends and the book stays as it is.                             *)
LEMMA EndInv ==
  ASSUME EngineInv, FullyFilled \/ Abort
  PROVE  EngineInv'
<1>. USE DEF EngineInv, TypeOK
<1>1. /\ BookTypeOK' /\ BookInv' /\ LiveOrders' = LiveOrders /\ order' = order
      /\ UNCHANGED <<next_order_id_, sent, curr>>
      /\ \/ pc' = "idle" /\ incoming' = NULL
         \/ pc' = "aborted" /\ incoming' = incoming
  <2>1. UNCHANGED bookVars
    BY DEF FullyFilled, Abort
  <2>2. /\ UNCHANGED <<next_order_id_, sent, curr>>
        /\ \/ pc' = "idle" /\ incoming' = NULL
           \/ pc' = "aborted" /\ incoming' = incoming
    BY DEF FullyFilled, Abort
  <2>. QED
    BY <2>1, <2>2, BookUnchanged
<1>2. FlowTypeOK'
  <2>1. pc = "matching"
    BY DEF FullyFilled, Abort, Resting
  <2>. QED
    BY <1>1, <2>1 DEF FlowTypeOK, LevelPtr
<1>3. IncomingInv'
  BY <1>1, IncomingKept
<1>4. SearchInv'
  BY <1>1 DEF SearchInv
<1>. QED
  BY <1>1, <1>2, <1>3, <1>4

(* The incoming order comes to rest.                                       *)
LEMMA RestInv ==
  ASSUME NoAlias, EngineInv, RestAtLevel \/ RestOnEmptySide \/ RestInNewLevel
  PROVE  EngineInv'
<1>. USE DEF EngineInv, TypeOK
<1>1. BookTypeOK' /\ BookInv'
  BY AppendOrder, FirstLevel, InsertLevel
<1>2. /\ incoming # NULL /\ incoming.left > 0 /\ ~CanMatch /\ ~NoRoom /\ RestOrder
  BY DEF RestAtLevel, RestOnEmptySide, RestInNewLevel, OpenLevel, Resting, SearchInv, FlowTypeOK
<1>. DEFINE o == orders_next_free
<1>3. /\ LiveOrders' = LiveOrders \cup {o}
      /\ \A q \in LiveOrders : order'[q] = order[q]
      /\ order'[o].market_order_id_ = incoming.market_order_id_
      /\ order'[o].client_id_ = incoming.client_id_
      /\ order'[o].client_order_id_ = incoming.client_order_id_
  BY <1>2, RestOrderEffect
<1>4. /\ pc' = "idle" /\ incoming' = NULL /\ curr' = NULL
      /\ UNCHANGED <<next_order_id_, sent>>
  BY <1>2 DEF RestOrder
<1>5. FlowTypeOK'
  BY <1>4 DEF FlowTypeOK, LevelPtr
<1>6. IncomingInv'
  <2>. SUFFICES ASSUME NEW q \in LiveOrders'
                PROVE  /\ order'[q].market_order_id_ < next_order_id_
                       /\ order'[q].client_order_id_ < sent[order'[q].client_id_]
    BY <1>4 DEF IncomingInv
  <2>. QED
    BY <1>2, <1>3 DEF IncomingInv
<1>7. SearchInv'
  BY <1>4 DEF SearchInv
<1>. QED
  BY <1>1, <1>5, <1>6, <1>7

(* The search for a level's place goes on behind the levels it has passed. *)
LEMMA SearchStepInv ==
  ASSUME EngineInv, StartSearch \/ SearchOn
  PROVE  EngineInv'
<1>. USE DEF EngineInv, TypeOK
<1>. DEFINE s == incoming.side_
            h == best[s]
<1>1. /\ UNCHANGED bookVars /\ incoming' = incoming /\ pc' = "searching"
      /\ UNCHANGED <<next_order_id_, sent>>
      /\ pc # "idle" /\ incoming # NULL
  BY DEF StartSearch, SearchOn, Resting, FlowTypeOK
<1>2. /\ BookTypeOK' /\ BookInv' /\ LiveOrders' = LiveOrders /\ LiveLevels' = LiveLevels
      /\ order' = order /\ level' = level /\ best' = best
      /\ next_' = next_ /\ prev_' = prev_
      /\ \A p : getOrderAtPrice(p)' = getOrderAtPrice(p)
      /\ CanMatch' = CanMatch /\ NoRoom' = NoRoom
  BY <1>1, BookUnchanged
<1>3. /\ incoming.left > 0 /\ ~CanMatch /\ ~NoRoom
      /\ getOrderAtPrice(incoming.price_) = NULL
      /\ h # NULL
  BY DEF StartSearch, SearchOn, Resting, SearchInv
<1>4. s \in Side
  BY <1>1 DEF FlowTypeOK, Incoming
<1>5. /\ h \in LiveLevels /\ level[h].side_ = s
      /\ next_[h] \in LiveLevels /\ level[next_[h]].side_ = s /\ prev_[next_[h]] = h
  BY <1>3, <1>4 DEF BookInv, BestInv, LevelRingInv
<1>6. /\ curr' \in LiveLevels /\ level[curr'].side_ = s
      /\ curr' # h \/ BehindCurr(curr') => BehindCurr(prev_[curr'])
  <2>1. CASE StartSearch
    BY <2>1, <1>5 DEF StartSearch
  <2>2. CASE SearchOn
    <3>1. curr \in LiveLevels /\ level[curr].side_ = s
      BY <2>2 DEF SearchOn, SearchInv
    <3>2. /\ next_[curr] \in LiveLevels /\ level[next_[curr]].side_ = s
          /\ prev_[next_[curr]] = curr
      BY <3>1 DEF BookInv, LevelRingInv
    <3>. QED
      BY <2>2, <3>2 DEF SearchOn
  <2>. QED
    BY <2>1, <2>2
<1>7. FlowTypeOK'
  BY <1>1, <1>6, <1>2, LiveCells DEF FlowTypeOK, LevelPtr
<1>8. IncomingInv'
  BY <1>1, <1>2 DEF IncomingInv
<1>9. SearchInv'
  BY <1>1, <1>2, <1>3, <1>6 DEF SearchInv, BehindCurr, getOrderAtPrice
<1>. QED
  BY <1>2, <1>7, <1>8, <1>9

(* A cancel request, accepted or rejected (MEOrderBook::cancel).           *)
LEMMA CancelInv ==
  ASSUME NoAlias, EngineInv, NEW c \in Clients, NEW coid \in 0 .. ME_MAX_ORDER_IDS,
         CancelRejected(c, coid) \/ Cancel(c, coid)
  PROVE  EngineInv'
<1>. USE DEF EngineInv, TypeOK
<1>1. pc = "idle" /\ UNCHANGED flowVars
  BY DEF CancelRejected, Cancel
<1>2. FlowTypeOK' /\ SearchInv'
  BY <1>1 DEF flowVars, FlowTypeOK, SearchInv, LevelPtr
<1>3. BookTypeOK' /\ BookInv' /\ IncomingInv'
  <2>1. CASE CancelRejected(c, coid)
    <3>1. BookTypeOK' /\ BookInv' /\ LiveOrders' = LiveOrders /\ order' = order
      BY <2>1, BookUnchanged DEF CancelRejected
    <3>. QED
      BY <1>1, <3>1, IncomingKept DEF flowVars
  <2>2. CASE Cancel(c, coid)
    <3>1. PICK o \in LiveOrders : o = cid_oid_to_order_[<<c, coid>>]
      BY <2>2 DEF Cancel, Known, BookInv, ClientIndexInv
    <3>2. /\ BookTypeOK' /\ BookInv' /\ LiveOrders' = LiveOrders \ {o}
          /\ \A q \in LiveOrders' : order'[q] = order[q]
      BY <2>2, <3>1, RemoveOrder DEF Cancel
    <3>. QED
      BY <1>1, <3>2, IncomingKept DEF flowVars
  <2>. QED
    BY <2>1, <2>2
<1>. QED
  BY <1>2, <1>3

(* A step that changes nothing.                                            *)
LEMMA StutterInv ==
  ASSUME EngineInv, UNCHANGED vars
  PROVE  EngineInv'
<1>. USE DEF EngineInv, TypeOK
<1>1. UNCHANGED bookVars /\ UNCHANGED flowVars
  BY DEF vars
<1>2. /\ BookTypeOK' /\ BookInv' /\ LiveOrders' = LiveOrders /\ LiveLevels' = LiveLevels
      /\ order' = order /\ level' = level /\ best' = best
      /\ next_' = next_ /\ prev_' = prev_
      /\ \A p : getOrderAtPrice(p)' = getOrderAtPrice(p)
      /\ CanMatch' = CanMatch /\ NoRoom' = NoRoom
  BY <1>1, BookUnchanged DEF flowVars
<1>3. FlowTypeOK' /\ IncomingInv'
  BY <1>1, <1>2 DEF flowVars, FlowTypeOK, IncomingInv
<1>4. SearchInv'
  BY <1>1, <1>2 DEF flowVars, SearchInv, BehindCurr, getOrderAtPrice
<1>. QED
  BY <1>2, <1>3, <1>4

----------------------------------------------------------------------------
(* Every step of the engine thread keeps its invariant.                    *)
LEMMA NextInv ==
  ASSUME NoAlias, EngineInv, [Next]_vars
  PROVE  EngineInv'
<1>1. CASE NewRequest
  BY <1>1, NewOrderInv DEF NewRequest
<1>2. CASE CancelRequest
  BY <1>2, CancelInv DEF CancelRequest
<1>3. CASE Match
  BY <1>3, MatchInv
<1>4. CASE FullyFilled \/ Abort
  BY <1>4, EndInv
<1>5. CASE RestAtLevel \/ RestOnEmptySide \/ RestInNewLevel
  BY <1>5, RestInv
<1>6. CASE StartSearch \/ SearchOn
  BY <1>6, SearchStepInv
<1>7. CASE Aborted \/ UNCHANGED vars
  BY <1>7, StutterInv DEF Aborted
<1>. QED
  BY <1>1, <1>2, <1>3, <1>4, <1>5, <1>6, <1>7 DEF Next, Add

(* The engine's invariant holds in every reachable state: both pools hand  *)
(* out free cells, the price index and the client index are exact, the     *)
(* levels are linked from best to worst price and the orders of a level in *)
(* order of arrival, the book is not crossed.                              *)
THEOREM EngineInvariant ==
  ASSUME NoAlias
  PROVE  Spec => []EngineInv
<1>1. EngineInv /\ [Next]_vars => EngineInv'
  BY NextInv
<1>. QED
  BY <1>1, InitInv, PTL DEF Spec

(* The engine's state keeps its types; the argument needs the whole        *)
(* invariant, since a pointer into a pool is of its type only because it   *)
(* leads to a live cell.                                                   *)
THEOREM TypeCorrect ==
  ASSUME NoAlias
  PROVE  Spec => []TypeOK
<1>1. EngineInv => TypeOK
  BY DEF EngineInv
<1>. QED
  BY <1>1, EngineInvariant, PTL

(* No resting bid ever reaches a resting ask, also in the middle of a      *)
(* request.                                                                *)
THEOREM NeverCrossed ==
  ASSUME NoAlias
  PROVE  Spec => []NotCrossed
<1>1. EngineInv => NotCrossed
  BY DEF EngineInv, BookInv
<1>. QED
  BY <1>1, EngineInvariant, PTL

(* Within a price the list runs in order of arrival from the head, and the *)
(* priorities the market data carries grow with it, through every insert   *)
(* and removal (AddOrderToPriceLevel, getPriority, removeOrder).           *)
THEOREM FirstInFirstOut ==
  ASSUME NoAlias
  PROVE  Spec => []FifoInv
<1>1. EngineInv => FifoInv
  BY DEF EngineInv, BookInv
<1>. QED
  BY <1>1, EngineInvariant, PTL

(* The index cancel() trusts leads to every resting order and to nothing   *)
(* else: a cancel finds the order, and never follows a pointer to a cell   *)
(* that has been freed or handed to another order.                         *)
THEOREM CancelFindsOrder ==
  ASSUME NoAlias
  PROVE  Spec => []ClientIndexInv
<1>1. EngineInv => ClientIndexInv
  BY DEF EngineInv, BookInv
<1>. QED
  BY <1>1, EngineInvariant, PTL

----------------------------------------------------------------------------
(* The abstract book.                                                      *)

(* What the abstract book sees of the pools: the resting orders.           *)
Book == {RestingOrder(order[c]) : c \in LiveOrders}

----------------------------------------------------------------------------
(* How the operations on the pools look in the abstract book.              *)

(* Two cells never hold the same resting order.                            *)
LEMMA ViewIsInjective ==
  ASSUME OrderIdInv, NEW o \in LiveOrders, NEW q \in LiveOrders,
         RestingOrder(order[o]) = RestingOrder(order[q])
  PROVE  o = q
<1>1. order[o].market_order_id_ = order[q].market_order_id_
  BY DEF RestingOrder
<1>. QED
  BY <1>1 DEF OrderIdInv

(* Nothing in the order pool changes: nor does the abstract book.          *)
LEMMA ViewUnchanged ==
  ASSUME LiveOrders' = LiveOrders, order' = order
  PROVE  Book' = Book
BY DEF Book

(* removeOrder takes one order out of the abstract book.                   *)
LEMMA ViewRemove ==
  ASSUME OrderIdInv, NEW o \in LiveOrders,
         LiveOrders' = LiveOrders \ {o},
         \A q \in LiveOrders' : order'[q] = order[q]
  PROVE  Book' = Book \ {RestingOrder(order[o])}
<1>1. Book' = {RestingOrder(order[c]) : c \in LiveOrders \ {o}}
  BY DEF Book, RestingOrder
<1>2. \A q \in LiveOrders \ {o} : RestingOrder(order[q]) # RestingOrder(order[o])
  BY ViewIsInjective
<1>. QED
  BY <1>1, <1>2 DEF Book

(* A partial fill replaces one order of the abstract book.                 *)
LEMMA ViewReduce ==
  ASSUME BookTypeOK, OrderIdInv, NEW o \in LiveOrders, NEW r \in Nat,
         LiveOrders' = LiveOrders,
         \A q \in LiveOrders : order'[q] = IF q = o THEN [order[q] EXCEPT !.qty_ = r]
                                           ELSE order[q]
  PROVE  Book' = (Book \ {RestingOrder(order[o])})
                   \cup {[RestingOrder(order[o]) EXCEPT !.qty_ = r]}
<1>1. order[o] \in MEOrder
  BY LiveCells
<1>2. RestingOrder(order'[o]) = [RestingOrder(order[o]) EXCEPT !.qty_ = r]
  <2>1. order'[o] = [order[o] EXCEPT !.qty_ = r]
    OBVIOUS
  <2>2. /\ order'[o].client_id_ = order[o].client_id_
        /\ order'[o].client_order_id_ = order[o].client_order_id_
        /\ order'[o].market_order_id_ = order[o].market_order_id_
        /\ order'[o].side_ = order[o].side_ /\ order'[o].price_ = order[o].price_
        /\ order'[o].qty_ = r
    BY <1>1, <2>1 DEF MEOrder
  <2>. QED
    BY <2>2 DEF RestingOrder
<1>3. \A q \in LiveOrders \ {o} : /\ RestingOrder(order'[q]) = RestingOrder(order[q])
                                 /\ RestingOrder(order[q]) # RestingOrder(order[o])
  BY ViewIsInjective
<1>4. Book' = {RestingOrder(order'[c]) : c \in LiveOrders}
  BY DEF Book, RestingOrder
<1>. QED
  BY <1>2, <1>3, <1>4 DEF Book

(* RestOrder adds what is left of the incoming order to the abstract book. *)
LEMMA ViewRest ==
  ASSUME TypeOK, BookInv, IncomingInv, incoming # NULL, incoming.left > 0,
         ~CanMatch, ~NoRoom, RestOrder
  PROVE  Book' = Book \cup {Abstract!Resting(incoming)}
<1>. DEFINE o == orders_next_free
<1>1. /\ LiveOrders' = LiveOrders \cup {o}
      /\ \A q \in LiveOrders : order'[q] = order[q]
  BY RestOrderEffect
<1>2. RestingOrder(order'[o]) = Abstract!Resting(incoming)
  BY RestOrderEffect DEF RestingOrder, Abstract!Resting
<1>3. Book' = {RestingOrder(order'[c]) : c \in LiveOrders'}
  BY DEF Book, RestingOrder
<1>. QED
  BY <1>1, <1>2, <1>3 DEF Book

----------------------------------------------------------------------------
(* The order that trades next.                                             *)

(* The first order of the best level reaches the incoming one: it is       *)
(* eligible in the abstract book.                                          *)
LEMMA BestOrderIsEligible ==
  ASSUME TypeOK, BookInv, pc = "matching", CanMatch,
         NEW o \in LiveOrders, o = bestOrder(Opposite(incoming.side_))
  PROVE  RestingOrder(order[o]) \in Abstract!Eligible
<1>1. incoming.side_ \in Side /\ order[o].side_ = Opposite(incoming.side_)
  BY BestOrderIsLive DEF TypeOK, FlowTypeOK, Incoming
<1>2. Reaches(incoming.side_, incoming.price_, order[o].price_)
  BY DEF CanMatch
<1>3. RestingOrder(order[o]).side_ = order[o].side_
      /\ RestingOrder(order[o]).price_ = order[o].price_
  BY DEF RestingOrder
<1>. DEFINE ro == RestingOrder(order[o])
<1>4. \/ incoming.side_ = "BUY"  /\ ro.side_ = "SELL" /\ ro.price_ <= incoming.price_
      \/ incoming.side_ = "SELL" /\ ro.side_ = "BUY"  /\ ro.price_ >= incoming.price_
  <2>1. incoming.price_ \in Nat /\ order[o].price_ \in Nat
    BY LiveCells, PriceAssumption DEF TypeOK, FlowTypeOK, Incoming, MEOrder
  <2>. QED
    BY <1>1, <1>2, <1>3, <2>1 DEF Reaches, Opposite, Side
<1>5. ro \in Book
  BY DEF Book
<1>. QED
  BY <1>4, <1>5 DEF Abstract!Eligible, Book

(* It comes before every other order of its side: price, then arrival.     *)
LEMMA BestOrderIsFirst ==
  ASSUME TypeOK, BookInv, pc = "matching", CanMatch,
         NEW o \in LiveOrders, o = bestOrder(Opposite(incoming.side_)),
         NEW q \in LiveOrders, q # o, order[q].side_ = Opposite(incoming.side_)
  PROVE  Abstract!Before(RestingOrder(order[o]), RestingOrder(order[q]))
<1>. DEFINE t == Opposite(incoming.side_)
            m == getOrderAtPrice(order[q].price_)
<1>1. /\ t \in Side /\ order[o].side_ = t
      /\ order[o].price_ = level[best[t]].price_
      /\ order[o] \in MEOrder /\ order[q] \in MEOrder
  BY BestOrderIsLive, LiveCells DEF TypeOK, FlowTypeOK, Incoming, Opposite, Side
<1>2. /\ order[o].price_ \in Nat /\ order[q].price_ \in Nat
      /\ order[o].market_order_id_ \in Nat /\ order[q].market_order_id_ \in Nat
  BY <1>1, PriceAssumption DEF MEOrder
<1>3. m \in LiveLevels /\ level[m].price_ = order[q].price_ /\ level[m].side_ = t
  BY DEF BookInv, OrderRingInv
<1>4. ~Worse(t, order[o].price_, order[q].price_)
  BY <1>1, <1>3 DEF BookInv, BestInv
<1>5. order[q].price_ = order[o].price_
        => order[o].market_order_id_ < order[q].market_order_id_
  <2>. SUFFICES ASSUME order[q].price_ = order[o].price_
                PROVE  order[o].market_order_id_ < order[q].market_order_id_
    OBVIOUS
  <2>1. best[t] \in LiveLevels
    BY <1>1 DEF CanMatch, BookInv, BestInv
  <2>2. getOrderAtPrice(order[q].price_) = best[t]
    BY <1>1, <2>1 DEF BookInv, PriceIndexInv
  <2>3. order[o].market_order_id_ <= order[q].market_order_id_
    BY <2>2 DEF BookInv, FifoInv, bestOrder
  <2>4. order[o].market_order_id_ # order[q].market_order_id_
    BY DEF BookInv, OrderIdInv
  <2>. QED
    BY <1>2, <2>3, <2>4
<1>. DEFINE ro == RestingOrder(order[o])
            rq == RestingOrder(order[q])
<1>6. /\ ro.side_ = t /\ ro.price_ = order[o].price_
      /\ ro.market_order_id_ = order[o].market_order_id_
      /\ rq.price_ = order[q].price_
      /\ rq.market_order_id_ = order[q].market_order_id_
  BY <1>1 DEF RestingOrder
<1>7. \/ t = "BUY"  /\ order[o].price_ > order[q].price_
      \/ t = "SELL" /\ order[o].price_ < order[q].price_
      \/ order[o].price_ = order[q].price_
  BY <1>1, <1>2, <1>4 DEF Worse, Side
<1>. HIDE DEF ro, rq
<1>. QED
  BY <1>5, <1>6, <1>7 DEF Abstract!Before, ro, rq

(* When the loop ends with shares left over, nothing is eligible.          *)
LEMMA NothingEligible ==
  ASSUME BookTypeOK, BookInv, incoming \in Incoming, incoming.left > 0, ~CanMatch
  PROVE  Abstract!Eligible = {}
<1>. SUFFICES ASSUME NEW c \in LiveOrders, RestingOrder(order[c]) \in Abstract!Eligible
              PROVE  FALSE
  BY DEF Abstract!Eligible
<1>1. /\ RestingOrder(order[c]).side_ = order[c].side_
      /\ RestingOrder(order[c]).price_ = order[c].price_
  BY DEF RestingOrder
<1>2. \/ incoming.side_ = "BUY"  /\ order[c].side_ = "SELL" /\ order[c].price_ <= incoming.price_
      \/ incoming.side_ = "SELL" /\ order[c].side_ = "BUY"  /\ order[c].price_ >= incoming.price_
  BY <1>1 DEF Abstract!Eligible
<1>3. order[c].side_ = Opposite(incoming.side_)
  BY <1>2 DEF Opposite
<1>4. incoming.price_ \in Nat /\ order[c].price_ \in Nat
  BY LiveCells, PriceAssumption DEF Incoming, MEOrder
<1>. QED
  BY <1>2, <1>3, <1>4, NothingReaches DEF Reaches

----------------------------------------------------------------------------
(* The steps.                                                              *)

(* The empty pools are the empty book.                                     *)
LEMMA InitRefines == Init => Abstract!Init
<1>. SUFFICES ASSUME Init PROVE Abstract!Init
  OBVIOUS
<1>1. LiveOrders = {}
  BY DEF Init, LiveOrders, FreeOrders
<1>2. next_order_id_ - 1 = 0
  BY DEF Init
<1>. QED
  BY <1>1, <1>2 DEF Init, Abstract!Init

(* add() numbers an order and accepts it.                                  *)
LEMMA NewOrderRefines ==
  ASSUME EngineInv, NEW c \in Clients, NEW s \in Side, NEW p \in Prices, NEW q \in Qtys,
         NewOrder(c, s, p, q)
  PROVE  Abstract!Accept(c, s, p, q)
<1>1. /\ pc = "idle" /\ incoming = NULL /\ next_order_id_ \in Nat
      /\ UNCHANGED bookVars /\ BookTypeOK /\ BookInv
  BY DEF NewOrder, EngineInv, TypeOK, FlowTypeOK
<1>2. Book' = Book
  BY <1>1, BookUnchanged, ViewUnchanged
<1>3. /\ next_order_id_ - 1 < MaxOrders
      /\ next_order_id_' - 1 = (next_order_id_ - 1) + 1
      /\ (next_order_id_ - 1) + 1 = next_order_id_
  BY <1>1, BoundAssumption DEF NewOrder
<1>. QED
  BY <1>1, <1>2, <1>3
     DEF NewOrder, Abstract!Accept, Abstract!Answer, MEClientResponse, Book

(* One round of the matching loop is one trade with the first eligible     *)
(* order.                                                                  *)
LEMMA MatchRefines ==
  ASSUME NoAlias, EngineInv, Match
  PROVE  Abstract!Trade
<1>. USE DEF EngineInv, TypeOK
<1>1. PICK o \in LiveOrders : o = bestOrder(Opposite(incoming.side_))
  BY BestOrderIsLive DEF Match
<1>. DEFINE p      == order[o]
            ro     == RestingOrder(p)
            filled == MinOf(p.qty_, incoming.left)
            rest   == p.qty_ - filled
<1>2. /\ pc = "matching" /\ CanMatch /\ incoming.left > 0 /\ incoming # NULL
      /\ incoming \in Incoming /\ p \in MEOrder
      /\ UNCHANGED <<next_order_id_, sent>>
  BY LiveCells DEF Match, CanMatch, FlowTypeOK
<1>3. /\ p.qty_ \in Nat /\ incoming.left \in Nat
      /\ filled \in Nat /\ rest \in Nat
      /\ filled = IF p.qty_ <= incoming.left THEN p.qty_ ELSE incoming.left
  BY <1>2 DEF MEOrder, Incoming, MinOf
<1>4. ro \in Abstract!Eligible
  BY <1>1, <1>2, BestOrderIsEligible
<1>5. \A q \in Abstract!Eligible \ {ro} : Abstract!Before(ro, q)
  <2>. SUFFICES ASSUME NEW c \in LiveOrders, RestingOrder(order[c]) \in Abstract!Eligible,
                       RestingOrder(order[c]) # ro
                PROVE  Abstract!Before(ro, RestingOrder(order[c]))
    BY DEF Abstract!Eligible
  <2>1. RestingOrder(order[c]).side_ = order[c].side_
    BY DEF RestingOrder
  <2>2. order[c].side_ = Opposite(incoming.side_)
    BY <2>1 DEF Abstract!Eligible, Opposite
  <2>. QED
    BY <1>1, <1>2, <2>2, BestOrderIsFirst
<1>6. Book' = (Book \ {ro}) \cup (IF rest = 0 THEN {} ELSE {[ro EXCEPT !.qty_ = rest]})
  <2>. HIDE DEF filled, rest
  <2>1. CASE rest = 0
    <3>1. removeOrder(o)
      BY <1>1, <2>1 DEF Match, rest, filled
    <3>2. Book' = Book \ {ro}
      BY <3>1, RemoveOrder, ViewRemove DEF BookInv
    <3>. QED
      BY <2>1, <3>2
  <2>2. CASE rest # 0
    <3>1. /\ order' = [order EXCEPT ![o].qty_ = rest]
          /\ UNCHANGED <<next_order_, prev_order_, orders_next_free,
                         cid_oid_to_order_, levelVars>>
      BY <1>1, <2>2 DEF Match, rest, filled
    <3>2. /\ LiveOrders' = LiveOrders
          /\ \A q \in LiveOrders : order'[q] = IF q = o THEN [order[q] EXCEPT !.qty_ = rest]
                                               ELSE order[q]
      <4>1. rest \in Nat /\ rest > 0
        BY <1>3, <2>2
      <4>. QED
        BY <3>1, <4>1, ReduceOrder
    <3>3. Book' = (Book \ {ro}) \cup {[ro EXCEPT !.qty_ = rest]}
      BY <1>3, <3>2, ViewReduce DEF BookInv
    <3>. QED
      BY <2>2, <3>3
  <2>. QED
    BY <2>1, <2>2
<1>7. incoming' = [incoming EXCEPT !.left = @ - filled]
  BY <1>1 DEF Match
<1>8. responses' = <<Abstract!Answer("FILLED", [incoming EXCEPT !.price_ = ro.price_], filled,
                                     incoming.left - filled),
                     Abstract!Answer("FILLED", ro, filled, rest)>>
  <2>1. responses' =
          <<MEClientResponse("FILLED", incoming.client_id_, incoming.client_order_id_,
                             incoming.market_order_id_, incoming.side_, p.price_,
                             filled, incoming.left - filled),
            MEClientResponse("FILLED", p.client_id_, p.client_order_id_,
                             p.market_order_id_, p.side_, p.price_, filled, rest)>>
    BY <1>1 DEF Match
  <2>. DEFINE i == [incoming EXCEPT !.price_ = ro.price_]
  <2>2. /\ i.client_id_ = incoming.client_id_ /\ i.client_order_id_ = incoming.client_order_id_
        /\ i.market_order_id_ = incoming.market_order_id_ /\ i.side_ = incoming.side_
        /\ i.price_ = ro.price_
    BY <1>2 DEF Incoming
  <2>3. /\ ro.client_id_ = p.client_id_ /\ ro.client_order_id_ = p.client_order_id_
        /\ ro.market_order_id_ = p.market_order_id_ /\ ro.side_ = p.side_
        /\ ro.price_ = p.price_
    BY DEF RestingOrder
  <2>. HIDE DEF i, ro, p, filled, rest
  <2>4. Abstract!Answer("FILLED", i, filled, incoming.left - filled) =
          MEClientResponse("FILLED", incoming.client_id_, incoming.client_order_id_,
                             incoming.market_order_id_, incoming.side_, p.price_,
                             filled, incoming.left - filled)
    BY <2>2, <2>3 DEF Abstract!Answer, MEClientResponse
  <2>5. Abstract!Answer("FILLED", ro, filled, rest) =
          MEClientResponse("FILLED", p.client_id_, p.client_order_id_,
                             p.market_order_id_, p.side_, p.price_, filled, rest)
    BY <2>3 DEF Abstract!Answer, MEClientResponse
  <2>. QED
    BY <2>1, <2>4, <2>5 DEF i
<1>9. ro.qty_ = p.qty_
  BY DEF RestingOrder
<1>10. next_order_id_' - 1 = next_order_id_ - 1 /\ sent' = sent
  BY <1>2
<1>. HIDE DEF ro, filled, rest, p
<1>11. \E x \in Abstract!Eligible :
         LET qty  == IF x.qty_ <= incoming.left THEN x.qty_ ELSE incoming.left
             left == x.qty_ - qty
         IN
         /\ \A q \in Abstract!Eligible \ {x} : Abstract!Before(x, q)
         /\ Book' = (Book \ {x}) \cup (IF left = 0 THEN {} ELSE {[x EXCEPT !.qty_ = left]})
         /\ incoming' = [incoming EXCEPT !.left = @ - qty]
         /\ responses' = <<Abstract!Answer("FILLED", [incoming EXCEPT !.price_ = x.price_], qty,
                                           incoming.left - qty),
                           Abstract!Answer("FILLED", x, qty, left)>>
  <2>. WITNESS ro \in Abstract!Eligible
  <2>1. filled = IF ro.qty_ <= incoming.left THEN ro.qty_ ELSE incoming.left
    BY <1>3, <1>9
  <2>2. rest = ro.qty_ - filled
    BY <1>9 DEF rest
  <2>. QED
    BY <1>5, <1>6, <1>7, <1>8, <2>1, <2>2
<1>. QED
  BY <1>2, <1>10, <1>11 DEF Abstract!Trade, Book

(* The loop ends with nothing left over.                                   *)
LEMMA FullyFilledRefines ==
  ASSUME EngineInv, FullyFilled
  PROVE  Abstract!Done
<1>1. /\ incoming # NULL /\ incoming.left = 0 /\ incoming' = NULL /\ responses' = << >>
      /\ UNCHANGED <<bookVars, next_order_id_, sent>> /\ BookTypeOK /\ BookInv
  BY DEF FullyFilled, EngineInv, TypeOK, FlowTypeOK
<1>2. Book' = Book
  BY <1>1, BookUnchanged, ViewUnchanged
<1>. QED
  BY <1>1, <1>2 DEF Abstract!Done, Book

(* The incoming order comes to rest, at whichever place in the lists.      *)
LEMMA RestRefines ==
  ASSUME NoAlias, EngineInv, RestAtLevel \/ RestOnEmptySide \/ RestInNewLevel
  PROVE  Abstract!Rest
<1>. USE DEF EngineInv, TypeOK
<1>1. /\ incoming # NULL /\ incoming \in Incoming /\ incoming.left > 0
      /\ ~CanMatch /\ ~NoRoom /\ RestOrder
  BY DEF RestAtLevel, RestOnEmptySide, RestInNewLevel, OpenLevel, Resting, SearchInv, FlowTypeOK
<1>2. Abstract!Eligible = {}
  BY <1>1, NothingEligible
<1>3. Book' = Book \cup {Abstract!Resting(incoming)}
  BY <1>1, ViewRest
<1>4. /\ incoming' = NULL /\ responses' = << >> /\ UNCHANGED <<next_order_id_, sent>>
  BY <1>1 DEF RestOrder
<1>. QED
  BY <1>1, <1>2, <1>3, <1>4 DEF Abstract!Rest, Book

(* The search for a level's place, and the death of the process, are       *)
(* silent.                                                                 *)
LEMMA SearchRefines ==
  ASSUME EngineInv, StartSearch \/ SearchOn \/ Abort
  PROVE  Abstract!Silent
<1>1. /\ incoming # NULL /\ incoming' = incoming /\ responses' = << >>
      /\ UNCHANGED <<bookVars, next_order_id_, sent>> /\ BookTypeOK /\ BookInv
  BY DEF StartSearch, SearchOn, Abort, Resting, EngineInv, TypeOK, FlowTypeOK
<1>2. Book' = Book
  BY <1>1, BookUnchanged, ViewUnchanged
<1>. QED
  BY <1>1, <1>2 DEF Abstract!Silent, Book

(* cancel() takes out exactly the order the client named ...               *)
LEMMA CancelRefines ==
  ASSUME NoAlias, EngineInv, NEW c \in Clients, NEW coid \in 0 .. ME_MAX_ORDER_IDS,
         Cancel(c, coid)
  PROVE  Abstract!Cancel(c, coid)
<1>. USE DEF EngineInv, TypeOK
<1>1. PICK o \in LiveOrders : /\ o = cid_oid_to_order_[<<c, coid>>]
                              /\ order[o].client_id_ = c
                              /\ order[o].client_order_id_ = coid
  BY DEF Cancel, Known, BookInv, ClientIndexInv
<1>. DEFINE p  == order[o]
            ro == RestingOrder(p)
<1>2. removeOrder(o)
  BY <1>1 DEF Cancel
<1>3. Book' = Book \ {ro}
  BY <1>2, RemoveOrder, ViewRemove DEF BookInv
<1>4. /\ ro.client_id_ = c /\ ro.client_order_id_ = coid
      /\ ro.market_order_id_ = p.market_order_id_ /\ ro.side_ = p.side_
      /\ ro.price_ = p.price_ /\ ro.qty_ = p.qty_
  BY <1>1 DEF RestingOrder
<1>5. responses' = <<MEClientResponse("CANCELLED", c, coid, p.market_order_id_,
                                      p.side_, p.price_, NULL, p.qty_)>>
  BY <1>1 DEF Cancel
<1>6. ro \in Book
  BY DEF Book
<1>7. incoming = NULL /\ UNCHANGED flowVars
  BY DEF Cancel, FlowTypeOK
<1>. HIDE DEF p, ro
<1>8. responses' = <<Abstract!Answer("CANCELLED", ro, NULL, ro.qty_)>>
  BY <1>4, <1>5 DEF Abstract!Answer, MEClientResponse
<1>. QED
  BY <1>3, <1>4, <1>6, <1>7, <1>8 DEF Abstract!Cancel, Book, flowVars

(* ... and rejects only what is not in the book.                           *)
LEMMA RejectRefines ==
  ASSUME EngineInv, NEW c \in Clients, NEW coid \in 0 .. ME_MAX_ORDER_IDS,
         CancelRejected(c, coid)
  PROVE  Abstract!Reject(c, coid)
<1>1. /\ incoming = NULL /\ UNCHANGED <<bookVars, flowVars>> /\ BookTypeOK /\ BookInv
      /\ ~Known(c, coid)
  BY DEF CancelRejected, EngineInv, TypeOK, FlowTypeOK
<1>2. Book' = Book
  BY <1>1, BookUnchanged, ViewUnchanged
<1>3. ASSUME NEW q \in LiveOrders
      PROVE  ~(/\ RestingOrder(order[q]).client_id_ = c
               /\ RestingOrder(order[q]).client_order_id_ = coid)
  <2>1. /\ order[q].client_order_id_ \in ClientOids
        /\ cid_oid_to_order_[<<order[q].client_id_, order[q].client_order_id_>>] = q
    BY <1>1 DEF BookInv, ClientIndexInv
  <2>2. q # NULL
    BY <1>1, LiveCells
  <2>3. /\ RestingOrder(order[q]).client_id_ = order[q].client_id_
        /\ RestingOrder(order[q]).client_order_id_ = order[q].client_order_id_
    BY DEF RestingOrder
  <2>. QED
    BY <1>1, <2>1, <2>2, <2>3 DEF Known
<1>4. responses' = <<[type_ |-> "CANCEL_REJECTED", client_id_ |-> c,
                      client_order_id_ |-> coid, market_order_id_ |-> NULL,
                      side_ |-> NULL, price_ |-> NULL, exec_qty_ |-> NULL,
                      leaves_qty_ |-> NULL]>>
  BY DEF CancelRejected, MEClientResponse
<1>. QED
  BY <1>1, <1>2, <1>3, <1>4 DEF Abstract!Reject, Book, flowVars

(* A step that changes nothing.                                            *)
LEMMA StutterRefines ==
  ASSUME EngineInv, UNCHANGED vars
  PROVE  UNCHANGED Abstract!vars
<1>1. UNCHANGED <<bookVars, flowVars, responses>> /\ BookTypeOK /\ BookInv
  BY DEF vars, EngineInv, TypeOK
<1>2. Book' = Book
  BY <1>1, BookUnchanged, ViewUnchanged
<1>. QED
  BY <1>1, <1>2 DEF Abstract!vars, Book, flowVars

----------------------------------------------------------------------------
(* The engine (MEOrderBook::add and cancel, with its pools and its circular *)
(* lists) gives its clients exactly the answers a limit order book with     *)
(* price-time priority gives, at every step of every request.              *)
THEOREM ImplementsPriceTimePriority ==
  ASSUME NoAlias
  PROVE  Spec => PriceTimePriority
<1>1. EngineInv /\ [Next]_vars => [Abstract!Next]_(Abstract!vars)
  <2>. SUFFICES ASSUME EngineInv, [Next]_vars PROVE [Abstract!Next]_(Abstract!vars)
    OBVIOUS
  <2>1. CASE NewRequest
    <3>1. PICK c \in Clients, s \in Side, p \in Prices, q \in Qtys : NewOrder(c, s, p, q)
      BY <2>1 DEF NewRequest
    <3>2. Abstract!Accept(c, s, p, q)
      BY <3>1, NewOrderRefines
    <3>. QED
      BY <3>2 DEF Abstract!Next, Side
  <2>2. CASE CancelRequest
    <3>1. PICK c \in Clients, coid \in 0 .. ME_MAX_ORDER_IDS :
            CancelRejected(c, coid) \/ Cancel(c, coid)
      BY <2>2 DEF CancelRequest
    <3>2. Abstract!Reject(c, coid) \/ Abstract!Cancel(c, coid)
      BY <3>1, CancelRefines, RejectRefines
    <3>. QED
      BY <3>2 DEF Abstract!Next
  <2>3. CASE Match
    BY <2>3, MatchRefines DEF Abstract!Next
  <2>4. CASE FullyFilled
    BY <2>4, FullyFilledRefines DEF Abstract!Next
  <2>5. CASE RestAtLevel \/ RestOnEmptySide \/ RestInNewLevel
    BY <2>5, RestRefines DEF Abstract!Next
  <2>6. CASE StartSearch \/ SearchOn \/ Abort
    BY <2>6, SearchRefines DEF Abstract!Next
  <2>7. CASE Aborted \/ UNCHANGED vars
    BY <2>7, StutterRefines DEF Aborted
  <2>. QED
    BY <2>1, <2>2, <2>3, <2>4, <2>5, <2>6, <2>7 DEF Next, Add
<1>2. Spec => Abstract!Spec
  BY <1>1, InitRefines, EngineInvariant, PTL DEF Spec, Abstract!Spec
<1>. QED
  BY <1>2 DEF PriceTimePriority
============================================================================
