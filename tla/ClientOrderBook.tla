-------------------------- MODULE ClientOrderBook --------------------------
(***************************************************************************)
(* A market participant's picture of the order book of one instrument      *)
(* (src/client/market_order_book.cpp), built by its trade engine's thread  *)
(* from the updates that the market data consumer passes on, and the best  *)
(* bid and offer taken from it.                                            *)
(*                                                                         *)
(* A level is found by the price index only, as in the code; its orders    *)
(* are the sequence of their ids, for the circular list that starts at     *)
(* first_order_.  The lists of levels, which AddOrderAtPrice keeps sorted  *)
(* as the exchange's book does (module MEOrderBook, the same code), are    *)
(* not kept: the head of a side's list is its best level.                  *)
(*                                                                         *)
(* The stream of updates is what the exchange's matching sends for a book  *)
(* `ex' (src/exchange/order_book.cpp, whose lists and pools are those of   *)
(* module MEOrderBook), whole from the moment the participant joins: a     *)
(* CLEAR and the orders of the book, in the order of their ids, and from   *)
(* there on every change.  The same comes again after a gap.               *)
(***************************************************************************)
EXTENDS Integers, Sequences, FiniteSets, SequencesExt

CONSTANTS
  Prices, Qtys,
  ME_MAX_PRICE_LEVELS,  \* size of the level pool and of the price index
  ME_MAX_ORDER_IDS,     \* size of the order pool and of the order index
  MaxRecoveries,        \* bound: the gaps after which the book is sent anew
  NULL                  \* nullptr, and the _INVALID values

Side     == {"BUY", "SELL"}
OrderIds == 0 .. ME_MAX_ORDER_IDS - 1
Indexes  == 0 .. ME_MAX_PRICE_LEVELS - 1

(* What is left of a quantity is a quantity.                               *)
ASSUME ClientBookAssumption ==
  /\ Prices \subseteq Nat /\ Qtys \subseteq Nat \ {0}
  /\ \A q \in Qtys : 1 .. q \subseteq Qtys
  /\ ME_MAX_PRICE_LEVELS \in Nat \ {0} /\ ME_MAX_ORDER_IDS \in Nat \ {0}
  /\ MaxRecoveries \in Nat

(* MarketOrder and MarketOrdersAtPrice, in use.                            *)
MarketOrders ==
  [type_ : {"ADD"}, order_id_ : OrderIds, side_ : Side, price_ : Prices, qty_ : Qtys]
MarketOrdersAtPrice == [side_ : Side, price_ : Prices, orders : Seq(OrderIds)]

(* MEOrder: qty_ is the quantity that the updates sent so far give it, and *)
(* left_ what is left of it in the exchange's book.                        *)
ExOrders ==
  [order_id_ : Nat, side_ : Side, price_ : Prices, qty_ : Qtys, left_ : Qtys]

ASSUME NullMarketOrder == NULL \notin MarketOrders \cup MarketOrdersAtPrice \cup ExOrders

VARIABLES
  ex,          \* the exchange's book: its orders in the order of their ids
  next_id,     \* the next market order id
  aggressor,   \* the new order that is being matched, or NULL
  inbox,       \* the updates the trade engine has not handled yet
  joined,      \* does the participant get updates?
  recoveries,
  book,        \* oid_to_order_ and oid_to_price_level_ with the levels behind it
  bbo_,        \* side -> the best price and its quantity
  pc           \* "running", "aborted", or "corrupt": freed cells are in use

exVars == <<ex, next_id, aggressor, joined, recoveries>>
vars   == <<exVars, inbox, book, bbo_, pc>>

Init ==
  /\ ex = << >>
  /\ next_id = 1
  /\ aggressor = NULL
  /\ inbox = << >>
  /\ joined = FALSE
  /\ recoveries = 0
  /\ book = [oid_to_order_ |-> [i \in OrderIds |-> NULL],
             oid_to_price_level_ |-> [i \in Indexes |-> NULL]]
  /\ bbo_ = [s \in Side |-> NULL]
  /\ pc = "running"

----------------------------------------------------------------------------
(* The exchange.                                                           *)

Update(type, id, side, price, qty) ==
  [type_ |-> type, order_id_ |-> id, side_ |-> side, price_ |-> price, qty_ |-> qty]

For(type, o) == Update(type, o.order_id_, o.side_, o.price_, o.qty_)

Send(messages) == inbox' = IF joined THEN messages ELSE << >>

(* Is price p as good as q for an order of side s that rests?              *)
AsGood(s, p, q) == IF s = "BUY" THEN p >= q ELSE p <= q

(* An order with n of it left, and the updates saying so.                  *)
Left(o, n) == [o EXCEPT !.qty_ = n, !.left_ = n]

(* add: a request becomes an order with an id.                             *)
NewOrder(side, price, qty) ==
  /\ inbox = << >>
  /\ aggressor = NULL
  /\ next_id <= ME_MAX_ORDER_IDS
  /\ aggressor' = [order_id_ |-> next_id, side_ |-> side, price_ |-> price,
                   qty_ |-> qty, left_ |-> qty]
  /\ next_id' = next_id + 1
  /\ UNCHANGED <<ex, joined, recoveries, inbox, book, bbo_, pc>>

(* The order at position i of the book and the new one cross.              *)
Crosses(i) ==
  /\ ex[i].side_ # aggressor.side_
  /\ AsGood(aggressor.side_, aggressor.price_, ex[i].price_)

(* It is the first order of the best level of its side.                    *)
AtFront(i) ==
  \A j \in 1 .. Len(ex) : ex[j].side_ = ex[i].side_ =>
    /\ AsGood(ex[i].side_, ex[i].price_, ex[j].price_)
    /\ j < i => ex[j].price_ # ex[i].price_

(* match: the new order trades with the first one of the other side.  The  *)
(* updates tell of the trade, and of the order that rested.                *)
Match(i) ==
  LET o == ex[i]
      filled == IF o.left_ < aggressor.left_ THEN o.left_ ELSE aggressor.left_
      rest == o.left_ - filled
      t == Update("TRADE", NULL, aggressor.side_, o.price_, filled)
  IN
  /\ inbox = << >>
  /\ aggressor # NULL
  /\ Crosses(i)
  /\ AtFront(i)
  /\ aggressor' = IF filled = aggressor.left_ THEN NULL
                  ELSE [aggressor EXCEPT !.left_ = @ - filled]
  /\ IF rest = 0
     THEN ex' = RemoveAt(ex, i) /\ Send(<<t, For("CANCEL", Left(o, rest))>>)
     ELSE ex' = [ex EXCEPT ![i] = Left(o, rest)] /\ Send(<<t, For("MODIFY", Left(o, rest))>>)
  /\ UNCHANGED <<next_id, joined, recoveries, book, bbo_, pc>>

(* add, after checkForMatch: what is left of the new order rests, and the  *)
(* ADD says the quantity that was asked for.                               *)
Rest ==
  /\ inbox = << >>
  /\ aggressor # NULL
  /\ \A i \in 1 .. Len(ex) : ~Crosses(i)
  /\ ex' = Append(ex, aggressor)
  /\ aggressor' = NULL
  /\ Send(<<For("ADD", aggressor)>>)
  /\ UNCHANGED <<next_id, joined, recoveries, book, bbo_, pc>>

(* cancel: the update says what was left of the order.                     *)
CancelOrder(i) ==
  /\ inbox = << >>
  /\ aggressor = NULL
  /\ ex' = RemoveAt(ex, i)
  /\ Send(<<For("CANCEL", Left(ex[i], ex[i].left_))>>)
  /\ UNCHANGED <<next_id, aggressor, joined, recoveries, book, bbo_, pc>>

(* The participant joins, or the consumer has recovered from a gap: what   *)
(* checkSnapshotSync passes on.                                            *)
Snapshot ==
  <<Update("CLEAR", NULL, NULL, NULL, NULL)>> \o [i \in 1 .. Len(ex) |-> For("ADD", ex[i])]

Join ==
  /\ ~joined
  /\ joined' = TRUE
  /\ inbox' = Snapshot
  /\ UNCHANGED <<ex, next_id, aggressor, recoveries, book, bbo_, pc>>

Recover ==
  /\ joined
  /\ inbox = << >>
  /\ recoveries < MaxRecoveries
  /\ recoveries' = recoveries + 1
  /\ inbox' = Snapshot
  /\ UNCHANGED <<ex, next_id, aggressor, joined, book, bbo_, pc>>

----------------------------------------------------------------------------
(* The participant's book.                                                 *)

priceToIndex(p) == p % ME_MAX_PRICE_LEVELS

LevelsOf(b, s) ==
  {i \in Indexes : b.oid_to_price_level_[i] # NULL /\ b.oid_to_price_level_[i].side_ = s}

(* bids_by_price_ and asks_by_price_: the best level of side s.            *)
best(b, s) ==
  LET L == LevelsOf(b, s)
      price(i) == b.oid_to_price_level_[i].price_
  IN IF L = {} THEN NULL
     ELSE b.oid_to_price_level_[CHOOSE i \in L : \A j \in L : AsGood(s, price(i), price(j))]

(* Mutant: an update at the best price itself does not count.              *)
Touches_Better(b, m, s) ==
  /\ m.side_ = s
  /\ best(b, s) # NULL
  /\ IF s = "BUY" THEN m.price_ > best(b, s).price_ ELSE m.price_ < best(b, s).price_

(* bid_updated and ask_updated: does the update touch the best level?  The *)
(* question is asked before the update is applied.                         *)
Touches(b, m, s) ==
  /\ m.side_ = s
  /\ best(b, s) # NULL
  /\ AsGood(s, m.price_, best(b, s).price_)

(* Mutant: an order goes to the front of its level.                        *)
AddOrder_AtFront(b, m) ==
  LET i == priceToIndex(m.price_)
      l == b.oid_to_price_level_[i]
  IN [oid_to_order_ |-> [b.oid_to_order_ EXCEPT ![m.order_id_] = m],
      oid_to_price_level_ |-> [b.oid_to_price_level_ EXCEPT ![i] =
        IF l = NULL THEN [side_ |-> m.side_, price_ |-> m.price_, orders |-> <<m.order_id_>>]
        ELSE [l EXCEPT !.orders = <<m.order_id_>> \o @]]]

(* AddOrder: to the end of the level that the price index names, or to a   *)
(* new one.                                                                *)
AddOrder(b, m) ==
  LET i == priceToIndex(m.price_)
      l == b.oid_to_price_level_[i]
  IN [oid_to_order_ |-> [b.oid_to_order_ EXCEPT ![m.order_id_] = m],
      oid_to_price_level_ |-> [b.oid_to_price_level_ EXCEPT ![i] =
        IF l = NULL THEN [side_ |-> m.side_, price_ |-> m.price_, orders |-> <<m.order_id_>>]
        ELSE [l EXCEPT !.orders = Append(@, m.order_id_)]]]

(* An allocation leaves no free cell, or the id is beyond the index.       *)
NoRoom(b, m) ==
  \/ m.order_id_ \notin OrderIds
  \/ Cardinality({i \in OrderIds : b.oid_to_order_[i] # NULL}) >= ME_MAX_ORDER_IDS - 1
  \/ /\ b.oid_to_price_level_[priceToIndex(m.price_)] = NULL
     /\ Cardinality(UNION {LevelsOf(b, s) : s \in Side}) >= ME_MAX_PRICE_LEVELS - 1

(* removeOrder and, with a level's last order, removeOrderAtPrice.         *)
removeOrder(b, id) ==
  LET i == priceToIndex(b.oid_to_order_[id].price_)
      l == b.oid_to_price_level_[i]
  IN [oid_to_order_ |-> [b.oid_to_order_ EXCEPT ![id] = NULL],
      oid_to_price_level_ |-> [b.oid_to_price_level_ EXCEPT ![i] =
        IF Len(l.orders) = 1 THEN NULL ELSE [l EXCEPT !.orders = RemoveFirst(@, id)]]]

(* The loop over the orders of a level adds up their quantities.           *)
Plus(sum, qty) == sum + qty
Total(qtys) == FoldLeft(Plus, 0, qtys)
LevelQty(b, l) == Total([k \in 1 .. Len(l.orders) |-> b.oid_to_order_[l.orders[k]].qty_])

(* updateBBO: the side that was touched is taken from the book again.      *)
updateBBO(b, m, after) ==
  bbo_' = [s \in Side |->
    IF ~Touches(b, m, s) THEN bbo_[s]
    ELSE IF best(after, s) = NULL THEN NULL
    ELSE [price_ |-> best(after, s).price_, qty_ |-> LevelQty(after, best(after, s))]]

(* What onMarketUpdate does to the book with an update of an order: one of *)
(* an order that is not known is ignored.                                  *)
Applied(b, m) ==
  CASE m.type_ = "ADD" -> AddOrder(b, m)
    [] m.type_ = "MODIFY" /\ b.oid_to_order_[m.order_id_] # NULL ->
         [b EXCEPT !.oid_to_order_[m.order_id_].qty_ = m.qty_]
    [] m.type_ = "CANCEL" /\ b.oid_to_order_[m.order_id_] # NULL -> removeOrder(b, m.order_id_)
    [] OTHER -> b

onMarketUpdate ==
  /\ pc = "running"
  /\ inbox # << >>
  /\ LET m == Head(inbox) IN
     /\ m.type_ # "CLEAR"
     /\ IF m.type_ = "ADD" /\ NoRoom(book, m)
        THEN pc' = "aborted" /\ UNCHANGED <<book, bbo_>>
        ELSE /\ book' = Applied(book, m)
             /\ IF m.type_ = "TRADE" THEN UNCHANGED bbo_ ELSE updateBBO(book, m, book')
             /\ UNCHANGED pc
  /\ inbox' = Tail(inbox)
  /\ UNCHANGED exVars

(* CLEAR frees the orders and then the levels of each side, from the one   *)
(* after the head on; but the loop stays at that one, and the second time  *)
(* around the pool's assertion fails.  A single level is freed, but the    *)
(* head and the price index still point to it.  What is done with the      *)
(* freed cells after that is not modelled.                                 *)
Clear ==
  /\ pc = "running"
  /\ inbox # << >>
  /\ Head(inbox).type_ = "CLEAR"
  /\ book' = [book EXCEPT !.oid_to_order_ = [i \in OrderIds |-> NULL]]
  /\ pc' = IF \E s \in Side : Cardinality(LevelsOf(book, s)) > 1 THEN "aborted"
           ELSE IF \E s \in Side : LevelsOf(book, s) # {} THEN "corrupt"
           ELSE "running"
  /\ inbox' = Tail(inbox)
  /\ UNCHANGED <<exVars, bbo_>>

Exchange ==
  \/ \E s \in Side, p \in Prices, q \in Qtys : NewOrder(s, p, q)
  \/ \E i \in 1 .. Len(ex) : CancelOrder(i) \/ Match(i)
  \/ Rest
  \/ Join
  \/ Recover

Next == Exchange \/ onMarketUpdate \/ Clear

Spec == Init /\ [][Next]_vars

----------------------------------------------------------------------------
(* Properties.                                                             *)

(* Positions in the exchange's book of the orders of side s at price p.    *)
RestingAt(s, p) == {i \in 1 .. Len(ex) : ex[i].side_ = s /\ ex[i].price_ = p}

(* The ids are those of the orders at the positions, in the same order.    *)
SameQueue(ids, positions) ==
  /\ ToSet(ids) = {ex[i].order_id_ : i \in positions}
  /\ \A i, j \in positions : \A k, l \in 1 .. Len(ids) :
       ids[k] = ex[i].order_id_ /\ ids[l] = ex[j].order_id_ => (i < j <=> k < l)

(* Once the updates sent are handled, the participant's levels are those   *)
(* of the exchange, each with the same orders in the same priority; its    *)
(* orders have the quantities announced, which may be more than what is    *)
(* left of them and are never less (onMarketUpdate, and MEOrderBook::add   *)
(* with its ADD); unless a CLEAR has found levels to free, see             *)
(* LevelsHoldOrders.                                                       *)
BookIsExchange ==
  joined /\ inbox = << >> /\ pc = "running" =>
    /\ \A s \in Side, p \in Prices :
         LET levels == {i \in LevelsOf(book, s) : book.oid_to_price_level_[i].price_ = p} IN
         /\ RestingAt(s, p) # {} <=> levels # {}
         /\ \A i \in levels : SameQueue(book.oid_to_price_level_[i].orders, RestingAt(s, p))
         /\ \A i, j \in levels : i = j
    /\ {book.oid_to_order_[i] : i \in OrderIds} \ {NULL} = {For("ADD", ex[i]) : i \in 1 .. Len(ex)}
    /\ \A i \in 1 .. Len(ex) : ex[i].left_ <= book.oid_to_order_[ex[i].order_id_].qty_

(* The best bid and the best offer that the algorithms see are those of    *)
(* the participant's book, or are not known (updateBBO).                   *)
BBOExactOrUnknown ==
  pc = "running" => \A s \in Side : bbo_[s] # NULL =>
    /\ best(book, s) # NULL
    /\ bbo_[s] = [price_ |-> best(book, s).price_, qty_ |-> LevelQty(book, best(book, s))]

(* The orders of a level are orders of the book: onMarketUpdate leaves no  *)
(* level that points to a freed one, whatever the update.                  *)
LevelsHoldOrders ==
  \A s \in Side : \A i \in LevelsOf(book, s) :
    \A id \in ToSet(book.oid_to_price_level_[i].orders) : book.oid_to_order_[id] # NULL

----------------------------------------------------------------------------
(* The inductive invariant.                                                *)

(* Prices share an entry of the price index only if they are equal.        *)
NoAlias == \A p, q \in Prices : priceToIndex(p) = priceToIndex(q) => p = q

ExchangeOK ==
  /\ next_id \in Nat \ {0}
  /\ ex \in Seq(ExOrders)
  /\ \A i \in 1 .. Len(ex) : ex[i].order_id_ < next_id
  /\ \A i, j \in 1 .. Len(ex) : i < j => ex[i].order_id_ < ex[j].order_id_
  /\ \A i, j \in 1 .. Len(ex) : ex[i].price_ = ex[j].price_ => ex[i].side_ = ex[j].side_
  /\ \A i \in 1 .. Len(ex) : ex[i].left_ <= ex[i].qty_

(* The new order has the highest id.                                       *)
AggressorOK ==
  aggressor # NULL =>
    /\ aggressor \in ExOrders
    /\ aggressor.left_ <= aggressor.qty_
    /\ aggressor.order_id_ \in 1 .. next_id - 1
    /\ \A i \in 1 .. Len(ex) : ex[i].order_id_ < aggressor.order_id_

(* An order is in the level that the index gives for its price.            *)
OrderOK(b, id) ==
  LET o == b.oid_to_order_[id]
      l == b.oid_to_price_level_[priceToIndex(o.price_)]
  IN o.order_id_ = id /\ l # NULL /\ \E k \in 1 .. Len(l.orders) : l.orders[k] = id

(* A level has orders, in the order of their ids, all of its side and      *)
(* price.                                                                  *)
LevelOK(b, i) ==
  LET l == b.oid_to_price_level_[i] IN
  /\ priceToIndex(l.price_) = i
  /\ Len(l.orders) > 0
  /\ \A j, k \in 1 .. Len(l.orders) : j < k => l.orders[j] < l.orders[k]
  /\ \A k \in 1 .. Len(l.orders) :
       LET o == b.oid_to_order_[l.orders[k]] IN
       o # NULL /\ o.side_ = l.side_ /\ o.price_ = l.price_

BookOK(b) ==
  /\ b \in [oid_to_order_ : [OrderIds -> MarketOrders \cup {NULL}],
             oid_to_price_level_ : [Indexes -> MarketOrdersAtPrice \cup {NULL}]]
  /\ \A id \in OrderIds : b.oid_to_order_[id] # NULL => OrderOK(b, id)
  /\ \A i \in Indexes : b.oid_to_price_level_[i] # NULL => LevelOK(b, i)

(* The book has the orders of the sequence and no others.                  *)
Holds(b, orders) ==
  /\ BookOK(b)
  /\ \A i \in 1 .. Len(orders) :
       /\ orders[i].order_id_ \in OrderIds
       /\ b.oid_to_order_[orders[i].order_id_] = For("ADD", orders[i])
  /\ \A id \in OrderIds : b.oid_to_order_[id] # NULL =>
       \E i \in 1 .. Len(orders) : orders[i].order_id_ = id

(* The update changes or removes an order of the book.                     *)
Changes(b, m) ==
  LET o == b.oid_to_order_[m.order_id_] IN
  /\ m.order_id_ \in OrderIds
  /\ o # NULL /\ m.side_ = o.side_ /\ m.price_ = o.price_
  /\ m.type_ \in {"MODIFY", "CANCEL"} /\ (m.type_ = "MODIFY" => m.qty_ \in Qtys)

(* The trade is no more than what the next update takes from its order,    *)
(* which is at the best price.                                             *)
TradesOn(b, t, m) ==
  LET o == b.oid_to_order_[m.order_id_] IN
  /\ t.type_ = "TRADE" /\ m.qty_ \in Nat /\ t.qty_ \in 1 .. o.qty_ - m.qty_
  /\ t.side_ \in Side \ {o.side_}
  /\ \A i \in LevelsOf(b, o.side_) : AsGood(o.side_, o.price_, b.oid_to_price_level_[i].price_)

(* What is under way takes the participant's book to the exchange's: a     *)
(* snapshot, what is left of it or an order that is new, a change, or a    *)
(* trade with its change.                                                  *)
OnTheWay ==
  IF ~joined THEN inbox = << >> /\ Holds(book, << >>)
  ELSE \/ inbox = Snapshot
       \/ \E n \in 0 .. Len(ex) :
            /\ inbox = [i \in 1 .. Len(ex) - n |-> For("ADD", ex[n + i])]
            /\ Holds(book, SubSeq(ex, 1, n))
       \/ /\ Len(inbox) \in 1 .. 2
          /\ LET m == inbox[Len(inbox)] IN
             /\ inbox = <<m>> \/ (inbox = <<inbox[1], m>> /\ TradesOn(book, inbox[1], m))
             /\ Changes(book, m)
             /\ Holds(Applied(book, m), ex)

(* As long as no CLEAR has freed a level the book is sound, and will be    *)
(* the exchange's (onMarketUpdate).                                        *)
ClientBookInv ==
  /\ ExchangeOK
  /\ AggressorOK
  /\ pc = "running" => BookOK(book) /\ OnTheWay /\ BBOExactOrUnknown
============================================================================
