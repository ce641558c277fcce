---------------------------- MODULE MEOrderBook ----------------------------
(***************************************************************************)
(* The limit order book of one instrument, as the matching-engine thread   *)
(* runs it (src/exchange/order_book.cpp, matching_engine.cpp).             *)
(*                                                                         *)
(* The book is the code's pointer structure: resting orders live in the    *)
(* cells of one memory pool and form, per price level, a circular doubly   *)
(* linked list in arrival order; the levels live in the cells of a second  *)
(* pool and form, per side, a circular doubly linked list sorted from the  *)
(* best price to the worst.  bids_by_price_ and asks_by_price_ point at    *)
(* the best level; an array indexed by price % ME_MAX_PRICE_LEVELS finds a *)
(* level and a per-client array finds an order.  A pointer is a cell       *)
(* number, or NULL.                                                        *)
(*                                                                         *)
(* One request is several steps: each iteration of the matching loop and   *)
(* of the search for a level's place in its list is a step, and what the   *)
(* step wrote to the two outgoing queues is in `responses' and `updates',  *)
(* where the other threads of the exchange see it while the request is     *)
(* still being worked on.                                                  *)
(***************************************************************************)
EXTENDS Integers, Sequences, FiniteSets

CONSTANTS
  Clients,              \* the clients whose requests reach the engine
  Prices, Qtys,         \* the prices and quantities of their orders
  ME_MAX_PRICE_LEVELS,  \* size of the level pool and of the price index
  ME_MAX_ORDER_IDS,     \* size of the order pool and of a client's order index
  MaxOrders,            \* bound: the number of NEW requests ever sent
  NULL                  \* nullptr, and the _INVALID values

OrderCells == 0 .. ME_MAX_ORDER_IDS - 1
LevelCells == 0 .. ME_MAX_PRICE_LEVELS - 1
Side       == {"BUY", "SELL"}
ClientOids == 0 .. ME_MAX_ORDER_IDS - 1

ASSUME PriceAssumption   == Prices \subseteq Nat
ASSUME QtyAssumption     == Qtys \subseteq Nat \ {0}
ASSUME LevelsAssumption  == ME_MAX_PRICE_LEVELS \in Nat \ {0}
ASSUME OrdersAssumption  == ME_MAX_ORDER_IDS \in Nat \ {0}
ASSUME BoundAssumption   == MaxOrders \in Nat
ASSUME NullAssumption    == NULL \notin Nat \cup Side \cup Clients

(* The data of a resting order and of a price level; their list pointers   *)
(* are separate variables.                                                 *)
MEOrder == [client_id_ : Clients, client_order_id_ : Nat, market_order_id_ : Nat,
            side_ : Side, price_ : Prices, qty_ : Nat, priority_ : Nat]
MEOrdersAtPrice == [side_ : Side, price_ : Prices]

(* An order whose request is being processed: the arguments of add(), the  *)
(* market order id it was given, and left_over.                            *)
Incoming == [client_id_ : Clients, client_order_id_ : Nat, market_order_id_ : Nat,
             side_ : Side, price_ : Prices, qty_ : Nat, left : Nat]

ASSUME NullRecords == NULL \notin MEOrder \cup MEOrdersAtPrice \cup Incoming

VARIABLES
  order,                      \* the order pool: cell -> order, NULL when the cell is free
  next_order_, prev_order_,   \* the list pointers of the cells of the order pool
  orders_next_free,           \* orders_pool_.next_free_index
  level,                      \* the level pool: cell -> level, NULL when the cell is free
  orders_head_,               \* level cell -> its oldest order
  next_, prev_,               \* the list pointers of the cells of the level pool
  levels_next_free,           \* orders_at_price_pool_.next_free_index
  best,                       \* best["BUY"] is bids_by_price_, best["SELL"] asks_by_price_
  price_to_orders_at_price_,  \* price index -> level cell
  cid_oid_to_order_,          \* <<client, client order id>> -> order cell
  next_order_id_,
  sent,                       \* how many orders each client has sent: its next order id
  pc,                         \* where the engine thread is
  incoming,                   \* the order being added, NULL between requests
  curr,                       \* curr of AddOrderAtPrice
  responses, updates          \* what the last step wrote to the outgoing queues

orderVars == <<order, next_order_, prev_order_, orders_next_free, cid_oid_to_order_>>
levelVars == <<level, orders_head_, next_, prev_, levels_next_free, best,
               price_to_orders_at_price_>>
bookVars  == <<orderVars, levelVars>>
flowVars  == <<next_order_id_, sent, pc, incoming, curr>>
vars      == <<bookVars, flowVars, responses, updates>>

----------------------------------------------------------------------------
(* Memory pools (utils/mem_pool.hpp).  allocate() hands out next_free_index *)
(* and then looks for the first free cell; when there is none the program   *)
(* aborts, so the last free cell is never usable.  deallocate() leaves      *)
(* next_free_index alone.  The contents of a free cell are not kept.        *)

FreeOrders == {c \in OrderCells : order[c] = NULL}
FreeLevels == {c \in LevelCells : level[c] = NULL}

FirstFree(free) == CHOOSE c \in free : \A d \in free : c <= d

(* allocate() runs into assert(false): no cell is left after this one.     *)
Exhausted(free, next_free) == free \subseteq {next_free}

----------------------------------------------------------------------------
Opposite(s) == IF s = "BUY" THEN "SELL" ELSE "BUY"

(* Mutant: the larger of the two quantities trades.                        *)
MinOf_Swapped(a, b) == IF a >= b THEN a ELSE b

MinOf(a, b) == IF a <= b THEN a ELSE b

(* Price p is worse than price q for a resting order of side s: it comes   *)
(* later in the list of levels (move_cond in AddOrderAtPrice).             *)
Worse(s, p, q) == IF s = "BUY" THEN p < q ELSE p > q

(* Mutant: an order at exactly the limit price does not trade.             *)
Reaches_Strictly(s, p, q) == IF s = "BUY" THEN p > q ELSE p < q

(* The limit p of an incoming order of side s reaches the resting price q. *)
Reaches(s, p, q) == IF s = "BUY" THEN p >= q ELSE p <= q

priceToIndex(p) == p % ME_MAX_PRICE_LEVELS

getOrderAtPrice(p) == price_to_orders_at_price_[priceToIndex(p)]

(* Mutant: the newest order of the best level trades first.                *)
bestOrder_Newest(s) == prev_order_[orders_head_[best[s]]]

(* The oldest order of the best level of side s.                           *)
bestOrder(s) == orders_head_[best[s]]

(* Mutant: the priority after the level's first order, not its last.       *)
getPriority_AfterHead(p) ==
  IF getOrderAtPrice(p) = NULL THEN 1
  ELSE order[orders_head_[getOrderAtPrice(p)]].priority_ + 1

getPriority(p) ==
  IF getOrderAtPrice(p) = NULL THEN 1
  ELSE order[prev_order_[orders_head_[getOrderAtPrice(p)]]].priority_ + 1

MEClientResponse(type, cid, coid, moid, side, price, exec, leaves) ==
  [type_ |-> type, client_id_ |-> cid, client_order_id_ |-> coid,
   market_order_id_ |-> moid, side_ |-> side, price_ |-> price,
   exec_qty_ |-> exec, leaves_qty_ |-> leaves]

MEMarketUpdate(type, moid, side, price, qty, priority) ==
  [type_ |-> type, order_id_ |-> moid, side_ |-> side, price_ |-> price,
   qty_ |-> qty, priority_ |-> priority]

----------------------------------------------------------------------------
Init ==
  /\ order = [c \in OrderCells |-> NULL]
  /\ next_order_ = [c \in OrderCells |-> NULL]
  /\ prev_order_ = [c \in OrderCells |-> NULL]
  /\ orders_next_free = 0
  /\ level = [c \in LevelCells |-> NULL]
  /\ orders_head_ = [c \in LevelCells |-> NULL]
  /\ next_ = [c \in LevelCells |-> NULL]
  /\ prev_ = [c \in LevelCells |-> NULL]
  /\ levels_next_free = 0
  /\ best = [s \in Side |-> NULL]
  /\ price_to_orders_at_price_ = [i \in LevelCells |-> NULL]
  /\ cid_oid_to_order_ = [k \in Clients \X ClientOids |-> NULL]
  /\ next_order_id_ = 1
  /\ sent = [c \in Clients |-> 0]
  /\ pc = "idle"
  /\ incoming = NULL
  /\ curr = NULL
  /\ responses = << >>
  /\ updates = << >>

----------------------------------------------------------------------------
(* removeOrderAtPrice: unlink level l, whose last order goes.              *)
removeOrderAtPrice(l) ==
  LET s == level[l].side_ IN
  /\ IF next_[l] = l
     THEN /\ best' = [best EXCEPT ![s] = NULL]
          /\ next_' = [next_ EXCEPT ![l] = NULL]
          /\ prev_' = [prev_ EXCEPT ![l] = NULL]
     ELSE /\ best' = IF best[s] = l THEN [best EXCEPT ![s] = next_[l]] ELSE best
          /\ next_' = [next_ EXCEPT ![prev_[l]] = next_[l], ![l] = NULL]
          /\ prev_' = [prev_ EXCEPT ![next_[l]] = prev_[l], ![l] = NULL]
  /\ price_to_orders_at_price_' =
       [price_to_orders_at_price_ EXCEPT ![priceToIndex(level[l].price_)] = NULL]
  /\ level' = [level EXCEPT ![l] = NULL]
  /\ orders_head_' = [orders_head_ EXCEPT ![l] = NULL]
  /\ UNCHANGED levels_next_free

(* Mutant: the client's index keeps the removed order.                     *)
removeOrder_KeepIndex(o) ==
  LET l == getOrderAtPrice(order[o].price_)
  IN
  /\ IF next_order_[o] = o /\ prev_order_[o] = o
     THEN /\ removeOrderAtPrice(l)
          /\ next_order_' = [next_order_ EXCEPT ![o] = NULL]
          /\ prev_order_' = [prev_order_ EXCEPT ![o] = NULL]
     ELSE /\ next_order_' = [next_order_ EXCEPT ![prev_order_[o]] = next_order_[o],
                                                ![o] = NULL]
          /\ prev_order_' = [prev_order_ EXCEPT ![next_order_[o]] = prev_order_[o],
                                                ![o] = NULL]
          /\ orders_head_' = IF orders_head_[l] = o
                             THEN [orders_head_ EXCEPT ![l] = next_order_[o]]
                             ELSE orders_head_
          /\ UNCHANGED <<level, next_, prev_, levels_next_free, best,
                         price_to_orders_at_price_>>
  /\ UNCHANGED cid_oid_to_order_
  /\ order' = [order EXCEPT ![o] = NULL]
  /\ UNCHANGED orders_next_free

(* removeOrder: unlink order o from its level, and the level with it when  *)
(* o is its only order; forget o in the client's index; free its cell.     *)
removeOrder(o) ==
  LET l == getOrderAtPrice(order[o].price_)
      k == <<order[o].client_id_, order[o].client_order_id_>>
  IN
  /\ IF next_order_[o] = o /\ prev_order_[o] = o
     THEN /\ removeOrderAtPrice(l)
          /\ next_order_' = [next_order_ EXCEPT ![o] = NULL]
          /\ prev_order_' = [prev_order_ EXCEPT ![o] = NULL]
     ELSE /\ next_order_' = [next_order_ EXCEPT ![prev_order_[o]] = next_order_[o],
                                                ![o] = NULL]
          /\ prev_order_' = [prev_order_ EXCEPT ![next_order_[o]] = prev_order_[o],
                                                ![o] = NULL]
          /\ orders_head_' = IF orders_head_[l] = o
                             THEN [orders_head_ EXCEPT ![l] = next_order_[o]]
                             ELSE orders_head_
          /\ UNCHANGED <<level, next_, prev_, levels_next_free, best,
                         price_to_orders_at_price_>>
  /\ cid_oid_to_order_' = [cid_oid_to_order_ EXCEPT ![k] = NULL]
  /\ order' = [order EXCEPT ![o] = NULL]
  /\ UNCHANGED orders_next_free

----------------------------------------------------------------------------
(* processClientRequest of a NEW request, up to the first test of the      *)
(* matching loop: add() numbers the order and accepts it.  A client sends  *)
(* its own order ids in increasing order, as the repository's clients do.  *)
NewOrder(c, side, price, qty) ==
  /\ pc = "idle"
  /\ next_order_id_ <= MaxOrders
  /\ incoming' = [client_id_ |-> c, client_order_id_ |-> sent[c],
                  market_order_id_ |-> next_order_id_, side_ |-> side,
                  price_ |-> price, qty_ |-> qty, left |-> qty]
  /\ next_order_id_' = next_order_id_ + 1
  /\ sent' = [sent EXCEPT ![c] = @ + 1]
  /\ pc' = "matching"
  /\ responses' = <<MEClientResponse("ACCEPTED", c, sent[c], next_order_id_,
                                     side, price, 0, qty)>>
  /\ updates' = << >>
  /\ UNCHANGED <<bookVars, curr>>

(* The condition of checkForMatch's loop: the incoming order still wants   *)
(* shares and the best opposite price is not beyond its limit.             *)
CanMatch ==
  LET s == incoming.side_ IN
  /\ incoming.left > 0
  /\ best[Opposite(s)] # NULL
  /\ Reaches(s, incoming.price_, order[bestOrder(Opposite(s))].price_)

(* One iteration of the loop, match(): the oldest order of the best level  *)
(* trades with the incoming one at its own price; both clients hear of the *)
(* fill; the passive order shrinks, or leaves the book when it is used up. *)
Match ==
  LET o      == bestOrder(Opposite(incoming.side_))
      p      == order[o]
      filled == MinOf(p.qty_, incoming.left)
      rest   == p.qty_ - filled
  IN
  /\ pc = "matching"
  /\ CanMatch
  /\ incoming' = [incoming EXCEPT !.left = @ - filled]
  /\ responses' =
       <<MEClientResponse("FILLED", incoming.client_id_, incoming.client_order_id_,
                          incoming.market_order_id_, incoming.side_, p.price_,
                          filled, incoming.left - filled),
         MEClientResponse("FILLED", p.client_id_, p.client_order_id_,
                          p.market_order_id_, p.side_, p.price_, filled, rest)>>
  /\ updates' =
       <<MEMarketUpdate("TRADE", NULL, incoming.side_, p.price_, filled, NULL),
         MEMarketUpdate(IF rest = 0 THEN "CANCEL" ELSE "MODIFY", p.market_order_id_,
                        p.side_, p.price_, rest, p.priority_)>>
  /\ IF rest = 0
     THEN removeOrder(o)
     ELSE /\ order' = [order EXCEPT ![o].qty_ = rest]
          /\ UNCHANGED <<next_order_, prev_order_, orders_next_free,
                         cid_oid_to_order_, levelVars>>
  /\ UNCHANGED <<next_order_id_, sent, pc, curr>>

(* The loop ends with nothing left over: add() returns.                    *)
FullyFilled ==
  /\ pc = "matching"
  /\ incoming.left = 0
  /\ pc' = "idle"
  /\ incoming' = NULL
  /\ responses' = << >>
  /\ updates' = << >>
  /\ UNCHANGED <<bookVars, next_order_id_, sent, curr>>

----------------------------------------------------------------------------
(* The loop ends with shares left over: the order is going to rest.        *)
Resting ==
  /\ pc = "matching"
  /\ incoming.left > 0
  /\ ~CanMatch

NoRoom ==
  \/ Exhausted(FreeOrders, orders_next_free)
  \/ /\ getOrderAtPrice(incoming.price_) = NULL
     /\ Exhausted(FreeLevels, levels_next_free)
  \/ incoming.client_order_id_ \notin ClientOids

(* A pool runs out (assert in updateNextFree), or the order id lies beyond *)
(* the client's index (.at() throws in a noexcept function): the process   *)
(* dies.                                                                   *)
Abort ==
  /\ Resting
  /\ NoRoom
  /\ pc' = "aborted"
  /\ responses' = << >>
  /\ updates' = << >>
  /\ UNCHANGED <<bookVars, next_order_id_, sent, incoming, curr>>

(* What every way of resting ends with: the order's cell, its place in the *)
(* client's index and the ADD update.  The update carries the quantity the *)
(* request asked for, also when part of it has just traded.                *)
RestOrder ==
  LET o        == orders_next_free
      priority == getPriority(incoming.price_)
  IN
  /\ order' = [order EXCEPT ![o] =
       [client_id_ |-> incoming.client_id_,
        client_order_id_ |-> incoming.client_order_id_,
        market_order_id_ |-> incoming.market_order_id_,
        side_ |-> incoming.side_, price_ |-> incoming.price_,
        qty_ |-> incoming.left, priority_ |-> priority]]
  /\ orders_next_free' = FirstFree(FreeOrders \ {o})
  /\ cid_oid_to_order_' = [cid_oid_to_order_ EXCEPT
       ![<<incoming.client_id_, incoming.client_order_id_>>] = o]
  /\ updates' = <<MEMarketUpdate("ADD", incoming.market_order_id_, incoming.side_,
                                 incoming.price_, incoming.qty_, priority)>>
  /\ responses' = << >>
  /\ pc' = "idle"
  /\ incoming' = NULL
  /\ curr' = NULL
  /\ UNCHANGED <<next_order_id_, sent>>

(* AddOrderToPriceLevel, the level exists: append the order to its list.   *)
RestAtLevel ==
  LET o == orders_next_free
      h == orders_head_[getOrderAtPrice(incoming.price_)]
  IN
  /\ Resting
  /\ ~NoRoom
  /\ getOrderAtPrice(incoming.price_) # NULL
  /\ next_order_' = [next_order_ EXCEPT ![prev_order_[h]] = o, ![o] = h]
  /\ prev_order_' = [prev_order_ EXCEPT ![o] = prev_order_[h], ![h] = o]
  /\ RestOrder
  /\ UNCHANGED levelVars

(* AddOrderToPriceLevel, no level for the price: the order opens one.      *)
OpenLevel ==
  LET o == orders_next_free
      l == levels_next_free
  IN
  /\ next_order_' = [next_order_ EXCEPT ![o] = o]
  /\ prev_order_' = [prev_order_ EXCEPT ![o] = o]
  /\ level' = [level EXCEPT ![l] = [side_ |-> incoming.side_, price_ |-> incoming.price_]]
  /\ orders_head_' = [orders_head_ EXCEPT ![l] = o]
  /\ levels_next_free' = FirstFree(FreeLevels \ {l})
  /\ price_to_orders_at_price_' =
       [price_to_orders_at_price_ EXCEPT ![priceToIndex(incoming.price_)] = l]
  /\ RestOrder

(* AddOrderAtPrice, first level of its side.                               *)
RestOnEmptySide ==
  LET l == levels_next_free IN
  /\ Resting
  /\ ~NoRoom
  /\ getOrderAtPrice(incoming.price_) = NULL
  /\ best[incoming.side_] = NULL
  /\ OpenLevel
  /\ best' = [best EXCEPT ![incoming.side_] = l]
  /\ next_' = [next_ EXCEPT ![l] = l]
  /\ prev_' = [prev_ EXCEPT ![l] = l]

(* AddOrderAtPrice, the search for the level the new one goes before: from *)
(* the best level, or from its successor if the new price is worse ...     *)
BehindCurr(l) == Worse(incoming.side_, incoming.price_, level[l].price_)

(* Mutant: the search starts at the best level whatever its price.         *)
StartSearch_AtHead ==
  /\ Resting
  /\ ~NoRoom
  /\ getOrderAtPrice(incoming.price_) = NULL
  /\ best[incoming.side_] # NULL
  /\ curr' = best[incoming.side_]
  /\ pc' = "searching"
  /\ responses' = << >>
  /\ updates' = << >>
  /\ UNCHANGED <<bookVars, next_order_id_, sent, incoming>>

StartSearch ==
  LET h == best[incoming.side_] IN
  /\ Resting
  /\ ~NoRoom
  /\ getOrderAtPrice(incoming.price_) = NULL
  /\ h # NULL
  /\ curr' = IF BehindCurr(h) THEN next_[h] ELSE h
  /\ pc' = "searching"
  /\ responses' = << >>
  /\ updates' = << >>
  /\ UNCHANGED <<bookVars, next_order_id_, sent, incoming>>

(* Mutant: the search does not notice that the list has wrapped around.    *)
SearchOn_NoWrap ==
  /\ pc = "searching"
  /\ BehindCurr(curr)
  /\ curr' = next_[curr]
  /\ responses' = << >>
  /\ updates' = << >>
  /\ UNCHANGED <<bookVars, next_order_id_, sent, pc, incoming>>

(* ... on while the new price is worse, until the list wraps around ...    *)
SearchOn ==
  /\ pc = "searching"
  /\ BehindCurr(curr) /\ curr # best[incoming.side_]
  /\ curr' = next_[curr]
  /\ responses' = << >>
  /\ updates' = << >>
  /\ UNCHANGED <<bookVars, next_order_id_, sent, pc, incoming>>

(* ... and the new level goes in before curr, at the head of the list if   *)
(* its price beats the best one.                                           *)
RestInNewLevel ==
  LET l == levels_next_free
      s == incoming.side_
      h == best[s]
      p == prev_[curr]
  IN
  /\ pc = "searching"
  /\ ~(BehindCurr(curr) /\ curr # h)
  /\ OpenLevel
  /\ next_' = [next_ EXCEPT ![l] = next_[p], ![p] = l]
  /\ prev_' = [prev_ EXCEPT ![l] = p, ![next_[p]] = l]
  /\ best' = IF Worse(s, level[h].price_, incoming.price_)
             THEN [best EXCEPT ![s] = l] ELSE best

----------------------------------------------------------------------------
(* processClientRequest of a CANCEL: cancel() rejects an order the index   *)
(* does not know, and removes the one it does.                             *)
Known(c, coid) == coid \in ClientOids /\ cid_oid_to_order_[<<c, coid>>] # NULL

CancelRejected(c, coid) ==
  /\ pc = "idle"
  /\ ~Known(c, coid)
  /\ responses' = <<MEClientResponse("CANCEL_REJECTED", c, coid, NULL, NULL, NULL,
                                     NULL, NULL)>>
  /\ updates' = << >>
  /\ UNCHANGED <<bookVars, flowVars>>

Cancel(c, coid) ==
  LET o == cid_oid_to_order_[<<c, coid>>]
      p == order[o]
  IN
  /\ pc = "idle"
  /\ Known(c, coid)
  /\ removeOrder(o)
  /\ responses' = <<MEClientResponse("CANCELLED", c, coid, p.market_order_id_,
                                     p.side_, p.price_, NULL, p.qty_)>>
  /\ updates' = <<MEMarketUpdate("CANCEL", p.market_order_id_, p.side_, p.price_,
                                 p.qty_, p.priority_)>>
  /\ UNCHANGED flowVars

(* The engine has died; nothing happens any more.                          *)
Aborted == pc = "aborted" /\ UNCHANGED vars

----------------------------------------------------------------------------
NewRequest    == \E c \in Clients, s \in Side, p \in Prices, q \in Qtys :
                   NewOrder(c, s, p, q)
CancelRequest == \E c \in Clients, coid \in 0 .. ME_MAX_ORDER_IDS :
                   CancelRejected(c, coid) \/ Cancel(c, coid)

(* The steps of the engine thread inside add().                            *)
Add == \/ Match \/ FullyFilled
       \/ RestAtLevel \/ RestOnEmptySide
       \/ StartSearch \/ SearchOn \/ RestInNewLevel
       \/ Abort

Next == NewRequest \/ CancelRequest \/ Add \/ Aborted

(* The engine is one thread that never blocks inside a request.            *)
Spec == Init /\ [][Next]_vars /\ WF_vars(Add)

----------------------------------------------------------------------------
(* Properties.                                                             *)

LiveOrders == OrderCells \ FreeOrders
LiveLevels == LevelCells \ FreeLevels

OrderPtr == OrderCells \cup {NULL}
LevelPtr == LevelCells \cup {NULL}

BookTypeOK ==
  /\ order \in [OrderCells -> MEOrder \cup {NULL}]
  /\ next_order_ \in [OrderCells -> OrderPtr]
  /\ prev_order_ \in [OrderCells -> OrderPtr]
  /\ orders_next_free \in OrderCells
  /\ level \in [LevelCells -> MEOrdersAtPrice \cup {NULL}]
  /\ orders_head_ \in [LevelCells -> OrderPtr]
  /\ next_ \in [LevelCells -> LevelPtr]
  /\ prev_ \in [LevelCells -> LevelPtr]
  /\ levels_next_free \in LevelCells
  /\ best \in [Side -> LevelPtr]
  /\ price_to_orders_at_price_ \in [LevelCells -> LevelPtr]
  /\ cid_oid_to_order_ \in [Clients \X ClientOids -> OrderPtr]

FlowTypeOK ==
  /\ next_order_id_ \in Nat
  /\ sent \in [Clients -> Nat]
  /\ pc \in {"idle", "matching", "searching", "aborted"}
  /\ incoming \in Incoming \cup {NULL}
  /\ (incoming = NULL) <=> (pc = "idle")
  /\ curr \in LevelPtr

(* Type correctness of the engine's state: a pointer of the book (the      *)
(* lists, bids_by_price_, cid_oid_to_order_, ...) is a cell of its pool or *)
(* NULL, and a cell that is not free holds an order, or a level.           *)
TypeOK == BookTypeOK /\ FlowTypeOK

(* No two prices in use fall on the same entry of the price index.  The    *)
(* code relies on it and does not check it.                                *)
NoAlias == \A p, q \in Prices : priceToIndex(p) = priceToIndex(q) => p = q

(* Both pools: the cell the next allocate() hands out is free.             *)
PoolInv ==
  /\ orders_next_free \in FreeOrders
  /\ levels_next_free \in FreeLevels

(* The price index leads to every live level, and to nothing else.         *)
PriceIndexInv ==
  /\ \A i \in LevelCells : LET l == price_to_orders_at_price_[i] IN
       l # NULL => l \in LiveLevels /\ priceToIndex(level[l].price_) = i
  /\ \A l \in LiveLevels : getOrderAtPrice(level[l].price_) = l

(* The levels of a side are linked to one another both ways.               *)
LevelRingInv ==
  \A l \in LiveLevels :
    /\ next_[l] \in LiveLevels /\ prev_[next_[l]] = l
    /\ prev_[l] \in LiveLevels /\ next_[prev_[l]] = l
    /\ level[next_[l]].side_ = level[l].side_

(* bids_by_price_ and asks_by_price_ are the best levels of their sides,   *)
(* and from there the list runs from price to next worse price.            *)
BestInv ==
  /\ \A s \in Side : best[s] # NULL =>
       best[s] \in LiveLevels /\ level[best[s]].side_ = s
  /\ \A l \in LiveLevels : LET s == level[l].side_ IN
       /\ best[s] # NULL
       /\ ~Worse(s, level[best[s]].price_, level[l].price_)

SortedInv ==
  \A l, m \in LiveLevels : LET s == level[l].side_ IN
    level[m].side_ = s =>
      IF next_[l] = best[s]
      THEN ~Worse(s, level[m].price_, level[l].price_)
      ELSE /\ Worse(s, level[next_[l]].price_, level[l].price_)
           /\ ~(/\ Worse(s, level[m].price_, level[l].price_)
                /\ Worse(s, level[next_[l]].price_, level[m].price_))

(* Every resting order is on a level of its own price and side, linked     *)
(* both ways to orders of the same price; every level has a head.          *)
OrderRingInv ==
  /\ \A o \in LiveOrders : LET l == getOrderAtPrice(order[o].price_) IN
       /\ l \in LiveLevels
       /\ level[l].price_ = order[o].price_ /\ level[l].side_ = order[o].side_
       /\ next_order_[o] \in LiveOrders /\ prev_order_[next_order_[o]] = o
       /\ prev_order_[o] \in LiveOrders /\ next_order_[prev_order_[o]] = o
       /\ order[next_order_[o]].price_ = order[o].price_
  /\ \A l \in LiveLevels :
       /\ orders_head_[l] \in LiveOrders
       /\ order[orders_head_[l]].price_ = level[l].price_

(* Within a level the list runs in order of arrival from the head, and     *)
(* priorities grow in order of arrival (AddOrderToPriceLevel, getPriority, *)
(* removeOrder).                                                           *)
FifoInv ==
  \A o, q \in LiveOrders :
    LET h == orders_head_[getOrderAtPrice(order[o].price_)]
        n == next_order_[o]
    IN
    order[q].price_ = order[o].price_ =>
      /\ order[h].market_order_id_ <= order[o].market_order_id_
      /\ IF n = h
         THEN order[q].market_order_id_ <= order[o].market_order_id_
         ELSE /\ order[n].market_order_id_ > order[o].market_order_id_
              /\ ~(/\ order[o].market_order_id_ < order[q].market_order_id_
                   /\ order[q].market_order_id_ < order[n].market_order_id_)
      /\ order[o].market_order_id_ < order[q].market_order_id_
           => order[o].priority_ < order[q].priority_

(* Market order ids are unique, and nothing rests with a quantity of zero. *)
OrderIdInv ==
  /\ \A o, q \in LiveOrders :
       order[o].market_order_id_ = order[q].market_order_id_ => o = q
  /\ \A o \in LiveOrders : order[o].qty_ > 0

(* The client's index, which cancel() trusts, leads to every resting order *)
(* and to nothing else.                                                    *)
ClientIndexInv ==
  /\ \A k \in Clients \X ClientOids : LET o == cid_oid_to_order_[k] IN
       o # NULL => /\ o \in LiveOrders
                   /\ k = <<order[o].client_id_, order[o].client_order_id_>>
  /\ \A o \in LiveOrders :
       /\ order[o].client_order_id_ \in ClientOids
       /\ cid_oid_to_order_[<<order[o].client_id_, order[o].client_order_id_>>] = o

(* The book is never crossed: every resting bid is below every resting     *)
(* ask, also between two rounds of checkForMatch's loop.                   *)
NotCrossed ==
  \A o, q \in LiveOrders :
    order[o].side_ = "BUY" /\ order[q].side_ = "SELL"
      => order[o].price_ < order[q].price_

(* The invariant of the book's pointer structure, between and during       *)
(* requests.                                                               *)
BookInv ==
  /\ PoolInv /\ PriceIndexInv /\ LevelRingInv /\ BestInv /\ SortedInv
  /\ OrderRingInv /\ FifoInv /\ OrderIdInv /\ ClientIndexInv /\ NotCrossed

(* The incoming order is newer than every resting one, of all clients by   *)
(* its market order id and of its own client by its client order id.       *)
IncomingInv ==
  /\ \A o \in LiveOrders :
       /\ order[o].market_order_id_ < next_order_id_
       /\ order[o].client_order_id_ < sent[order[o].client_id_]
  /\ incoming # NULL =>
       /\ incoming.market_order_id_ < next_order_id_
       /\ incoming.client_order_id_ < sent[incoming.client_id_]
       /\ \A o \in LiveOrders :
            /\ order[o].market_order_id_ < incoming.market_order_id_
            /\ order[o].client_id_ = incoming.client_id_ =>
                 order[o].client_order_id_ < incoming.client_order_id_

(* The search for a new level's place: everything before curr is better.   *)
SearchInv ==
  pc = "searching" => LET s == incoming.side_ IN
    /\ incoming.left > 0 /\ ~CanMatch /\ ~NoRoom
    /\ getOrderAtPrice(incoming.price_) = NULL
    /\ best[s] # NULL
    /\ curr \in LiveLevels /\ level[curr].side_ = s
    /\ curr # best[s] \/ BehindCurr(curr) => BehindCurr(prev_[curr])

(* The inductive invariant of the engine thread, through add() and         *)
(* cancel(): the book's pointer structure is whole, the incoming order is  *)
(* the newest, and the search stands behind better levels.                 *)
EngineInv == TypeOK /\ BookInv /\ IncomingInv /\ SearchInv

(* A resting order without what only the code's lists need.                *)
RestingOrder(o) ==
  [client_id_ |-> o.client_id_, client_order_id_ |-> o.client_order_id_,
   market_order_id_ |-> o.market_order_id_, side_ |-> o.side_,
   price_ |-> o.price_, qty_ |-> o.qty_]

Abstract == INSTANCE LimitOrderBook WITH
  OrderIds <- 0 .. ME_MAX_ORDER_IDS,
  resting <- {RestingOrder(order[c]) : c \in LiveOrders},
  taking  <- incoming,
  lastId  <- next_order_id_ - 1,
  sentBy  <- sent,
  answers <- responses

(* The engine (MEOrderBook::add and cancel, with its pools and its circular *)
(* lists) gives its clients exactly the answers a limit order book with     *)
(* price-time priority gives, at every step of every request.              *)
PriceTimePriority == Abstract!Spec

(* Every request is carried to its end, or the process dies: the matching  *)
(* loop (checkForMatch) and the search around the circular list of levels  *)
(* (AddOrderAtPrice) terminate.                                            *)
RequestsEnd == pc = "matching" ~> pc \in {"idle", "aborted"}

============================================================================
