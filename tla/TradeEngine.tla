---------------------------- MODULE TradeEngine ----------------------------
(***************************************************************************)
(* The trade engine of a participant that runs the MAKER or the TAKER      *)
(* algorithm (src/client/trade_engine.cpp): what its thread does with each *)
(* market update once the book of module ClientOrderBook has applied it.   *)
(* The FeatureEngine, one for all instruments, is told first and the       *)
(* algorithm second; the algorithm names prices, and the OrderManager      *)
(* turns them into requests.                                               *)
(*                                                                         *)
(* A feature is an exact fraction <<numerator, denominator>> for the       *)
(* double of the code, NULL for Feature_INVALID.  Profit and loss, which   *)
(* the PositionKeeper derives from fills, is zero as it starts: without a  *)
(* request there is no response (see MovedOrdersAreSent), so neither fills *)
(* nor OrderManager::onOrderUpdate are modelled.                           *)
(***************************************************************************)
EXTENDS ClientOrderBook

CONSTANTS
  Clip,                         \* quantity of the algorithm's orders
  ThresholdNum, ThresholdDen,   \* its threshold, as a fraction
  MaxOrderSize, MaxPosition, MaxLoss,   \* limits of the RiskManager
  OtherFeature                  \* a feature's value after an update of another instrument

ASSUME TradeEngineAssumption ==
  /\ Clip \in Nat \ {0} /\ MaxOrderSize \in Nat /\ MaxPosition \in Nat /\ MaxLoss \in Int
  /\ ThresholdNum \in Nat /\ ThresholdDen \in Nat \ {0}
ASSUME NullFraction == NULL \notin Int \X Int

VARIABLES
  algo_type_,
  features,    \* mkt_price_ and agg_trade_qty_ratio_
  om,          \* the OrderManager: orders by side, next id, requests sent
  moved        \* the arguments of moveOrders if the last step called it, or NULL

engineVars == <<algo_type_, features, om, moved>>

(* OMOrder as it is constructed.                                           *)
OMOrder == [order_id_ |-> NULL, price_ |-> NULL, qty_ |-> NULL, order_state_ |-> "INVALID"]

EngineInit ==
  /\ Init
  /\ algo_type_ \in {"MAKER", "TAKER"}
  /\ features = [mkt_price_ |-> NULL, agg_trade_qty_ratio_ |-> NULL]
  /\ om = [order |-> [s \in Side |-> OMOrder], next_order_id_ |-> 1, requests |-> << >>]
  /\ moved = NULL

----------------------------------------------------------------------------
(* The OrderManager and the RiskManager, as functions of the OrderManager. *)

(* The position and the profit are what they are before the first fill.    *)
checkPreTradeRisk(qty) == qty <= MaxOrderSize /\ qty <= MaxPosition /\ ~(0 < MaxLoss)

newOrder(o, side, price, qty) ==
  LET id == o.next_order_id_ IN
  [order |-> [o.order EXCEPT ![side] = [order_id_ |-> id, price_ |-> price, qty_ |-> qty,
                                        order_state_ |-> "PENDING_NEW"]],
   next_order_id_ |-> id + 1,
   requests |-> Append(o.requests, [type_ |-> "NEW", order_id_ |-> id, side_ |-> side,
                                    price_ |-> price, qty_ |-> qty])]

cancelOrder(o, side) ==
  [o EXCEPT !.order[side].order_state_ = "PENDING_CANCEL",
            !.requests = Append(@, [type_ |-> "CANCEL", order_id_ |-> o.order[side].order_id_,
                                    side_ |-> side, price_ |-> o.order[side].price_,
                                    qty_ |-> o.order[side].qty_])]

moveOrder(o, side, price, qty) ==
  LET state == o.order[side].order_state_ IN
  IF state = "LIVE" /\ o.order[side].price_ # price THEN cancelOrder(o, side)
  ELSE IF state = "DEAD" /\ checkPreTradeRisk(qty) THEN newOrder(o, side, price, qty)
  ELSE o

moveOrders(bid, ask, qty) ==
  /\ om' = moveOrder(moveOrder(om, "BUY", bid, qty), "SELL", ask, qty)
  /\ moved' = [bid_price |-> bid, ask_price |-> ask, qty |-> qty]

NoOrders == UNCHANGED om /\ moved' = NULL

----------------------------------------------------------------------------
(* The FeatureEngine and the algorithms.                                   *)

Known(bbo) == \A s \in Side : bbo[s] # NULL

(* onOrderBookUpdate: the prices weighted by their quantities.             *)
MktPrice(f, bbo) ==
  LET bid == bbo["BUY"]
      ask == bbo["SELL"]
  IN IF Known(bbo)
     THEN [f EXCEPT !.mkt_price_ = <<bid.price_ * bid.qty_ + ask.price_ * ask.qty_,
                                     ask.qty_ + bid.qty_>>]
     ELSE f

(* Mutant: the quantity of the aggressor's own side.                       *)
AggTradeQtyRatio_OwnSide(f, bbo, m) ==
  IF Known(bbo) THEN [f EXCEPT !.agg_trade_qty_ratio_ = <<m.qty_, bbo[m.side_].qty_>>] ELSE f

(* onTradeUpdate: the share of the best level that was taken.              *)
AggTradeQtyRatio(f, bbo, m) ==
  IF Known(bbo)
  THEN [f EXCEPT !.agg_trade_qty_ratio_ =
         <<m.qty_, bbo[IF m.side_ = "BUY" THEN "SELL" ELSE "BUY"].qty_>>]
  ELSE f

AtLeastThreshold(num, den) == num * ThresholdDen >= ThresholdNum * den

(* MarketMaker::onOrderBookUpdate: join the best price on a side that is   *)
(* far enough from the fair price, else stay one tick behind it.  A fair   *)
(* price of NULL is a NaN: it passes the code's != Feature_INVALID and     *)
(* misses the threshold.                                                   *)
Make(f, bbo) ==
  LET fair == f.mkt_price_
      bid  == bbo["BUY"].price_
      ask  == bbo["SELL"].price_
      joinBid == fair # NULL /\ AtLeastThreshold(fair[1] - bid * fair[2], fair[2])
      joinAsk == fair # NULL /\ AtLeastThreshold(ask * fair[2] - fair[1], fair[2])
  IN IF Known(bbo)
     THEN moveOrders(bid - (IF joinBid THEN 0 ELSE 1), ask + (IF joinAsk THEN 0 ELSE 1), Clip)
     ELSE NoOrders

(* LiquidityTaker::onTradeUpdate: follow a trade that took enough.         *)
Take(f, bbo, m) ==
  LET ratio == f.agg_trade_qty_ratio_ IN
  IF Known(bbo) /\ ratio # NULL /\ AtLeastThreshold(ratio[1], ratio[2])
  THEN IF m.side_ = "BUY" THEN moveOrders(bbo["SELL"].price_, NULL, Clip)
       ELSE moveOrders(NULL, bbo["BUY"].price_, Clip)
  ELSE NoOrders

(* Mutant: the algorithm is told before the FeatureEngine.                 *)
onOrderBookUpdate_AlgoFirst(bbo) ==
  /\ features' = MktPrice(features, bbo)
  /\ IF algo_type_ = "MAKER" THEN Make(features, bbo) ELSE NoOrders

onOrderBookUpdate(bbo) ==
  /\ features' = MktPrice(features, bbo)
  /\ IF algo_type_ = "MAKER" THEN Make(features', bbo) ELSE NoOrders

onTradeUpdate(bbo, m) ==
  /\ features' = AggTradeQtyRatio(features, bbo, m)
  /\ IF algo_type_ = "TAKER" THEN Take(features', bbo, m) ELSE NoOrders

(* One iteration of run() with an update for this instrument.  A trade     *)
(* leaves the book alone; anything else is a book update, a CLEAR that has *)
(* freed levels too: the features and the algorithm then see the BBO as it *)
(* was.                                                                    *)
HandleUpdate ==
  /\ onMarketUpdate \/ Clear
  /\ IF pc' = "aborted" THEN NoOrders /\ UNCHANGED features
     ELSE IF Head(inbox).type_ = "TRADE" THEN onTradeUpdate(bbo_, Head(inbox))
     ELSE onOrderBookUpdate(bbo_')
  /\ UNCHANGED algo_type_

(* One with an update for another instrument, with a book of its own but   *)
(* the same FeatureEngine.                                                 *)
OtherTicker ==
  /\ pc = "running"
  /\ \E f \in DOMAIN features : features' = [features EXCEPT ![f] = OtherFeature]
  /\ moved' = NULL
  /\ UNCHANGED <<vars, algo_type_, om>>

ExchangeStep ==
  /\ Exchange
  /\ moved' = NULL
  /\ UNCHANGED <<algo_type_, features, om>>

EngineNext == ExchangeStep \/ HandleUpdate \/ OtherTicker

EngineSpec == EngineInit /\ [][EngineNext]_<<vars, engineVars>>

----------------------------------------------------------------------------
(* Properties.                                                             *)

(* Prices of the exchange's orders, and the quantity announced at one.     *)
PricesOf(s) == {ex[i].price_ : i \in {j \in 1 .. Len(ex) : ex[j].side_ = s}}

QtyAt(s, p) == Total([i \in 1 .. Len(ex) |-> IF i \in RestingAt(s, p) THEN ex[i].qty_ ELSE 0])

(* With all updates handled, the prices a market maker has named are       *)
(* around the exchange's market of this instrument: on each side the best  *)
(* price if its distance from the weighted price, (ask - bid) times the    *)
(* other side's share of the quantity announced, reaches the threshold,    *)
(* else one tick away from it (MarketMaker::onOrderBookUpdate, with a      *)
(* FeatureEngine that other instruments write to in between).  A CLEAR     *)
(* that frees levels is left out: the maker then names prices around the   *)
(* BBO it had before.                                                      *)
QuotesAroundMarket ==
  moved # NULL /\ algo_type_ = "MAKER" /\ inbox = << >> /\ pc = "running" =>
    \E bid \in PricesOf("BUY"), ask \in PricesOf("SELL") :
      /\ \A p \in PricesOf("BUY") : p <= bid
      /\ \A p \in PricesOf("SELL") : ask <= p
      /\ LET bq == QtyAt("BUY", bid)
             aq == QtyAt("SELL", ask)
         IN /\ moved.bid_price \in {bid, bid - 1}
            /\ moved.bid_price = bid
                 <=> (ask - bid) * aq * ThresholdDen >= ThresholdNum * (aq + bq)
            /\ moved.ask_price \in {ask, ask + 1}
            /\ moved.ask_price = ask
                 <=> (ask - bid) * bq * ThresholdDen >= ThresholdNum * (aq + bq)

(* A liquidity taker follows a trade only if the threshold's share of the  *)
(* level it traded on goes, with a price for the aggressor's side that is  *)
(* the trade's: the update that comes next shows what is left of the order *)
(* that traded (LiquidityTaker::onTradeUpdate).                            *)
TakesWhatTraded ==
  moved # NULL /\ algo_type_ = "TAKER" =>
    /\ inbox # << >>
    /\ LET m == Head(inbox)
           o == book.oid_to_order_[m.order_id_]
           l == book.oid_to_price_level_[priceToIndex(o.price_)]
       IN /\ (o.qty_ - m.qty_) * ThresholdDen >= ThresholdNum * LevelQty(book, l)
          /\ moved.bid_price = IF o.side_ = "SELL" THEN o.price_ ELSE NULL
          /\ moved.ask_price = IF o.side_ = "BUY" THEN o.price_ ELSE NULL

(* An algorithm that names prices within its limits has an order out for   *)
(* them, its quantity the clip (OrderManager::moveOrder).                  *)
MovedOrdersAreSent ==
  moved # NULL /\ checkPreTradeRisk(Clip) => om.requests # << >>

(* The inductive invariant: the book's, and what the last step has named.  *)
TradeEngineInv ==
  /\ ClientBookInv
  /\ DOMAIN features = {"mkt_price_", "agg_trade_qty_ratio_"}
  /\ QuotesAroundMarket /\ TakesWhatTraded
============================================================================
