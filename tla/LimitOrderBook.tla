-------------------------- MODULE LimitOrderBook --------------------------
(***************************************************************************)
(* What the matching engine promises its clients for one instrument: a     *)
(* limit order book with price-time priority.  There are no lists, pools   *)
(* or indexes here, only the set of resting orders, the order being worked *)
(* on and the answers the last step gave.  MEOrderBook implements this.    *)
(***************************************************************************)
EXTENDS Integers, Sequences

CONSTANTS Clients, Prices, Qtys, OrderIds, MaxOrders, NULL

VARIABLES
  resting,    \* the orders in the book, with what is left of each
  taking,     \* the incoming order, with what is left of it, or NULL
  lastId,     \* how many orders have been accepted
  sentBy,     \* how many of them each client sent
  answers     \* what the last step told the clients

vars == <<resting, taking, lastId, sentBy, answers>>

Init ==
  /\ resting = {}
  /\ taking = NULL
  /\ lastId = 0
  /\ sentBy = [c \in Clients |-> 0]
  /\ answers = << >>

Answer(type, o, exec, leaves) ==
  [type_ |-> type, client_id_ |-> o.client_id_, client_order_id_ |-> o.client_order_id_,
   market_order_id_ |-> o.market_order_id_, side_ |-> o.side_, price_ |-> o.price_,
   exec_qty_ |-> exec, leaves_qty_ |-> leaves]

Accept(c, side, price, qty) ==
  LET o == [client_id_ |-> c, client_order_id_ |-> sentBy[c],
            market_order_id_ |-> lastId + 1, side_ |-> side, price_ |-> price,
            qty_ |-> qty, left |-> qty]
  IN
  /\ taking = NULL
  /\ lastId < MaxOrders
  /\ taking' = o
  /\ lastId' = lastId + 1
  /\ sentBy' = [sentBy EXCEPT ![c] = @ + 1]
  /\ answers' = <<Answer("ACCEPTED", o, 0, qty)>>
  /\ UNCHANGED resting

(* The resting orders the incoming one may trade with.                     *)
Eligible ==
  {o \in resting :
     \/ taking.side_ = "BUY"  /\ o.side_ = "SELL" /\ o.price_ <= taking.price_
     \/ taking.side_ = "SELL" /\ o.side_ = "BUY"  /\ o.price_ >= taking.price_}

(* o comes before q: a better price, or the same price and an earlier      *)
(* arrival.                                                                *)
Before(o, q) ==
  \/ o.side_ = "BUY"  /\ o.price_ > q.price_
  \/ o.side_ = "SELL" /\ o.price_ < q.price_
  \/ o.price_ = q.price_ /\ o.market_order_id_ < q.market_order_id_

(* The incoming order trades with the first eligible one, at the price of  *)
(* the latter, as much as both still have.                                 *)
Trade ==
  /\ taking # NULL
  /\ taking.left > 0
  /\ \E o \in Eligible :
       LET qty  == IF o.qty_ <= taking.left THEN o.qty_ ELSE taking.left
           left == o.qty_ - qty
       IN
       /\ \A q \in Eligible \ {o} : Before(o, q)
       /\ resting' = (resting \ {o}) \cup
                     (IF left = 0 THEN {} ELSE {[o EXCEPT !.qty_ = left]})
       /\ taking' = [taking EXCEPT !.left = @ - qty]
       /\ answers' = <<Answer("FILLED", [taking EXCEPT !.price_ = o.price_], qty,
                              taking.left - qty),
                       Answer("FILLED", o, qty, left)>>
  /\ UNCHANGED <<lastId, sentBy>>

Resting(o) == [client_id_ |-> o.client_id_, client_order_id_ |-> o.client_order_id_,
               market_order_id_ |-> o.market_order_id_, side_ |-> o.side_,
               price_ |-> o.price_, qty_ |-> o.left]

(* What cannot trade rests with what is left of it; what has nothing left  *)
(* is done.                                                                *)
Rest ==
  /\ taking # NULL
  /\ taking.left > 0
  /\ Eligible = {}
  /\ resting' = resting \cup {Resting(taking)}
  /\ taking' = NULL
  /\ answers' = << >>
  /\ UNCHANGED <<lastId, sentBy>>

Done ==
  /\ taking # NULL
  /\ taking.left = 0
  /\ taking' = NULL
  /\ answers' = << >>
  /\ UNCHANGED <<resting, lastId, sentBy>>

Cancel(c, coid) ==
  /\ taking = NULL
  /\ \E o \in resting :
       /\ o.client_id_ = c /\ o.client_order_id_ = coid
       /\ resting' = resting \ {o}
       /\ answers' = <<Answer("CANCELLED", o, NULL, o.qty_)>>
  /\ UNCHANGED <<taking, lastId, sentBy>>

Reject(c, coid) ==
  /\ taking = NULL
  /\ \A o \in resting : ~(o.client_id_ = c /\ o.client_order_id_ = coid)
  /\ answers' = <<[type_ |-> "CANCEL_REJECTED", client_id_ |-> c,
                   client_order_id_ |-> coid, market_order_id_ |-> NULL,
                   side_ |-> NULL, price_ |-> NULL, exec_qty_ |-> NULL,
                   leaves_qty_ |-> NULL]>>
  /\ UNCHANGED <<resting, taking, lastId, sentBy>>

(* The engine works, or has died, without a word to anybody.               *)
Silent ==
  /\ taking # NULL
  /\ answers' = << >>
  /\ UNCHANGED <<resting, taking, lastId, sentBy>>

Next ==
  \/ \E c \in Clients, s \in {"BUY", "SELL"}, p \in Prices, q \in Qtys : Accept(c, s, p, q)
  \/ Trade \/ Rest \/ Done \/ Silent
  \/ \E c \in Clients, coid \in OrderIds : Cancel(c, coid) \/ Reject(c, coid)

Spec == Init /\ [][Next]_vars
============================================================================
