----------------------------- MODULE BookFeed -----------------------------
(***************************************************************************)
(* The market updates of the matching engine on their way through the      *)
(* exchange: the engine writes them to outgoing_market_data_, the          *)
(* publisher thread numbers them and hands them on in snapshot_updates_    *)
(* (src/exchange/market_data_publisher.cpp), and the snapshot synthetizer  *)
(* thread keeps from them its own picture of the book                      *)
(* (src/exchange/snapshot_synthetizer.cpp).  Both queues are FIFO; what    *)
(* can go wrong with the ring buffer itself is the subject of SPSCQueue.   *)
(***************************************************************************)
EXTENDS MEOrderBook, SequencesExt

CONSTANTS
  OtherOrders,   \* orders of the exchange's other tickers
  MaxLag         \* bound: the updates under way when the engine takes a step

(* The synthetizer keeps the orders of every ticker apart: an order of     *)
(* another ticker never has the place of one of this book.                 *)
ASSUME OthersAssumption == OtherOrders \cap (Nat \cup {NULL}) = {}

VARIABLES
  other_orders,             \* what has become of the orders of the other tickers
  outgoing_market_data_,    \* updates from the engine to the publisher
  next_seq_num_,            \* of the publisher
  snapshot_updates_,        \* numbered updates from the publisher to the synthetizer
  ticker_order_to_update_,  \* the synthetizer's picture: order -> update
  last_seq_num_             \* of the synthetizer

feedVars == <<other_orders, outgoing_market_data_, next_seq_num_, snapshot_updates_,
              ticker_order_to_update_, last_seq_num_>>

(* The places of the picture: one for each market order id of this book's  *)
(* ticker, and those of the other tickers.                                 *)
SnapshotIds == 0 .. ME_MAX_ORDER_IDS - 1
Keys == SnapshotIds \cup OtherOrders

(* The updates the engine announces, and a picture made of them.           *)
MarketUpdates == [type_ : {"ADD", "MODIFY", "CANCEL", "TRADE"},
                  order_id_ : Nat \cup OtherOrders \cup {NULL}, side_ : Side \cup {NULL},
                  price_ : Prices \cup {NULL}, qty_ : Nat, priority_ : Nat \cup {NULL}]
Pictures == [Keys -> MarketUpdates \cup {NULL}]

ASSUME NullUpdate == NULL \notin MarketUpdates

FeedInit ==
  /\ Init
  /\ other_orders = [k \in OtherOrders |-> "new"]
  /\ outgoing_market_data_ = << >>
  /\ next_seq_num_ = 1
  /\ snapshot_updates_ = << >>
  /\ ticker_order_to_update_ = [k \in Keys |-> NULL]
  /\ last_seq_num_ = 0

----------------------------------------------------------------------------
Lagging == Len(outgoing_market_data_) + Len(snapshot_updates_) > MaxLag

(* A step of the engine; sendMarketUpdate queues what it announces.        *)
EngineStep ==
  /\ pc = "aborted" \/ ~Lagging
  /\ Next
  /\ outgoing_market_data_' = outgoing_market_data_ \o updates'
  /\ UNCHANGED <<other_orders, next_seq_num_, snapshot_updates_, ticker_order_to_update_,
                 last_seq_num_>>

(* Of an order of another ticker only that it comes and goes matters here. *)
OtherUpdate(type, k) == MEMarketUpdate(type, k, NULL, NULL, 0, NULL)

(* Between two requests for this book, the engine thread serves one for    *)
(* the book of another ticker, in which an order comes to rest or from     *)
(* which one goes.                                                         *)
OtherTicker(k) ==
  /\ pc = "idle"
  /\ ~Lagging
  /\ \/ /\ other_orders[k] = "new"
        /\ other_orders' = [other_orders EXCEPT ![k] = "resting"]
        /\ outgoing_market_data_' = Append(outgoing_market_data_, OtherUpdate("ADD", k))
     \/ /\ other_orders[k] = "resting"
        /\ other_orders' = [other_orders EXCEPT ![k] = "gone"]
        /\ outgoing_market_data_' = Append(outgoing_market_data_, OtherUpdate("CANCEL", k))
  /\ UNCHANGED <<vars, next_seq_num_, snapshot_updates_, ticker_order_to_update_,
                 last_seq_num_>>

(* Mutant: the publisher forgets to advance the sequence number.           *)
Publish_SameNumber ==
  /\ pc # "aborted"
  /\ outgoing_market_data_ # << >>
  /\ snapshot_updates_' = Append(snapshot_updates_,
       [seq_num_ |-> next_seq_num_, me_market_update_ |-> Head(outgoing_market_data_)])
  /\ outgoing_market_data_' = Tail(outgoing_market_data_)
  /\ UNCHANGED <<vars, other_orders, next_seq_num_, ticker_order_to_update_, last_seq_num_>>

(* One iteration of the publisher's loop.                                  *)
Publish ==
  /\ pc # "aborted"
  /\ outgoing_market_data_ # << >>
  /\ snapshot_updates_' = Append(snapshot_updates_,
       [seq_num_ |-> next_seq_num_, me_market_update_ |-> Head(outgoing_market_data_)])
  /\ outgoing_market_data_' = Tail(outgoing_market_data_)
  /\ next_seq_num_' = next_seq_num_ + 1
  /\ UNCHANGED <<vars, other_orders, ticker_order_to_update_, last_seq_num_>>

(* Mutant: MODIFY takes the update's quantity for what has been traded.    *)
Applied_Subtract(picture, u) ==
  CASE u.type_ = "ADD"    -> [picture EXCEPT ![u.order_id_] = u]
    [] u.type_ = "MODIFY" -> [picture EXCEPT ![u.order_id_].price_ = u.price_,
                                             ![u.order_id_].qty_ = @ - u.qty_]
    [] u.type_ = "CANCEL" -> [picture EXCEPT ![u.order_id_] = NULL]
    [] u.type_ = "TRADE"  -> picture

(* Mutant: a cancelled order stays in the picture.                         *)
Applied_KeepCancelled(picture, u) ==
  CASE u.type_ = "ADD"    -> [picture EXCEPT ![u.order_id_] = u]
    [] u.type_ = "MODIFY" -> [picture EXCEPT ![u.order_id_].price_ = u.price_,
                                             ![u.order_id_].qty_ = u.qty_]
    [] u.type_ \in {"CANCEL", "TRADE"} -> picture

(* What the switch of addSnapShot does to the picture.                     *)
Applied(picture, u) ==
  CASE u.type_ = "ADD"    -> [picture EXCEPT ![u.order_id_] = u]
    [] u.type_ = "MODIFY" -> [picture EXCEPT ![u.order_id_].price_ = u.price_,
                                             ![u.order_id_].qty_ = u.qty_]
    [] u.type_ = "CANCEL" -> [picture EXCEPT ![u.order_id_] = NULL]
    [] u.type_ = "TRADE"  -> picture

(* orders->at(order_id_) has no entry for the id: it throws, nothing       *)
(* catches, the process dies.                                              *)
OutOfRange(u) == u.type_ # "TRADE" /\ u.order_id_ \notin Keys

Shown(picture) == {k \in DOMAIN picture : picture[k] # NULL}

(* update_pool_ is one pool of ME_MAX_ORDER_IDS cells for the orders of    *)
(* all tickers.  allocate() looks for the next free cell when it has taken *)
(* one, and when there is none assert(false) ends the process: the last    *)
(* cell is never usable.                                                   *)
NoCell(picture) == Cardinality(Shown(picture)) >= ME_MAX_ORDER_IDS - 1

(* The update ends the process.                                            *)
Fatal(picture, u) == OutOfRange(u) \/ (u.type_ = "ADD" /\ NoCell(picture))

addSnapShot ==
  /\ pc # "aborted"
  /\ snapshot_updates_ # << >>
  /\ LET u == Head(snapshot_updates_) IN
       /\ ~Fatal(ticker_order_to_update_, u.me_market_update_)
       /\ ticker_order_to_update_' = Applied(ticker_order_to_update_, u.me_market_update_)
       /\ last_seq_num_' = u.seq_num_
  /\ snapshot_updates_' = Tail(snapshot_updates_)
  /\ UNCHANGED <<vars, other_orders, outgoing_market_data_, next_seq_num_>>

addSnapShotAborts ==
  /\ pc # "aborted"
  /\ snapshot_updates_ # << >>
  /\ Fatal(ticker_order_to_update_, Head(snapshot_updates_).me_market_update_)
  /\ pc' = "aborted"
  /\ responses' = << >>
  /\ updates' = << >>
  /\ UNCHANGED <<bookVars, next_order_id_, sent, incoming, curr, feedVars>>

FeedNext ==
  \/ EngineStep
  \/ \E k \in OtherOrders : OtherTicker(k)
  \/ Publish
  \/ addSnapShot
  \/ addSnapShotAborts

FeedSpec == FeedInit /\ [][FeedNext]_<<vars, feedVars>>

----------------------------------------------------------------------------
(* Properties.                                                             *)

(* What the ASSERTs of addSnapShot ask of an update and the picture it is  *)
(* to be applied to.                                                       *)
Fits(picture, u) ==
  /\ u.type_ = "ADD" /\ ~OutOfRange(u) => picture[u.order_id_] = NULL
  /\ u.type_ \in {"MODIFY", "CANCEL"} =>
       /\ u.order_id_ \in Shown(picture)
       /\ picture[u.order_id_].order_id_ = u.order_id_
       /\ picture[u.order_id_].side_ = u.side_

(* No ASSERT of addSnapShot ever fires: at the moment an update is taken,  *)
(* whatever the lag, the picture is the one the engine had when it sent    *)
(* it.  (The assert of its pool is another matter: the orders of several    *)
(* tickers can use it up, see Fatal.)                                      *)
AssertsHold ==
  snapshot_updates_ # << >> =>
    /\ Head(snapshot_updates_).seq_num_ = last_seq_num_ + 1
    /\ Fits(ticker_order_to_update_, Head(snapshot_updates_).me_market_update_)

(* The picture the synthetizer will have once it has taken every update    *)
(* under way.                                                              *)
Pending == [i \in 1 .. Len(snapshot_updates_) |-> snapshot_updates_[i].me_market_update_]
           \o outgoing_market_data_

CaughtUp == FoldLeft(Applied, ticker_order_to_update_, Pending)

InRange(us) == \A i \in 1 .. Len(us) : ~OutOfRange(us[i])

CanCatchUp == InRange(Pending)

RestingElsewhere == {k \in OtherOrders : other_orders[k] = "resting"}

ShowsBook(picture) ==
  /\ Shown(picture) = {order[o].market_order_id_ : o \in LiveOrders} \cup RestingElsewhere
  /\ \A o \in LiveOrders : LET u == picture[order[o].market_order_id_] IN
       /\ u.side_ = order[o].side_
       /\ u.price_ = order[o].price_
       /\ u.priority_ = order[o].priority_

(* In every state, also in the middle of a request, the picture and the    *)
(* updates under way together make up the engine's book, and the orders of *)
(* the other tickers: the same orders with the same side, price and        *)
(* priority.                                                               *)
PictureIsBook == CanCatchUp => ShowsBook(CaughtUp)

ShowsEveryShare(picture) ==
  \A o \in LiveOrders : picture[order[o].market_order_id_].qty_ >= order[o].qty_

(* The picture never shows fewer shares than the book has.                 *)
NoSharesHidden == CanCatchUp => ShowsEveryShare(CaughtUp)

(* The picture shows the quantities of the book: the stream carries the    *)
(* state changes of the matching engine.                                   *)
QuantityIsBook ==
  CanCatchUp => \A o \in LiveOrders : CaughtUp[order[o].market_order_id_].qty_ = order[o].qty_

----------------------------------------------------------------------------
(* The invariant of the feed.                                              *)

(* Between the queues: the numbers run on from the synthetizer's to the    *)
(* publisher's.                                                            *)
NumbersInv ==
  /\ outgoing_market_data_ \in Seq(MarketUpdates)
  /\ snapshot_updates_ \in Seq([seq_num_ : Nat, me_market_update_ : MarketUpdates])
  /\ last_seq_num_ \in Nat
  /\ next_seq_num_ = last_seq_num_ + Len(snapshot_updates_) + 1
  /\ \A i \in 1 .. Len(snapshot_updates_) : snapshot_updates_[i].seq_num_ = last_seq_num_ + i

(* Each update of a sequence fits the picture that those before it leave.  *)
AllFit(picture, us) ==
  \A k \in 1 .. Len(us) :
    InRange(SubSeq(us, 1, k - 1)) => Fits(FoldLeft(Applied, picture, SubSeq(us, 1, k - 1)), us[k])

(* A picture of the book, in which an entry is found under its own id.     *)
IsPicture(picture) ==
  /\ picture \in Pictures
  /\ \A k \in Shown(picture) : picture[k].order_id_ = k
  /\ \A k \in RestingElsewhere : picture[k] = OtherUpdate("ADD", k)
  /\ ShowsBook(picture)
  /\ ShowsEveryShare(picture)

(* The inductive invariant of the way from the engine to the synthetizer.  *)
(* An engine that addSnapShot has brought down may stand anywhere in a     *)
(* request, or between two.                                                *)
FeedInv ==
  /\ pc # "aborted" => EngineInv
  /\ pc = "aborted" => updates = << >>
  /\ BookTypeOK /\ BookInv
  /\ incoming # NULL => incoming.left <= incoming.qty_
  /\ other_orders \in [OtherOrders -> {"new", "resting", "gone"}]
  /\ NumbersInv
  /\ AllFit(ticker_order_to_update_, Pending)
  /\ CanCatchUp => IsPicture(CaughtUp)
============================================================================
