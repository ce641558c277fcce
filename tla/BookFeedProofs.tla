--------------------------- MODULE BookFeedProofs ---------------------------
(***************************************************************************)
(* The picture of the snapshot synthetizer, together with the updates on   *)
(* their way to it, is the engine's book, whatever the lag between the     *)
(* three threads, the clients, prices, quantities and pool sizes and what  *)
(* the other tickers do, as long as no two prices in use share an entry of *)
(* the price index (NoAlias).                                              *)
(*                                                                         *)
(* The first part is about sequences of updates and pictures alone, the    *)
(* second about what one update does to a picture of the book, the third   *)
(* about the steps of the three threads.                                   *)
(***************************************************************************)
EXTENDS BookFeed, MEOrderBookProofs, FiniteSetTheorems, SequenceTheorems

F == INSTANCE FoldLemmas WITH Op <- Applied

(* The fold of the library is the one of the lemmas.                       *)
LEMMA FoldIsFold ==
  ASSUME NEW picture, NEW us
  PROVE  FoldLeft(Applied, picture, us) = F!Fold(picture, us)
BY Zenon DEF FoldLeft, MapThenFoldSet, Max, F!Fold, F!FoldLeft, F!MapThenFoldSet, F!Max

(* One more update at the end of the queue.                                *)
LEMMA AppliedLast ==
  ASSUME NEW us \in Seq(MarketUpdates), NEW u \in MarketUpdates, NEW picture
  PROVE  FoldLeft(Applied, picture, Append(us, u)) = Applied(FoldLeft(Applied, picture, us), u)
<1>1. F!Fold(picture, Append(us, u)) = Applied(F!Fold(picture, us), u)
  BY F!FoldAppend
<1>. QED
  BY <1>1, FoldIsFold

(* One update less at its head.                                            *)
LEMMA AppliedFirst ==
  ASSUME NEW us \in Seq(MarketUpdates), us # << >>, NEW picture
  PROVE  FoldLeft(Applied, picture, us) = FoldLeft(Applied, Applied(picture, Head(us)), Tail(us))
<1>1. F!Fold(picture, us) = F!Fold(Applied(picture, Head(us)), Tail(us))
  BY F!FoldFirst
<1>. QED
  BY <1>1, FoldIsFold

(* No update at all.                                                       *)
LEMMA AppliedNone ==
  ASSUME NEW picture
  PROVE  FoldLeft(Applied, picture, << >>) = picture
<1>1. F!Fold(picture, << >>) = picture
  BY F!FoldEmpty
<1>. QED
  BY <1>1, FoldIsFold

----------------------------------------------------------------------------
(* Sequences of updates.                                                   *)

(* What a sequence with one more update is made of.                        *)
LEMMA AppendParts ==
  ASSUME NEW S, NEW us \in Seq(S), NEW u \in S
  PROVE  /\ Append(us, u) \in Seq(S) /\ Len(Append(us, u)) = Len(us) + 1
         /\ Append(us, u)[Len(us) + 1] = u
         /\ \A k \in 1 .. Len(us) : Append(us, u)[k] = us[k]
         /\ \A k \in 1 .. Len(us) + 1 : SubSeq(Append(us, u), 1, k - 1) = SubSeq(us, 1, k - 1)
         /\ SubSeq(us, 1, Len(us)) = us
OBVIOUS

(* What the rest of a sequence is made of.                                 *)
LEMMA TailParts ==
  ASSUME NEW S, NEW us \in Seq(S), us # << >>
  PROVE  /\ Tail(us) \in Seq(S) /\ Len(us) = Len(Tail(us)) + 1 /\ Head(us) = us[1]
         /\ Head(us) \in S
         /\ \A k \in 1 .. Len(Tail(us)) : Tail(us)[k] = us[k + 1]
         /\ \A k \in 1 .. Len(us) :
              /\ SubSeq(us, 1, k) \in Seq(S) /\ SubSeq(us, 1, k) # << >>
              /\ Head(SubSeq(us, 1, k)) = Head(us)
              /\ Tail(SubSeq(us, 1, k)) = SubSeq(Tail(us), 1, k - 1)
OBVIOUS

(* Whether the ids are in range shows at each update for itself.           *)
LEMMA InRangeAppend ==
  ASSUME NEW us \in Seq(MarketUpdates), NEW u \in MarketUpdates
  PROVE  InRange(Append(us, u)) <=> InRange(us) /\ ~OutOfRange(u)
<1>1. Len(us) \in Nat
  OBVIOUS
<1>2. \A k \in 1 .. Len(us) + 1 : k = Len(us) + 1 \/ k \in 1 .. Len(us)
  BY <1>1
<1>3. Len(us) + 1 \in 1 .. Len(us) + 1 /\ \A k \in 1 .. Len(us) : k \in 1 .. Len(us) + 1
  BY <1>1
<1>. QED
  BY <1>2, <1>3, AppendParts DEF InRange

LEMMA InRangeTail ==
  ASSUME NEW us \in Seq(MarketUpdates), us # << >>
  PROVE  InRange(us) <=> ~OutOfRange(Head(us)) /\ InRange(Tail(us))
<1>. DEFINE n == Len(Tail(us))
<1>1. /\ n \in Nat /\ Len(us) = n + 1 /\ Head(us) = us[1]
      /\ \A k \in 1 .. n : Tail(us)[k] = us[k + 1]
  BY TailParts
<1>. HIDE DEF n
<1>2. 1 \in 1 .. n + 1 /\ \A k \in 1 .. n : k + 1 \in 1 .. n + 1
  BY <1>1
<1>3. \A k \in 1 .. n + 1 : k = 1 \/ (k - 1 \in 1 .. n /\ (k - 1) + 1 = k)
  BY <1>1
<1>4. InRange(us) <=> \A k \in 1 .. n + 1 : ~OutOfRange(us[k])
  BY <1>1 DEF InRange
<1>5. InRange(Tail(us)) <=> \A k \in 1 .. n : ~OutOfRange(us[k + 1])
  BY <1>1 DEF InRange, n
<1>6. (\A k \in 1 .. n + 1 : ~OutOfRange(us[k]))
        <=> ~OutOfRange(us[1]) /\ \A k \in 1 .. n : ~OutOfRange(us[k + 1])
  BY <1>2, <1>3
<1>. QED
  BY <1>1, <1>4, <1>5, <1>6

(* An update that fits the picture at the end of the queue may be queued.  *)
LEMMA AllFitAppend ==
  ASSUME NEW us \in Seq(MarketUpdates), NEW u \in MarketUpdates, NEW picture,
         AllFit(picture, us),
         InRange(us) => Fits(FoldLeft(Applied, picture, us), u)
  PROVE  AllFit(picture, Append(us, u))
<1>. DEFINE w == Append(us, u)
<1>. SUFFICES ASSUME NEW k \in 1 .. Len(w), InRange(SubSeq(w, 1, k - 1))
              PROVE  Fits(FoldLeft(Applied, picture, SubSeq(w, 1, k - 1)), w[k])
  BY DEF AllFit
<1>1. k \in 1 .. Len(us) + 1 /\ SubSeq(w, 1, k - 1) = SubSeq(us, 1, k - 1)
  BY AppendParts
<1>2. CASE k = Len(us) + 1
  <2>1. k - 1 = Len(us)
    BY <1>2
  <2>2. SubSeq(w, 1, k - 1) = us /\ w[k] = u
    BY <1>1, <1>2, <2>1, AppendParts
  <2>. HIDE DEF w
  <2>. QED
    BY <2>2
<1>3. CASE k \in 1 .. Len(us)
  <2>1. w[k] = us[k]
    BY <1>3, AppendParts
  <2>. HIDE DEF w
  <2>. QED
    BY <1>1, <1>3, <2>1 DEF AllFit
<1>4. k = Len(us) + 1 \/ k \in 1 .. Len(us)
  BY <1>1
<1>. QED
  BY <1>2, <1>3, <1>4

(* What is left fits when the head of the queue has been taken.            *)
LEMMA AllFitTail ==
  ASSUME NEW us \in Seq(MarketUpdates), us # << >>, NEW picture,
         AllFit(picture, us), ~OutOfRange(Head(us))
  PROVE  AllFit(Applied(picture, Head(us)), Tail(us))
<1>. DEFINE t == Tail(us)
            p == Applied(picture, Head(us))
<1>. SUFFICES ASSUME NEW k \in 1 .. Len(t), InRange(SubSeq(t, 1, k - 1))
              PROVE  Fits(FoldLeft(Applied, p, SubSeq(t, 1, k - 1)), t[k])
  BY DEF AllFit
<1>. DEFINE w == SubSeq(us, 1, k)
<1>1. k \in 1 .. Len(us) /\ k + 1 \in 1 .. Len(us) /\ (k + 1) - 1 = k /\ t[k] = us[k + 1]
  BY TailParts
<1>2. /\ w \in Seq(MarketUpdates) /\ w # << >> /\ Head(w) = Head(us)
      /\ Tail(w) = SubSeq(t, 1, k - 1)
  BY <1>1, TailParts
<1>. HIDE DEF t, p, w
<1>3. InRange(w)
  BY <1>2, InRangeTail
<1>4. FoldLeft(Applied, picture, w) = FoldLeft(Applied, p, SubSeq(t, 1, k - 1))
  BY <1>2, AppliedFirst DEF p
<1>5. Fits(FoldLeft(Applied, picture, w), us[k + 1])
  BY <1>1, <1>3 DEF AllFit, w
<1>. QED
  BY <1>1, <1>4, <1>5
----------------------------------------------------------------------------
(* What one update does to a picture of the book.                          *)

Pools == {ord \in [OrderCells -> MEOrder \cup {NULL}] :
            \A o, q \in OrderCells :
              ord[o] # NULL /\ ord[q] # NULL
                /\ ord[o].market_order_id_ = ord[q].market_order_id_ => o = q}

(* The entry of a picture that shows an order.                             *)
Shows(u, r) ==
  /\ u.side_ = r.side_ /\ u.price_ = r.price_ /\ u.priority_ = r.priority_
  /\ u.qty_ >= r.qty_

(* `picture' is one of the orders in the pool `ord' and of the other       *)
(* tickers' orders `rest': what IsPicture says, with these as parameters.  *)
IsPictureOf(picture, ord, others) ==
  /\ picture \in Pictures
  /\ \A k \in OtherOrders :
       picture[k] = IF k \in others THEN OtherUpdate("ADD", k) ELSE NULL
  /\ \A i \in SnapshotIds : picture[i] # NULL =>
       /\ picture[i].order_id_ = i
       /\ \E o \in OrderCells : ord[o] # NULL /\ ord[o].market_order_id_ = i
  /\ \A o \in OrderCells : ord[o] # NULL =>
       /\ ord[o].market_order_id_ \in SnapshotIds
       /\ picture[ord[o].market_order_id_] # NULL
       /\ Shows(picture[ord[o].market_order_id_], ord[o])

(* An entry is an update, and none is NULL.                                *)
LEMMA PictureEntries ==
  ASSUME NEW picture \in Pictures, NEW i \in SnapshotIds, picture[i] # NULL
  PROVE  picture[i] \in MarketUpdates
BY DEF Pictures, Keys

(* The places of the other tickers' orders are none of this book's.        *)
LEMMA OtherPlaces ==
  /\ SnapshotIds \subseteq Keys /\ OtherOrders \subseteq Keys
  /\ \A k \in OtherOrders : k \notin SnapshotIds /\ k \notin Nat /\ k # NULL
<1>1. SnapshotIds \subseteq Nat
  BY DEF SnapshotIds
<1>. QED
  BY <1>1, OthersAssumption DEF Keys

(* ADD shows the order that has come to rest.                              *)
LEMMA AddShown ==
  ASSUME NEW picture, NEW ord \in Pools, NEW ord2 \in Pools, NEW others,
         IsPictureOf(picture, ord, others),
         NEW o \in OrderCells, ord[o] = NULL, ord2[o] # NULL,
         \A q \in OrderCells \ {o} : ord2[q] = ord[q],
         NEW u \in MarketUpdates, u.type_ = "ADD",
         u.order_id_ = ord2[o].market_order_id_, u.order_id_ \in SnapshotIds,
         Shows(u, ord2[o])
  PROVE  IsPictureOf(Applied(picture, u), ord2, others)
<1>. DEFINE new == Applied(picture, u)
<1>1. new = [picture EXCEPT ![u.order_id_] = u]
  BY DEF Applied
<1>2. new \in Pictures /\ u # NULL
  BY <1>1, NullUpdate, OtherPlaces DEF Pictures, IsPictureOf
<1>3. \A i \in SnapshotIds : new[i] = IF i = u.order_id_ THEN u ELSE picture[i]
  BY <1>1, OtherPlaces DEF Pictures, IsPictureOf
<1>0. \A k \in OtherOrders : new[k] = IF k \in others THEN OtherUpdate("ADD", k) ELSE NULL
  <2>1. u.order_id_ \in SnapshotIds
    BY DEF IsPictureOf
  <2>2. \A k \in OtherOrders : new[k] = picture[k]
    BY <1>1, <2>1, OtherPlaces DEF Pictures, IsPictureOf
  <2>. QED
    BY <2>2 DEF IsPictureOf
<1>4. \A q \in OrderCells \ {o} : ord2[q] # NULL => ord2[q].market_order_id_ # u.order_id_
  BY DEF Pools
<1>. HIDE DEF new
<1>5. ASSUME NEW i \in SnapshotIds, new[i] # NULL
      PROVE  /\ new[i].order_id_ = i
             /\ \E q \in OrderCells : ord2[q] # NULL /\ ord2[q].market_order_id_ = i
  <2>1. CASE i = u.order_id_
    BY <2>1, <1>3
  <2>2. CASE i # u.order_id_
    <3>1. new[i] = picture[i] /\ picture[i] # NULL
      BY <2>2, <1>3, <1>5
    <3>2. PICK q \in OrderCells : ord[q] # NULL /\ ord[q].market_order_id_ = i
      BY <3>1 DEF IsPictureOf
    <3>3. ord2[q] = ord[q]
      BY <3>2
    <3>. QED
      BY <3>1, <3>2, <3>3 DEF IsPictureOf
  <2>. QED
    BY <2>1, <2>2
<1>6. ASSUME NEW q \in OrderCells, ord2[q] # NULL
      PROVE  /\ ord2[q].market_order_id_ \in SnapshotIds
             /\ new[ord2[q].market_order_id_] # NULL
             /\ Shows(new[ord2[q].market_order_id_], ord2[q])
  <2>1. CASE q = o
    <3>1. new[u.order_id_] = u
      BY <1>3
    <3>. QED
      BY <2>1, <3>1, <1>2
  <2>2. CASE q # o
    <3>1. ord2[q] = ord[q] /\ ord2[q].market_order_id_ # u.order_id_
      BY <2>2, <1>4, <1>6
    <3>2. /\ ord[q].market_order_id_ \in SnapshotIds
          /\ picture[ord[q].market_order_id_] # NULL
          /\ Shows(picture[ord[q].market_order_id_], ord[q])
      BY <3>1, <1>6 DEF IsPictureOf
    <3>3. new[ord[q].market_order_id_] = picture[ord[q].market_order_id_]
      BY <3>1, <3>2, <1>3
    <3>. QED
      BY <3>1, <3>2, <3>3
  <2>. QED
    BY <2>1, <2>2
<1>. QED
  BY <1>0, <1>2, <1>5, <1>6 DEF IsPictureOf, new

(* CANCEL takes out the order that has left the book.                      *)
LEMMA CancelShown ==
  ASSUME NEW picture, NEW ord \in Pools, NEW ord2, NEW others,
         IsPictureOf(picture, ord, others),
         NEW o \in OrderCells, ord[o] # NULL, ord2[o] = NULL,
         \A q \in OrderCells \ {o} : ord2[q] = ord[q],
         NEW u \in MarketUpdates, u.type_ = "CANCEL",
         u.order_id_ = ord[o].market_order_id_
  PROVE  IsPictureOf(Applied(picture, u), ord2, others)
<1>. DEFINE new == Applied(picture, u)
<1>1. new = [picture EXCEPT ![u.order_id_] = NULL]
  BY DEF Applied
<1>2. new \in Pictures
  BY <1>1 DEF Pictures, IsPictureOf
<1>3. \A i \in SnapshotIds : new[i] = IF i = u.order_id_ THEN NULL ELSE picture[i]
  BY <1>1, OtherPlaces DEF Pictures, IsPictureOf
<1>0. \A k \in OtherOrders : new[k] = IF k \in others THEN OtherUpdate("ADD", k) ELSE NULL
  <2>1. u.order_id_ \in SnapshotIds
    BY DEF IsPictureOf
  <2>2. \A k \in OtherOrders : new[k] = picture[k]
    BY <1>1, <2>1, OtherPlaces DEF Pictures, IsPictureOf
  <2>. QED
    BY <2>2 DEF IsPictureOf
<1>4. \A q \in OrderCells \ {o} : ord[q] # NULL => ord[q].market_order_id_ # u.order_id_
  BY DEF Pools
<1>. HIDE DEF new
<1>5. ASSUME NEW i \in SnapshotIds, new[i] # NULL
      PROVE  /\ new[i].order_id_ = i
             /\ \E q \in OrderCells : ord2[q] # NULL /\ ord2[q].market_order_id_ = i
  <2>1. i # u.order_id_ /\ new[i] = picture[i] /\ picture[i] # NULL
    BY <1>3, <1>5
  <2>2. PICK q \in OrderCells : ord[q] # NULL /\ ord[q].market_order_id_ = i
    BY <2>1 DEF IsPictureOf
  <2>3. q # o /\ ord2[q] = ord[q]
    BY <2>1, <2>2
  <2>. QED
    BY <2>1, <2>2, <2>3 DEF IsPictureOf
<1>6. ASSUME NEW q \in OrderCells, ord2[q] # NULL
      PROVE  /\ ord2[q].market_order_id_ \in SnapshotIds
             /\ new[ord2[q].market_order_id_] # NULL
             /\ Shows(new[ord2[q].market_order_id_], ord2[q])
  <2>1. q # o /\ ord2[q] = ord[q] /\ ord[q].market_order_id_ # u.order_id_
    BY <1>4, <1>6
  <2>2. /\ ord[q].market_order_id_ \in SnapshotIds
        /\ picture[ord[q].market_order_id_] # NULL
        /\ Shows(picture[ord[q].market_order_id_], ord[q])
    BY <2>1, <1>6 DEF IsPictureOf
  <2>3. new[ord[q].market_order_id_] = picture[ord[q].market_order_id_]
    BY <2>1, <2>2, <1>3
  <2>. QED
    BY <2>1, <2>2, <2>3
<1>. QED
  BY <1>0, <1>2, <1>5, <1>6 DEF IsPictureOf, new

(* MODIFY shows what a partial fill has left of an order.                  *)
LEMMA ModifyShown ==
  ASSUME NEW picture, NEW ord \in Pools, NEW ord2, NEW others,
         IsPictureOf(picture, ord, others),
         NEW o \in OrderCells, ord[o] # NULL, ord2[o] # NULL,
         ord2[o].market_order_id_ = ord[o].market_order_id_,
         \A q \in OrderCells \ {o} : ord2[q] = ord[q],
         NEW u \in MarketUpdates, u.type_ = "MODIFY",
         u.order_id_ = ord[o].market_order_id_,
         ord2[o].side_ = ord[o].side_, ord2[o].priority_ = ord[o].priority_,
         ord2[o].price_ = u.price_, u.qty_ >= ord2[o].qty_
  PROVE  IsPictureOf(Applied(picture, u), ord2, others)
<1>. DEFINE new == Applied(picture, u)
            i0  == u.order_id_
            e   == picture[i0]
<1>1. new = [picture EXCEPT ![i0].price_ = u.price_, ![i0].qty_ = u.qty_]
  BY DEF Applied
<1>2. /\ i0 \in SnapshotIds /\ e # NULL /\ e.order_id_ = i0 /\ Shows(e, ord[o])
      /\ picture \in Pictures /\ e \in MarketUpdates
  BY PictureEntries DEF IsPictureOf
<1>3. \A i \in SnapshotIds : i # i0 => new[i] = picture[i]
  BY <1>1, <1>2, OtherPlaces DEF Pictures
<1>0. \A k \in OtherOrders : new[k] = IF k \in others THEN OtherUpdate("ADD", k) ELSE NULL
  <2>1. u.order_id_ \in SnapshotIds
    BY DEF IsPictureOf
  <2>2. \A k \in OtherOrders : new[k] = picture[k]
    BY <1>1, <2>1, OtherPlaces DEF Pictures, IsPictureOf
  <2>. QED
    BY <2>2 DEF IsPictureOf
<1>4. /\ new[i0] \in MarketUpdates /\ new[i0].order_id_ = i0
      /\ new[i0].side_ = e.side_ /\ new[i0].priority_ = e.priority_
      /\ new[i0].price_ = u.price_ /\ new[i0].qty_ = u.qty_
  <2>1. new[i0] = [[e EXCEPT !.price_ = u.price_] EXCEPT !.qty_ = u.qty_]
    BY <1>1, <1>2, OtherPlaces DEF Pictures
  <2>. HIDE DEF e, new
  <2>. QED
    BY <1>2, <2>1 DEF MarketUpdates
<1>5. new \in Pictures
  <2>1. new = [i \in Keys |-> new[i]]
    BY <1>1, <1>2 DEF Pictures
  <2>2. \A i \in Keys : new[i] \in MarketUpdates \cup {NULL}
    <3>1. \A i \in Keys : i # i0 => new[i] = picture[i]
      BY <1>1, <1>2 DEF Pictures
    <3>. QED
      BY <1>2, <1>4, <3>1 DEF Pictures
  <2>. HIDE DEF new
  <2>. QED
    BY <2>1, <2>2 DEF Pictures
<1>6. new[i0] # NULL
  BY <1>4, NullUpdate
<1>7. \A q \in OrderCells \ {o} : ord[q] # NULL => ord[q].market_order_id_ # i0
  BY DEF Pools
<1>. HIDE DEF new, e
<1>8. ASSUME NEW i \in SnapshotIds, new[i] # NULL
      PROVE  /\ new[i].order_id_ = i
             /\ \E q \in OrderCells : ord2[q] # NULL /\ ord2[q].market_order_id_ = i
  <2>1. CASE i = i0
    BY <2>1, <1>4
  <2>2. CASE i # i0
    <3>1. new[i] = picture[i] /\ picture[i] # NULL
      BY <2>2, <1>3, <1>8
    <3>2. PICK q \in OrderCells : ord[q] # NULL /\ ord[q].market_order_id_ = i
      BY <3>1 DEF IsPictureOf
    <3>3. q # o /\ ord2[q] = ord[q]
      BY <2>2, <3>2
    <3>. QED
      BY <3>1, <3>2, <3>3 DEF IsPictureOf
  <2>. QED
    BY <2>1, <2>2
<1>9. ASSUME NEW q \in OrderCells, ord2[q] # NULL
      PROVE  /\ ord2[q].market_order_id_ \in SnapshotIds
             /\ new[ord2[q].market_order_id_] # NULL
             /\ Shows(new[ord2[q].market_order_id_], ord2[q])
  <2>1. CASE q = o
    BY <2>1, <1>2, <1>4, <1>6 DEF Shows
  <2>2. CASE q # o
    <3>1. ord2[q] = ord[q] /\ ord[q].market_order_id_ # i0
      BY <2>2, <1>7, <1>9
    <3>2. /\ ord[q].market_order_id_ \in SnapshotIds
          /\ picture[ord[q].market_order_id_] # NULL
          /\ Shows(picture[ord[q].market_order_id_], ord[q])
      BY <3>1, <1>9 DEF IsPictureOf
    <3>3. new[ord[q].market_order_id_] = picture[ord[q].market_order_id_]
      BY <3>1, <3>2, <1>3
    <3>. QED
      BY <3>1, <3>2, <3>3
  <2>. QED
    BY <2>1, <2>2
<1>. QED
  BY <1>0, <1>5, <1>8, <1>9 DEF IsPictureOf, new

----------------------------------------------------------------------------
(* What the steps of the engine announce.                                  *)

(* The quantity of the incoming order, which ADD will carry, covers what   *)
(* is left of it.                                                          *)
LeftInv == incoming # NULL => incoming.left <= incoming.qty_

(* The engine's pool is a pool of orders with unique ids.                  *)
LEMMA OrderIsPool ==
  ASSUME BookTypeOK, BookInv
  PROVE  order \in Pools
BY DEF BookTypeOK, BookInv, OrderIdInv, LiveOrders, FreeOrders, Pools

(* What is left of an order is announced with ADD when it comes to rest.   *)
LEMMA RestAnnounces ==
  ASSUME NoAlias, EngineInv, LeftInv, RestAtLevel \/ RestOnEmptySide \/ RestInNewLevel, NEW p, NEW others
  PROVE  /\ pc' = "idle" /\ LeftInv'
         /\ \E u \in MarketUpdates :
              /\ updates' = <<u>>
              /\ IsPictureOf(p, order, others) =>
                   /\ Fits(p, u)
                   /\ ~OutOfRange(u) => IsPictureOf(Applied(p, u), order', others)
<1>. DEFINE o == orders_next_free
            u == MEMarketUpdate("ADD", incoming.market_order_id_, incoming.side_,
                                incoming.price_, incoming.qty_, getPriority(incoming.price_))
<1>1. TypeOK /\ BookInv /\ IncomingInv /\ SearchInv /\ BookTypeOK
  BY DEF EngineInv, TypeOK
<1>2. /\ incoming # NULL /\ incoming.left > 0 /\ ~CanMatch /\ ~NoRoom /\ RestOrder
      /\ incoming \in Incoming
  BY <1>1 DEF RestAtLevel, RestOnEmptySide, RestInNewLevel, OpenLevel, Resting, SearchInv,
     TypeOK, FlowTypeOK
<1>3. /\ o \in OrderCells /\ order[o] = NULL
      /\ order'[o] \in MEOrder
      /\ order'[o].side_ = incoming.side_ /\ order'[o].price_ = incoming.price_
      /\ order'[o].qty_ = incoming.left
      /\ order'[o].market_order_id_ = incoming.market_order_id_
      /\ order'[o].priority_ = getPriority(incoming.price_)
      /\ \A q \in LiveOrders : order[q].market_order_id_ < incoming.market_order_id_
  BY <1>1, <1>2, RestOrderEffect
<1>4. \A q \in OrderCells \ {o} : order'[q] = order[q]
  BY <1>1, <1>2, <1>3 DEF RestOrder, BookTypeOK
<1>5. order \in Pools /\ order' \in Pools
  <2>1. EngineInv'
    BY NextInv DEF Next, Add
  <2>. QED
    BY <1>1, <2>1, OrderIsPool DEF EngineInv, TypeOK, BookTypeOK, BookInv, OrderIdInv,
       LiveOrders, FreeOrders, Pools
<1>6. pc' = "idle" /\ incoming' = NULL /\ updates' = <<u>>
  BY <1>2 DEF RestOrder
<1>7. /\ u \in MarketUpdates /\ u.type_ = "ADD"
      /\ u.order_id_ = incoming.market_order_id_ /\ u.side_ = incoming.side_
      /\ u.price_ = incoming.price_ /\ u.qty_ = incoming.qty_
      /\ u.priority_ = getPriority(incoming.price_)
  <2>1. getPriority(incoming.price_) \in Nat
    BY <1>3 DEF MEOrder
  <2>. QED
    BY <1>2, <2>1 DEF MEMarketUpdate, MarketUpdates, Incoming
<1>8. order'[o] # NULL /\ Shows(u, order'[o])
  BY <1>2, <1>3, <1>7, NullRecords DEF Shows, LeftInv, Incoming
<1>. HIDE DEF u
<1>9. ASSUME IsPictureOf(p, order, others), ~OutOfRange(u)
      PROVE  p[u.order_id_] = NULL /\ u.order_id_ \in SnapshotIds
  <2>1. u.order_id_ \in SnapshotIds
    <3>1. u.order_id_ \in Nat
      BY <1>2, <1>7 DEF Incoming
    <3>. QED
      BY <1>7, <1>9, <3>1, OtherPlaces DEF OutOfRange, Keys
  <2>2. ASSUME p[u.order_id_] # NULL PROVE FALSE
    <3>1. PICK q \in OrderCells : order[q] # NULL /\ order[q].market_order_id_ = u.order_id_
      BY <1>9, <2>1, <2>2 DEF IsPictureOf
    <3>2. q \in LiveOrders
      BY <3>1 DEF LiveOrders, FreeOrders
    <3>3. order[q].market_order_id_ < incoming.market_order_id_
      BY <1>3, <3>2
    <3>4. incoming.market_order_id_ \in Nat
      BY <1>2 DEF Incoming
    <3>. QED
      BY <1>7, <3>1, <3>3, <3>4
  <2>. QED
    BY <2>1, <2>2
<1>10. ASSUME IsPictureOf(p, order, others) PROVE Fits(p, u)
  BY <1>7, <1>9, <1>10 DEF Fits
<1>11. ASSUME IsPictureOf(p, order, others), ~OutOfRange(u)
       PROVE  IsPictureOf(Applied(p, u), order', others)
  BY <1>3, <1>4, <1>5, <1>7, <1>8, <1>9, <1>11, AddShown
<1>12. LeftInv'
  BY <1>6 DEF LeftInv
<1>. QED
  BY <1>6, <1>7, <1>10, <1>11, <1>12

(* A cancel that succeeds is announced.                                    *)
LEMMA CancelAnnounces ==
  ASSUME NoAlias, EngineInv, LeftInv, NEW c \in Clients, NEW coid \in 0 .. ME_MAX_ORDER_IDS,
         Cancel(c, coid), NEW p, NEW others
  PROVE  /\ pc' = "idle" /\ LeftInv'
         /\ \E u \in MarketUpdates :
              /\ updates' = <<u>>
              /\ IsPictureOf(p, order, others) =>
                   /\ Fits(p, u)
                   /\ ~OutOfRange(u) => IsPictureOf(Applied(p, u), order', others)
<1>1. BookInv /\ BookTypeOK
  BY DEF EngineInv, TypeOK
<1>2. PICK o \in LiveOrders : o = cid_oid_to_order_[<<c, coid>>]
  BY <1>1 DEF Cancel, Known, BookInv, ClientIndexInv
<1>. DEFINE r == order[o]
            u == MEMarketUpdate("CANCEL", r.market_order_id_, r.side_, r.price_, r.qty_,
                                r.priority_)
<1>3. /\ pc' = "idle" /\ UNCHANGED flowVars /\ updates' = <<u>>
      /\ order' = [order EXCEPT ![o] = NULL]
  BY <1>2 DEF Cancel, removeOrder, flowVars
<1>4. o \in OrderCells /\ r \in MEOrder /\ r # NULL
  BY <1>1, LiveCells, NullRecords
<1>5. order'[o] = NULL /\ \A q \in OrderCells \ {o} : order'[q] = order[q]
  BY <1>1, <1>3, <1>4 DEF BookTypeOK
<1>6. order \in Pools
  BY <1>1, OrderIsPool
<1>7. /\ u \in MarketUpdates /\ u.type_ = "CANCEL"
      /\ u.order_id_ = r.market_order_id_ /\ u.side_ = r.side_
  <2>. HIDE DEF r
  <2>. QED
    BY <1>4 DEF MEMarketUpdate, MarketUpdates, MEOrder
<1>. HIDE DEF u
<1>8. ASSUME IsPictureOf(p, order, others) PROVE Fits(p, u)
  <2>1. /\ u.order_id_ \in SnapshotIds /\ p[u.order_id_] # NULL
        /\ p[u.order_id_].order_id_ = u.order_id_ /\ p[u.order_id_].side_ = u.side_
        /\ DOMAIN p = Keys /\ u.order_id_ \in Keys
    BY <1>4, <1>7, <1>8, OtherPlaces DEF IsPictureOf, Shows, Pictures
  <2>. QED
    BY <1>7, <2>1 DEF Fits, Shown
<1>9. ASSUME IsPictureOf(p, order, others) PROVE IsPictureOf(Applied(p, u), order', others)
  BY <1>4, <1>5, <1>6, <1>7, <1>9, CancelShown
<1>10. LeftInv'
  BY <1>3 DEF LeftInv, flowVars
<1>. QED
  BY <1>3, <1>7, <1>8, <1>9, <1>10

(* A trade is announced, and what it leaves of the passive order.          *)
LEMMA MatchAnnounces ==
  ASSUME NoAlias, EngineInv, LeftInv, Match, NEW p, NEW others
  PROVE  /\ pc' = "matching" /\ LeftInv'
         /\ \E t, u \in MarketUpdates :
              /\ updates' = <<t, u>>
              /\ ~OutOfRange(t) /\ Fits(p, t) /\ Applied(p, t) = p
              /\ IsPictureOf(p, order, others) =>
                   /\ Fits(p, u)
                   /\ ~OutOfRange(u) => IsPictureOf(Applied(p, u), order', others)
<1>1. BookInv /\ BookTypeOK /\ TypeOK
  BY DEF EngineInv, TypeOK
<1>2. PICK o \in LiveOrders : o = bestOrder(Opposite(incoming.side_))
  BY <1>1, BestOrderIsLive DEF Match
<1>. DEFINE r      == order[o]
            filled == MinOf(r.qty_, incoming.left)
            rest   == r.qty_ - filled
            t == MEMarketUpdate("TRADE", NULL, incoming.side_, r.price_, filled, NULL)
            u == MEMarketUpdate(IF rest = 0 THEN "CANCEL" ELSE "MODIFY", r.market_order_id_,
                                r.side_, r.price_, rest, r.priority_)
<1>3. /\ pc = "matching" /\ pc' = "matching" /\ incoming.left > 0
      /\ incoming' = [incoming EXCEPT !.left = @ - filled]
      /\ updates' = <<t, u>>
      /\ rest = 0 => order' = [order EXCEPT ![o] = NULL]
      /\ rest # 0 => order' = [order EXCEPT ![o].qty_ = rest]
  BY <1>2 DEF Match, CanMatch, removeOrder
<1>4. /\ incoming \in Incoming /\ incoming # NULL
      /\ o \in OrderCells /\ r \in MEOrder /\ r # NULL
  BY <1>1, <1>3, LiveCells, NullRecords DEF TypeOK, FlowTypeOK
<1>5. /\ r.qty_ \in Nat /\ incoming.left \in Nat /\ incoming.qty_ \in Nat
      /\ filled \in Nat /\ rest \in Nat
      /\ incoming.left - filled \in Nat /\ incoming.left - filled <= incoming.left
  <2>1. r.qty_ \in Nat /\ incoming.left \in Nat /\ incoming.qty_ \in Nat
    BY <1>4 DEF MEOrder, Incoming
  <2>. QED
    BY <2>1 DEF MinOf
<1>6. LeftInv'
  <2>1. incoming'.left = incoming.left - filled /\ incoming'.qty_ = incoming.qty_
    <3>. HIDE DEF filled
    <3>. QED
      BY <1>3, <1>4 DEF Incoming
  <2>2. incoming.left <= incoming.qty_
    BY <1>4 DEF LeftInv
  <2>. QED
    BY <1>5, <2>1, <2>2 DEF LeftInv
<1>. HIDE DEF filled, rest
<1>7. /\ t \in MarketUpdates /\ t.type_ = "TRADE"
  BY <1>4, <1>5 DEF MEMarketUpdate, MarketUpdates, MEOrder, Incoming
<1>8. /\ u \in MarketUpdates
      /\ u.type_ = (IF rest = 0 THEN "CANCEL" ELSE "MODIFY")
      /\ u.order_id_ = r.market_order_id_ /\ u.side_ = r.side_ /\ u.price_ = r.price_
      /\ u.qty_ = rest
  <2>. HIDE DEF r
  <2>. QED
    BY <1>4, <1>5 DEF MEMarketUpdate, MarketUpdates, MEOrder
<1>. HIDE DEF t, u
<1>9. ~OutOfRange(t) /\ Fits(p, t) /\ Applied(p, t) = p
  BY <1>7 DEF OutOfRange, Fits, Applied
<1>10. ASSUME IsPictureOf(p, order, others) PROVE Fits(p, u)
  <2>1. /\ u.order_id_ \in SnapshotIds /\ p[u.order_id_] # NULL
        /\ p[u.order_id_].order_id_ = u.order_id_ /\ p[u.order_id_].side_ = u.side_
        /\ DOMAIN p = Keys /\ u.order_id_ \in Keys
    BY <1>4, <1>8, <1>10, OtherPlaces DEF IsPictureOf, Shows, Pictures
  <2>. QED
    BY <1>8, <2>1 DEF Fits, Shown
<1>11. order \in Pools
  BY <1>1, OrderIsPool
<1>12. ASSUME IsPictureOf(p, order, others) PROVE IsPictureOf(Applied(p, u), order', others)
  <2>1. CASE rest = 0
    <3>1. order'[o] = NULL /\ \A q \in OrderCells \ {o} : order'[q] = order[q]
      BY <1>1, <1>3, <1>4, <2>1 DEF BookTypeOK
    <3>. QED
      BY <1>4, <1>8, <1>11, <1>12, <2>1, <3>1, CancelShown
  <2>2. CASE rest # 0
    <3>1. /\ order'[o] = [r EXCEPT !.qty_ = rest]
          /\ \A q \in OrderCells \ {o} : order'[q] = order[q]
      BY <1>1, <1>3, <1>4, <2>2 DEF BookTypeOK
    <3>2. /\ order'[o] \in MEOrder /\ order'[o].qty_ = rest
          /\ order'[o].market_order_id_ = r.market_order_id_
          /\ order'[o].side_ = r.side_ /\ order'[o].price_ = r.price_
          /\ order'[o].priority_ = r.priority_
      <4>. HIDE DEF r
      <4>. QED
        BY <1>4, <1>5, <3>1 DEF MEOrder
    <3>3. order'[o] # NULL /\ u.qty_ >= order'[o].qty_
      BY <1>5, <1>8, <3>2, NullRecords
    <3>. QED
      BY <1>4, <1>8, <1>11, <1>12, <2>2, <3>1, <3>2, <3>3, ModifyShown
  <2>. QED
    BY <2>1, <2>2
<1>. QED
  BY <1>3, <1>6, <1>7, <1>8, <1>9, <1>10, <1>12

(* Every step of the engine thread: what it announces is what it does to   *)
(* the book.                                                               *)
LEMMA StepAnnounces ==
  ASSUME NoAlias, EngineInv, LeftInv, Next, pc # "aborted", NEW p, NEW others
  PROVE  /\ LeftInv'
         /\ pc' = "aborted" => updates' = << >>
         /\ \/ updates' = << >> /\ order' = order
            \/ \E u \in MarketUpdates :
                 /\ updates' = <<u>>
                 /\ IsPictureOf(p, order, others) =>
                      /\ Fits(p, u)
                      /\ ~OutOfRange(u) => IsPictureOf(Applied(p, u), order', others)
            \/ \E t, u \in MarketUpdates :
                 /\ updates' = <<t, u>>
                 /\ ~OutOfRange(t) /\ Fits(p, t) /\ Applied(p, t) = p
                 /\ IsPictureOf(p, order, others) =>
                      /\ Fits(p, u)
                      /\ ~OutOfRange(u) => IsPictureOf(Applied(p, u), order', others)
<1>1. ASSUME NEW c \in Clients, NEW s \in Side, NEW pr \in Prices, NEW q \in Qtys,
             NewOrder(c, s, pr, q)
      PROVE  pc' # "aborted" /\ LeftInv' /\ updates' = << >> /\ order' = order
  <2>1. /\ pc' = "matching" /\ updates' = << >> /\ order' = order
        /\ incoming' = [client_id_ |-> c, client_order_id_ |-> sent[c],
                        market_order_id_ |-> next_order_id_, side_ |-> s,
                        price_ |-> pr, qty_ |-> q, left |-> q]
    BY <1>1 DEF NewOrder, bookVars, orderVars
  <2>2. incoming'.left = q /\ incoming'.qty_ = q /\ q \in Nat
    BY <2>1, QtyAssumption
  <2>. QED
    BY <2>1, <2>2 DEF LeftInv
<1>2. ASSUME NEW c \in Clients, NEW coid \in 0 .. ME_MAX_ORDER_IDS, CancelRejected(c, coid)
      PROVE  pc' # "aborted" /\ LeftInv' /\ updates' = << >> /\ order' = order
  BY <1>2 DEF CancelRejected, bookVars, orderVars, flowVars, LeftInv
<1>3. ASSUME FullyFilled \/ Abort \/ StartSearch \/ SearchOn
      PROVE  LeftInv' /\ updates' = << >> /\ order' = order
  BY <1>3 DEF FullyFilled, Abort, StartSearch, SearchOn, bookVars, orderVars, LeftInv
<1>4. CASE NewRequest
  BY <1>1, <1>4 DEF NewRequest
<1>5. CASE CancelRequest
  BY <1>2, <1>5, CancelAnnounces DEF CancelRequest
<1>6. CASE Match
  BY <1>6, MatchAnnounces
<1>7. CASE FullyFilled \/ Abort \/ StartSearch \/ SearchOn
  BY <1>3, <1>7
<1>8. CASE RestAtLevel \/ RestOnEmptySide \/ RestInNewLevel
  BY <1>8, RestAnnounces
<1>9. CASE Aborted
  BY <1>9 DEF Aborted
<1>. QED
  BY <1>4, <1>5, <1>6, <1>7, <1>8, <1>9 DEF Next, Add

----------------------------------------------------------------------------
(* The queues.                                                             *)

(* The updates of a sequence of numbered updates.                          *)
Unnumbered(S) == [i \in 1 .. Len(S) |-> S[i].me_market_update_]

NumberedUpdates == [seq_num_ : Nat, me_market_update_ : MarketUpdates]

LEMMA UnnumberedParts ==
  ASSUME NEW S \in Seq(NumberedUpdates)
  PROVE  /\ Unnumbered(S) \in Seq(MarketUpdates)
         /\ Len(Unnumbered(S)) = Len(S) /\ Len(S) \in Nat
         /\ \A i \in 1 .. Len(S) : Unnumbered(S)[i] = S[i].me_market_update_
<1>1. Len(S) \in Nat /\ \A i \in 1 .. Len(S) : S[i] \in NumberedUpdates
  OBVIOUS
<1>2. \A i \in 1 .. Len(S) : S[i].me_market_update_ \in MarketUpdates
  BY <1>1 DEF NumberedUpdates
<1>3. Unnumbered(S) \in [1 .. Len(S) -> MarketUpdates]
  BY <1>2 DEF Unnumbered
<1>4. Unnumbered(S) \in Seq(MarketUpdates) /\ DOMAIN Unnumbered(S) = 1 .. Len(S)
  <2>. DEFINE f == Unnumbered(S)
              n == Len(S)
  <2>. HIDE DEF f, n
  <2>1. f \in [1 .. n -> MarketUpdates] /\ n \in Nat
    BY <1>1, <1>3 DEF f, n
  <2>2. f \in Seq(MarketUpdates) /\ DOMAIN f = 1 .. n
    BY <2>1
  <2>. QED
    BY <2>2 DEF f, n
<1>5. Len(Unnumbered(S)) = Len(S)
  BY <1>1, <1>4
<1>. QED
  BY <1>1, <1>4, <1>5 DEF Unnumbered

LEMMA UnnumberedAppend ==
  ASSUME NEW S \in Seq(NumberedUpdates), NEW e \in NumberedUpdates
  PROVE  Unnumbered(Append(S, e)) = Append(Unnumbered(S), e.me_market_update_)
<1>. DEFINE T == Append(S, e)
            u == e.me_market_update_
<1>1. /\ T \in Seq(NumberedUpdates) /\ Len(T) = Len(S) + 1 /\ T[Len(S) + 1] = e
      /\ \A i \in 1 .. Len(S) : T[i] = S[i]
  OBVIOUS
<1>2. u \in MarketUpdates
  BY DEF NumberedUpdates
<1>. HIDE DEF T, u
<1>3. /\ Unnumbered(T) \in Seq(MarketUpdates) /\ Len(Unnumbered(T)) = Len(S) + 1
      /\ \A i \in 1 .. Len(S) + 1 : Unnumbered(T)[i] = T[i].me_market_update_
  BY <1>1, UnnumberedParts
<1>4. \A i \in 1 .. Len(S) + 1 : Unnumbered(T)[i] = Append(Unnumbered(S), u)[i]
  <2>. TAKE i \in 1 .. Len(S) + 1
  <2>1. CASE i \in 1 .. Len(S)
    BY <1>1, <1>2, <1>3, <2>1, UnnumberedParts, AppendProperties
  <2>2. CASE i = Len(S) + 1
    BY <1>1, <1>2, <1>3, <2>2, UnnumberedParts, AppendProperties DEF u
  <2>3. i \in 1 .. Len(S) \/ i = Len(S) + 1
    BY UnnumberedParts
  <2>. QED
    BY <2>1, <2>2, <2>3
<1>5. /\ Append(Unnumbered(S), u) \in Seq(MarketUpdates)
      /\ Len(Append(Unnumbered(S), u)) = Len(S) + 1
  BY <1>2, UnnumberedParts, AppendProperties
<1>. QED
  BY <1>3, <1>4, <1>5, SeqEqual DEF T, u

LEMMA UnnumberedTail ==
  ASSUME NEW S \in Seq(NumberedUpdates), S # << >>
  PROVE  /\ Unnumbered(Tail(S)) = Tail(Unnumbered(S)) /\ Unnumbered(S) # << >>
         /\ Head(Unnumbered(S)) = Head(S).me_market_update_
<1>. DEFINE T == Tail(S)
            U == Unnumbered(S)
<1>1. /\ T \in Seq(NumberedUpdates) /\ Len(S) = Len(T) + 1 /\ Len(T) \in Nat
      /\ \A i \in 1 .. Len(T) : T[i] = S[i + 1]
      /\ Head(S) = S[1]
  OBVIOUS
<1>2. /\ U \in Seq(MarketUpdates) /\ Len(U) = Len(S)
      /\ \A i \in 1 .. Len(S) : U[i] = S[i].me_market_update_
  BY UnnumberedParts
<1>. HIDE DEF T, U
<1>3. /\ U # << >> /\ Head(U) = U[1] /\ 1 \in 1 .. Len(S)
  BY <1>1, <1>2
<1>4. /\ Tail(U) \in Seq(MarketUpdates) /\ Len(Tail(U)) = Len(T)
      /\ \A i \in 1 .. Len(T) : Tail(U)[i] = U[i + 1] /\ i + 1 \in 1 .. Len(S)
  BY <1>1, <1>2, <1>3
<1>5. /\ Unnumbered(T) \in Seq(MarketUpdates) /\ Len(Unnumbered(T)) = Len(T)
      /\ \A i \in 1 .. Len(T) : Unnumbered(T)[i] = T[i].me_market_update_
  BY <1>1, UnnumberedParts
<1>6. \A i \in 1 .. Len(T) : Unnumbered(T)[i] = Tail(U)[i]
  BY <1>1, <1>2, <1>4, <1>5
<1>7. Unnumbered(T) = Tail(U)
  BY <1>4, <1>5, <1>6, SeqEqual
<1>. QED
  BY <1>1, <1>2, <1>3, <1>7 DEF T, U

(* The updates under way are a sequence of updates.                        *)
LEMMA PendingIsSeq ==
  ASSUME NumbersInv
  PROVE  /\ Pending = Unnumbered(snapshot_updates_) \o outgoing_market_data_
         /\ Pending \in Seq(MarketUpdates)
<1>1. Unnumbered(snapshot_updates_) \in Seq(MarketUpdates)
  BY UnnumberedParts DEF NumbersInv, NumberedUpdates
<1>2. Pending = Unnumbered(snapshot_updates_) \o outgoing_market_data_
  BY DEF Pending, Unnumbered
<1>. QED
  BY <1>1, <1>2 DEF NumbersInv

(* What the engine announces comes to the end of them.                     *)
LEMMA PendingGrows ==
  ASSUME NumbersInv, NEW us \in Seq(MarketUpdates), UNCHANGED snapshot_updates_,
         outgoing_market_data_' = outgoing_market_data_ \o us
  PROVE  Pending' = Pending \o us
<1>. DEFINE front == Unnumbered(snapshot_updates_)
            out   == outgoing_market_data_
<1>1. front \in Seq(MarketUpdates) /\ out \in Seq(MarketUpdates)
  BY UnnumberedParts DEF NumbersInv, NumberedUpdates
<1>2. Pending = front \o out
  BY PendingIsSeq
<1>3. Pending' = front \o (out \o us)
  BY DEF Pending, Unnumbered
<1>. HIDE DEF front, out
<1>. QED
  BY <1>1, <1>2, <1>3, ConcatAssociative, SMTT(30)

(* The publisher moves one from queue to queue.                            *)
LEMMA PendingMoves ==
  ASSUME NumbersInv, outgoing_market_data_ # << >>,
         snapshot_updates_' = Append(snapshot_updates_,
           [seq_num_ |-> next_seq_num_, me_market_update_ |-> Head(outgoing_market_data_)]),
         outgoing_market_data_' = Tail(outgoing_market_data_)
  PROVE  Pending' = Pending
<1>. DEFINE S     == snapshot_updates_
            out   == outgoing_market_data_
            h     == Head(out)
            e     == [seq_num_ |-> next_seq_num_, me_market_update_ |-> h]
            front == Unnumbered(S)
<1>1. /\ S \in Seq(NumberedUpdates) /\ out \in Seq(MarketUpdates) /\ h \in MarketUpdates
      /\ out = <<h>> \o Tail(out) /\ Tail(out) \in Seq(MarketUpdates)
  BY DEF NumbersInv, NumberedUpdates
<1>2. e \in NumberedUpdates /\ e.me_market_update_ = h
  BY <1>1 DEF NumbersInv, NumberedUpdates
<1>3. Unnumbered(Append(S, e)) = Append(front, h) /\ front \in Seq(MarketUpdates)
  BY <1>1, <1>2, UnnumberedAppend, UnnumberedParts
<1>4. Pending = front \o out
  BY PendingIsSeq
<1>5. Pending' = Unnumbered(Append(S, e)) \o Tail(out)
  BY DEF Pending, Unnumbered
<1>. HIDE DEF front, h, e, out
<1>6. Append(front, h) \o Tail(out) = front \o (<<h>> \o Tail(out))
  <2>1. Append(front, h) = front \o <<h>> /\ <<h>> \in Seq(MarketUpdates)
    BY <1>1, <1>3, AppendIsConcat
  <2>. QED
    BY <1>1, <1>3, <2>1, ConcatAssociative, SMTT(30)
<1>. QED
  BY <1>1, <1>3, <1>4, <1>5, <1>6

(* The synthetizer takes the first.                                        *)
LEMMA PendingShrinks ==
  ASSUME NumbersInv, snapshot_updates_ # << >>,
         snapshot_updates_' = Tail(snapshot_updates_), UNCHANGED outgoing_market_data_
  PROVE  /\ Pending # << >> /\ Pending' = Tail(Pending)
         /\ Head(Pending) = Head(snapshot_updates_).me_market_update_
<1>. DEFINE S     == snapshot_updates_
            out   == outgoing_market_data_
            front == Unnumbered(S)
<1>1. S \in Seq(NumberedUpdates) /\ out \in Seq(MarketUpdates)
  BY DEF NumbersInv, NumberedUpdates
<1>2. /\ front \in Seq(MarketUpdates) /\ front # << >>
      /\ Unnumbered(Tail(S)) = Tail(front)
      /\ Head(front) = Head(S).me_market_update_
  BY <1>1, UnnumberedParts, UnnumberedTail
<1>3. Pending = front \o out
  BY PendingIsSeq
<1>4. Pending' = Unnumbered(Tail(S)) \o out
  BY DEF Pending, Unnumbered
<1>. HIDE DEF front, out
<1>5. /\ front \o out # << >> /\ Tail(front \o out) = Tail(front) \o out
      /\ Head(front \o out) = Head(front)
  BY <1>1, <1>2
<1>. QED
  BY <1>2, <1>3, <1>4, <1>5

----------------------------------------------------------------------------
(* The invariant of the feed.                                              *)

(* IsPicture, with the pool, its orders and the other tickers' orders as   *)
(* parameters.                                                             *)
PictureWith(p, ord, live, others) ==
  /\ p \in Pictures
  /\ \A k \in Shown(p) : p[k].order_id_ = k
  /\ \A k \in others : p[k] = OtherUpdate("ADD", k)
  /\ Shown(p) = {ord[o].market_order_id_ : o \in live} \cup others
  /\ \A o \in live : LET u == p[ord[o].market_order_id_] IN
       /\ u.side_ = ord[o].side_
       /\ u.price_ = ord[o].price_
       /\ u.priority_ = ord[o].priority_
  /\ \A o \in live : p[ord[o].market_order_id_].qty_ >= ord[o].qty_

LEMMA PictureTerms ==
  ASSUME NEW p, NEW ord, NEW live, live = {o \in OrderCells : ord[o] # NULL},
         \A o \in live : ord[o].market_order_id_ \in Nat,
         NEW others \in SUBSET OtherOrders
  PROVE  IsPictureOf(p, ord, others) <=> PictureWith(p, ord, live, others)
<1>1. p \in Pictures => Shown(p) = {k \in Keys : p[k] # NULL}
  BY DEF Shown, Pictures
<1>2. \A k \in OtherOrders :
        OtherUpdate("ADD", k).order_id_ = k /\ OtherUpdate("ADD", k) # NULL
  <2>1. \A k \in OtherOrders : OtherUpdate("ADD", k) \in MarketUpdates
    BY DEF OtherUpdate, MEMarketUpdate, MarketUpdates
  <2>. QED
    BY <2>1, NullUpdate DEF OtherUpdate, MEMarketUpdate
<1>. HIDE DEF OtherUpdate
<1>3. ASSUME IsPictureOf(p, ord, others) PROVE PictureWith(p, ord, live, others)
  <2>1. Shown(p) = {ord[o].market_order_id_ : o \in live} \cup others
    <3>1. \A k \in Keys : p[k] # NULL <=>
            k \in others \/ \E o \in live : k = ord[o].market_order_id_
      BY <1>2, <1>3, OtherPlaces DEF IsPictureOf, Keys
    <3>2. \A o \in live : ord[o].market_order_id_ \in Keys
      BY <1>3, OtherPlaces DEF IsPictureOf
    <3>. QED
      BY <1>1, <1>3, <3>1, <3>2, OtherPlaces DEF IsPictureOf
  <2>2. \A k \in Shown(p) : p[k].order_id_ = k
    BY <1>1, <1>2, <1>3, OtherPlaces DEF IsPictureOf, Keys
  <2>. QED
    BY <1>2, <1>3, <2>1, <2>2 DEF IsPictureOf, PictureWith, Shows
<1>4. ASSUME PictureWith(p, ord, live, others) PROVE IsPictureOf(p, ord, others)
  <2>1. /\ p \in Pictures /\ \A k \in Shown(p) : p[k].order_id_ = k
        /\ Shown(p) = {ord[o].market_order_id_ : o \in live} \cup others
    BY <1>4 DEF PictureWith
  <2>2. \A k \in OtherOrders : p[k] = IF k \in others THEN OtherUpdate("ADD", k) ELSE NULL
    BY <1>1, <1>4, <2>1, OtherPlaces DEF PictureWith
  <2>3. \A i \in SnapshotIds : p[i] # NULL =>
          /\ p[i].order_id_ = i
          /\ \E o \in OrderCells : ord[o] # NULL /\ ord[o].market_order_id_ = i
    BY <1>1, <2>1, OtherPlaces
  <2>4. \A o \in OrderCells : ord[o] # NULL =>
          /\ ord[o].market_order_id_ \in SnapshotIds
          /\ p[ord[o].market_order_id_] # NULL
          /\ Shows(p[ord[o].market_order_id_], ord[o])
    BY <1>1, <1>4, <2>1, OtherPlaces DEF PictureWith, Shows, Keys
  <2>. QED
    BY <2>1, <2>2, <2>3, <2>4 DEF IsPictureOf
<1>. QED
  BY <1>3, <1>4

(* IsPicture is about the orders in the pool, before a step and after it.  *)
LEMMA PictureOfOrders ==
  /\ BookTypeOK => (IsPicture(CaughtUp) <=> IsPictureOf(CaughtUp, order, RestingElsewhere))
  /\ BookTypeOK' =>
       (IsPicture(CaughtUp)' <=> IsPictureOf(CaughtUp', order', RestingElsewhere'))
<1>1. /\ LiveOrders = {o \in OrderCells : order[o] # NULL}
      /\ LiveOrders' = {o \in OrderCells : order'[o] # NULL}
  BY DEF LiveOrders, FreeOrders
<1>2. IsPicture(CaughtUp) <=> PictureWith(CaughtUp, order, LiveOrders, RestingElsewhere)
  BY Zenon DEF IsPicture, ShowsBook, ShowsEveryShare, PictureWith
<1>3. IsPicture(CaughtUp)' <=> PictureWith(CaughtUp', order', LiveOrders', RestingElsewhere')
  BY Zenon DEF IsPicture, ShowsBook, ShowsEveryShare, PictureWith
<1>4. RestingElsewhere \in SUBSET OtherOrders /\ RestingElsewhere' \in SUBSET OtherOrders
  BY DEF RestingElsewhere
<1>5. BookTypeOK => \A o \in LiveOrders : order[o].market_order_id_ \in Nat
  BY <1>1, NullRecords DEF BookTypeOK, MEOrder
<1>6. BookTypeOK' => \A o \in LiveOrders' : order'[o].market_order_id_ \in Nat
  BY <1>1, NullRecords DEF BookTypeOK, MEOrder
<1>. QED
  BY <1>1, <1>2, <1>3, <1>4, <1>5, <1>6, PictureTerms

(* The synthetizer starts with an empty picture, the engine with an empty  *)
(* book.                                                                   *)
LEMMA FeedInitInv == FeedInit => FeedInv
<1>. SUFFICES ASSUME FeedInit PROVE FeedInv
  OBVIOUS
<1>1. /\ EngineInv /\ BookTypeOK /\ BookInv
      /\ pc = "idle" /\ incoming = NULL /\ \A o \in OrderCells : order[o] = NULL
  BY InitInv DEF FeedInit, Init, EngineInv, TypeOK
<1>2. NumbersInv
  <2>1. << >> \in Seq(MarketUpdates) /\ Len(<< >>) = 0
        /\ << >> \in Seq([seq_num_ : Nat, me_market_update_ : MarketUpdates])
    OBVIOUS
  <2>. QED
    BY <2>1 DEF NumbersInv, FeedInit
<1>3. Pending = << >>
  BY DEF FeedInit, Pending
<1>4. AllFit(ticker_order_to_update_, Pending)
  BY <1>3 DEF AllFit
<1>5. CaughtUp = ticker_order_to_update_
  BY <1>3, AppliedNone DEF CaughtUp
<1>6. IsPictureOf(CaughtUp, order, RestingElsewhere)
  <2>1. RestingElsewhere = {}
    BY DEF FeedInit, RestingElsewhere
  <2>. QED
    BY <1>1, <1>5, <2>1, OtherPlaces DEF FeedInit, IsPictureOf, Pictures
<1>7. other_orders \in [OtherOrders -> {"new", "resting", "gone"}]
  BY DEF FeedInit
<1>. QED
  BY <1>1, <1>2, <1>4, <1>6, <1>7, PictureOfOrders DEF FeedInv

(* One more update, which fits and which shows what the engine has done.   *)
LEMMA OneMoreUpdate ==
  ASSUME NEW us \in Seq(MarketUpdates), NEW u \in MarketUpdates, NEW picture, NEW ord, NEW ord2,
         NEW others, NEW others2, AllFit(picture, us),
         InRange(us) => IsPictureOf(FoldLeft(Applied, picture, us), ord, others),
         IsPictureOf(FoldLeft(Applied, picture, us), ord, others) =>
           /\ Fits(FoldLeft(Applied, picture, us), u)
           /\ ~OutOfRange(u) =>
                IsPictureOf(Applied(FoldLeft(Applied, picture, us), u), ord2, others2)
  PROVE  /\ AllFit(picture, Append(us, u))
         /\ InRange(Append(us, u)) =>
              IsPictureOf(FoldLeft(Applied, picture, Append(us, u)), ord2, others2)
BY AllFitAppend, InRangeAppend, AppliedLast

(* The engine: what it announces is what it does, so the picture at the    *)
(* end of the queues follows the book.                                     *)
LEMMA EngineStepInv ==
  ASSUME NoAlias, FeedInv, EngineStep
  PROVE  FeedInv'
<1>. DEFINE picture == ticker_order_to_update_
            p       == CaughtUp
<1>1. /\ Next /\ UNCHANGED <<next_seq_num_, snapshot_updates_, last_seq_num_>>
      /\ picture' = picture /\ outgoing_market_data_' = outgoing_market_data_ \o updates'
      /\ other_orders' = other_orders /\ RestingElsewhere' = RestingElsewhere
  BY DEF EngineStep, RestingElsewhere
<1>2. /\ NumbersInv /\ AllFit(picture, Pending) /\ Pending \in Seq(MarketUpdates)
      /\ CanCatchUp => IsPictureOf(p, order, RestingElsewhere)
  BY PendingIsSeq, PictureOfOrders DEF FeedInv
<1>3. /\ p = FoldLeft(Applied, picture, Pending)
      /\ CaughtUp' = FoldLeft(Applied, picture, Pending')
      /\ CanCatchUp <=> InRange(Pending)
      /\ CanCatchUp' <=> InRange(Pending')
  BY <1>1 DEF CaughtUp, CanCatchUp
<1>4. ASSUME updates' \in Seq(MarketUpdates)
      PROVE  NumbersInv' /\ Pending' = Pending \o updates'
  <2>1. outgoing_market_data_ \o updates' \in Seq(MarketUpdates)
    BY <1>2, <1>4 DEF NumbersInv
  <2>2. NumbersInv'
    BY <1>1, <1>2, <2>1 DEF NumbersInv
  <2>. QED
    BY <1>1, <1>2, <1>4, <2>2, PendingGrows
<1>5. ASSUME updates' = << >>, UNCHANGED order
      PROVE  /\ NumbersInv' /\ AllFit(picture, Pending')
             /\ CanCatchUp' => IsPictureOf(CaughtUp', order', RestingElsewhere')
  <2>1. Pending \o << >> = Pending /\ << >> \in Seq(MarketUpdates)
    BY <1>2
  <2>. QED
    BY <1>1, <1>2, <1>3, <1>4, <1>5, <2>1
<1>6. ASSUME NEW u \in MarketUpdates, updates' = <<u>>,
             IsPictureOf(p, order, RestingElsewhere) =>
               /\ Fits(p, u)
               /\ ~OutOfRange(u) => IsPictureOf(Applied(p, u), order', RestingElsewhere')
      PROVE  /\ NumbersInv' /\ AllFit(picture, Pending')
             /\ CanCatchUp' => IsPictureOf(CaughtUp', order', RestingElsewhere')
  <2>1. Pending \o <<u>> = Append(Pending, u) /\ <<u>> \in Seq(MarketUpdates)
    BY <1>2, AppendIsConcat
  <2>2. NumbersInv' /\ Pending' = Append(Pending, u)
    BY <1>4, <1>6, <2>1
  <2>. QED
    BY <1>2, <1>3, <1>6, <2>2, OneMoreUpdate
<1>7. ASSUME NEW t \in MarketUpdates, NEW u \in MarketUpdates, updates' = <<t, u>>,
             ~OutOfRange(t), Fits(p, t), Applied(p, t) = p,
             IsPictureOf(p, order, RestingElsewhere) =>
               /\ Fits(p, u)
               /\ ~OutOfRange(u) => IsPictureOf(Applied(p, u), order', RestingElsewhere')
      PROVE  /\ NumbersInv' /\ AllFit(picture, Pending')
             /\ CanCatchUp' => IsPictureOf(CaughtUp', order', RestingElsewhere')
  <2>. DEFINE w == Append(Pending, t)
  <2>1. /\ Pending \o <<t, u>> = Append(w, u) /\ <<t, u>> \in Seq(MarketUpdates)
        /\ w \in Seq(MarketUpdates)
    BY <1>2
  <2>2. NumbersInv' /\ Pending' = Append(w, u)
    BY <1>4, <1>7, <2>1
  <2>3. /\ AllFit(picture, w)
        /\ InRange(w) <=> InRange(Pending)
        /\ FoldLeft(Applied, picture, w) = p
    BY <1>2, <1>3, <1>7, AllFitAppend, InRangeAppend, AppliedLast
  <2>. HIDE DEF w, p
  <2>. QED
    BY <1>2, <1>3, <1>7, <2>1, <2>2, <2>3, OneMoreUpdate
<1>8. CASE pc = "aborted"
  <2>1. UNCHANGED vars /\ updates' = << >>
    BY <1>1, <1>8 DEF FeedInv, Next, NewRequest, NewOrder, CancelRequest, CancelRejected, Cancel,
       Add, Match, CanMatch, FullyFilled, RestAtLevel, RestOnEmptySide, StartSearch, SearchOn,
       RestInNewLevel, OpenLevel, Resting, Abort, NoRoom, Aborted, vars, flowVars
  <2>2. /\ NumbersInv' /\ AllFit(picture, Pending')
        /\ CanCatchUp' => IsPictureOf(CaughtUp', order', RestingElsewhere')
    BY <1>5, <2>1 DEF vars, bookVars, orderVars
  <2>3. BookTypeOK' /\ BookInv'
    BY <2>1, BookUnchanged DEF FeedInv, vars
  <2>. QED
    BY <1>1, <1>8, <2>1, <2>2, <2>3, PictureOfOrders DEF FeedInv, vars, flowVars
<1>9. CASE pc # "aborted"
  <2>1. EngineInv /\ LeftInv
    BY <1>9 DEF FeedInv, LeftInv
  <2>2. EngineInv' /\ BookTypeOK' /\ BookInv'
    BY <1>1, <2>1, NextInv DEF EngineInv, TypeOK
  <2>3. /\ LeftInv'
        /\ pc' = "aborted" => updates' = << >>
        /\ NumbersInv' /\ AllFit(picture, Pending')
        /\ CanCatchUp' => IsPictureOf(CaughtUp', order', RestingElsewhere')
    <3>. HIDE DEF p
    <3>. QED
      BY <1>1, <1>5, <1>6, <1>7, <1>9, <2>1, StepAnnounces
  <2>. QED
    BY <1>1, <2>2, <2>3, PictureOfOrders DEF FeedInv, LeftInv
<1>. QED
  BY <1>8, <1>9

(* Another ticker: its order comes into the picture, or goes from it, and  *)
(* this book's orders stay in it as they are.                              *)
LEMMA OtherShown ==
  ASSUME NEW p, NEW ord, NEW others, NEW others2, IsPictureOf(p, ord, others),
         NEW k \in OtherOrders, NEW u,
         \/ k \notin others /\ others2 = others \cup {k} /\ u = OtherUpdate("ADD", k)
         \/ k \in others /\ others2 = others \ {k} /\ u = OtherUpdate("CANCEL", k)
  PROVE  /\ u \in MarketUpdates /\ ~OutOfRange(u) /\ Fits(p, u)
         /\ IsPictureOf(Applied(p, u), ord, others2)
<1>1. /\ u \in MarketUpdates /\ u.order_id_ = k /\ u.side_ = NULL
      /\ (k \notin others /\ u.type_ = "ADD") \/ (k \in others /\ u.type_ = "CANCEL")
  BY DEF OtherUpdate, MEMarketUpdate, MarketUpdates
<1>2. k \in Keys /\ k \notin SnapshotIds /\ DOMAIN p = Keys /\ p \in Pictures
  BY OtherPlaces DEF IsPictureOf, Pictures
<1>3. p[k] = IF k \in others THEN OtherUpdate("ADD", k) ELSE NULL
  BY DEF IsPictureOf
<1>4. ASSUME k \in others
      PROVE  p[k] # NULL /\ p[k].order_id_ = k /\ p[k].side_ = NULL
  <2>1. OtherUpdate("ADD", k) \in MarketUpdates
    BY DEF OtherUpdate, MEMarketUpdate, MarketUpdates
  <2>. QED
    BY <1>3, <1>4, <2>1, NullUpdate DEF OtherUpdate, MEMarketUpdate
<1>5. ~OutOfRange(u) /\ Fits(p, u)
  BY <1>1, <1>2, <1>3, <1>4 DEF OutOfRange, Fits, Shown
<1>. DEFINE new == Applied(p, u)
            e   == IF k \in others THEN NULL ELSE u
<1>6. new = [p EXCEPT ![k] = e]
  BY <1>1 DEF Applied
<1>7. new \in Pictures
  BY <1>1, <1>2, <1>6 DEF Pictures
<1>8. /\ \A i \in Keys : i # k => new[i] = p[i]
      /\ new[k] = e
  BY <1>2, <1>6 DEF Pictures
<1>. HIDE DEF new
<1>9. \A j \in OtherOrders : new[j] = IF j \in others2 THEN OtherUpdate("ADD", j) ELSE NULL
  BY <1>1, <1>8, OtherPlaces DEF IsPictureOf
<1>10. \A i \in SnapshotIds : new[i] = p[i]
  BY <1>2, <1>8, OtherPlaces
<1>11. IsPictureOf(new, ord, others2)
  BY <1>7, <1>9, <1>10 DEF IsPictureOf
<1>. QED
  BY <1>1, <1>5, <1>11 DEF new

LEMMA OtherTickerInv ==
  ASSUME FeedInv, NEW k \in OtherOrders, OtherTicker(k)
  PROVE  FeedInv'
<1>. DEFINE picture == ticker_order_to_update_
            others    == RestingElsewhere
            others2   == RestingElsewhere'
            p       == CaughtUp
<1>1. /\ pc # "aborted" /\ UNCHANGED vars
      /\ UNCHANGED <<next_seq_num_, snapshot_updates_, last_seq_num_>> /\ picture' = picture
  BY DEF OtherTicker
<1>2. /\ EngineInv' /\ BookTypeOK' /\ BookInv'
      /\ pc' # "aborted" /\ order' = order /\ incoming' = incoming
  BY <1>1, StutterInv DEF FeedInv, EngineInv, TypeOK, vars, bookVars, orderVars, flowVars
<1>3. PICK u \in MarketUpdates :
        /\ outgoing_market_data_' = Append(outgoing_market_data_, u)
        /\ \/ k \notin others /\ others2 = others \cup {k} /\ u = OtherUpdate("ADD", k)
           \/ k \in others /\ others2 = others \ {k} /\ u = OtherUpdate("CANCEL", k)
  <2>1. OtherUpdate("ADD", k) \in MarketUpdates /\ OtherUpdate("CANCEL", k) \in MarketUpdates
    BY DEF OtherUpdate, MEMarketUpdate, MarketUpdates
  <2>2. other_orders \in [OtherOrders -> {"new", "resting", "gone"}]
    BY DEF FeedInv
  <2>. QED
    BY <2>1, <2>2 DEF OtherTicker, RestingElsewhere
<1>4. other_orders' \in [OtherOrders -> {"new", "resting", "gone"}]
  BY DEF FeedInv, OtherTicker
<1>5. /\ NumbersInv /\ AllFit(picture, Pending) /\ Pending \in Seq(MarketUpdates)
      /\ CanCatchUp => IsPictureOf(p, order, others)
  BY PendingIsSeq, PictureOfOrders DEF FeedInv
<1>6. /\ p = FoldLeft(Applied, picture, Pending)
      /\ CaughtUp' = FoldLeft(Applied, picture, Pending')
      /\ CanCatchUp <=> InRange(Pending)
      /\ CanCatchUp' <=> InRange(Pending')
  BY <1>1 DEF CaughtUp, CanCatchUp
<1>7. outgoing_market_data_ \in Seq(MarketUpdates) /\ <<u>> \in Seq(MarketUpdates)
      /\ outgoing_market_data_' = outgoing_market_data_ \o <<u>>
  BY <1>3, <1>5, AppendIsConcat DEF NumbersInv
<1>8. NumbersInv'
  BY <1>1, <1>3, <1>5 DEF NumbersInv
<1>9. Pending' = Append(Pending, u)
  <2>1. Pending' = Pending \o <<u>>
    BY <1>1, <1>5, <1>7, PendingGrows
  <2>. QED
    BY <1>5, <2>1, AppendIsConcat
<1>. HIDE DEF p, others, others2
<1>10. IsPictureOf(p, order, others) => Fits(p, u) /\ IsPictureOf(Applied(p, u), order, others2)
  BY <1>3, OtherShown
<1>11. /\ AllFit(picture, Pending')
       /\ CanCatchUp' => IsPictureOf(CaughtUp', order', others2)
  BY <1>2, <1>5, <1>6, <1>9, <1>10, OneMoreUpdate
<1>. QED
  BY <1>1, <1>2, <1>4, <1>8, <1>11, PictureOfOrders DEF FeedInv, others2

(* The publisher: the same updates are under way, the numbers run on.      *)
LEMMA PublishInv ==
  ASSUME FeedInv, Publish
  PROVE  FeedInv'
<1>. DEFINE e == [seq_num_ |-> next_seq_num_, me_market_update_ |-> Head(outgoing_market_data_)]
            S == snapshot_updates_
<1>1. /\ pc # "aborted" /\ UNCHANGED vars /\ outgoing_market_data_ # << >>
      /\ S' = Append(S, e) /\ outgoing_market_data_' = Tail(outgoing_market_data_)
      /\ next_seq_num_' = next_seq_num_ + 1
      /\ last_seq_num_' = last_seq_num_ /\ ticker_order_to_update_' = ticker_order_to_update_
      /\ other_orders' = other_orders /\ RestingElsewhere' = RestingElsewhere
  BY DEF Publish, RestingElsewhere
<1>2. /\ EngineInv' /\ BookTypeOK' /\ BookInv'
      /\ pc' # "aborted" /\ order' = order /\ incoming' = incoming
  BY <1>1, StutterInv DEF FeedInv, EngineInv, TypeOK, vars, bookVars, orderVars, flowVars
<1>3. NumbersInv'
  <2>1. /\ outgoing_market_data_ \in Seq(MarketUpdates) /\ last_seq_num_ \in Nat
        /\ S \in Seq([seq_num_ : Nat, me_market_update_ : MarketUpdates])
        /\ next_seq_num_ = last_seq_num_ + Len(S) + 1
        /\ \A i \in 1 .. Len(S) : S[i].seq_num_ = last_seq_num_ + i
    BY DEF FeedInv, NumbersInv
  <2>2. /\ Head(outgoing_market_data_) \in MarketUpdates
        /\ Tail(outgoing_market_data_) \in Seq(MarketUpdates)
    BY <1>1, <2>1
  <2>3. e \in [seq_num_ : Nat, me_market_update_ : MarketUpdates] /\ e.seq_num_ = next_seq_num_
    BY <2>1, <2>2
  <2>. HIDE DEF e
  <2>4. /\ Append(S, e) \in Seq([seq_num_ : Nat, me_market_update_ : MarketUpdates])
        /\ Len(Append(S, e)) = Len(S) + 1 /\ Append(S, e)[Len(S) + 1] = e
        /\ \A i \in 1 .. Len(S) : Append(S, e)[i] = S[i]
    BY <2>1, <2>3, AppendParts
  <2>5. \A i \in 1 .. Len(S) + 1 : Append(S, e)[i].seq_num_ = last_seq_num_ + i
    <3>. TAKE i \in 1 .. Len(S) + 1
    <3>1. CASE i = Len(S) + 1
      BY <2>1, <2>3, <2>4, <3>1
    <3>2. CASE i \in 1 .. Len(S)
      BY <2>1, <2>4, <3>2
    <3>. QED
      BY <2>1, <3>1, <3>2
  <2>6. next_seq_num_' = last_seq_num_' + Len(S') + 1
    BY <1>1, <2>1, <2>4
  <2>. QED
    BY <1>1, <2>1, <2>2, <2>4, <2>5, <2>6 DEF NumbersInv
<1>4. Pending' = Pending
  BY <1>1, PendingMoves DEF FeedInv
<1>5. CaughtUp' = CaughtUp /\ CanCatchUp' = CanCatchUp
  BY <1>1, <1>4 DEF CaughtUp, CanCatchUp
<1>. QED
  BY <1>1, <1>2, <1>3, <1>4, <1>5, PictureOfOrders DEF FeedInv

(* The synthetizer: an update moves from the queue into the picture.       *)
LEMMA AddSnapShotInv ==
  ASSUME FeedInv, addSnapShot
  PROVE  FeedInv'
<1>. DEFINE S       == snapshot_updates_
            h       == Head(S)
            picture == ticker_order_to_update_
<1>1. /\ pc # "aborted" /\ UNCHANGED vars /\ S # << >>
      /\ ~OutOfRange(h.me_market_update_)
      /\ other_orders' = other_orders /\ RestingElsewhere' = RestingElsewhere
      /\ picture' = Applied(picture, h.me_market_update_)
      /\ last_seq_num_' = h.seq_num_ /\ S' = Tail(S)
      /\ outgoing_market_data_' = outgoing_market_data_ /\ next_seq_num_' = next_seq_num_
  BY DEF addSnapShot, Fatal, RestingElsewhere
<1>2. /\ EngineInv' /\ BookTypeOK' /\ BookInv'
      /\ pc' # "aborted" /\ order' = order /\ incoming' = incoming
  BY <1>1, StutterInv DEF FeedInv, EngineInv, TypeOK, vars, bookVars, orderVars, flowVars
<1>3. NumbersInv'
  <2>1. /\ outgoing_market_data_ \in Seq(MarketUpdates) /\ last_seq_num_ \in Nat
        /\ S \in Seq([seq_num_ : Nat, me_market_update_ : MarketUpdates])
        /\ next_seq_num_ = last_seq_num_ + Len(S) + 1
        /\ \A i \in 1 .. Len(S) : S[i].seq_num_ = last_seq_num_ + i
    BY DEF FeedInv, NumbersInv
  <2>2. /\ Tail(S) \in Seq([seq_num_ : Nat, me_market_update_ : MarketUpdates])
        /\ Len(S) = Len(Tail(S)) + 1 /\ Len(Tail(S)) \in Nat /\ h = S[1]
        /\ \A i \in 1 .. Len(Tail(S)) : Tail(S)[i] = S[i + 1]
    BY <1>1, <2>1
  <2>. HIDE DEF h
  <2>3. h.seq_num_ = last_seq_num_ + 1
    BY <2>1, <2>2
  <2>4. \A i \in 1 .. Len(Tail(S)) : Tail(S)[i].seq_num_ = (last_seq_num_ + 1) + i
    <3>. TAKE i \in 1 .. Len(Tail(S))
    <3>1. i + 1 \in 1 .. Len(S) /\ Tail(S)[i] = S[i + 1]
      BY <2>2
    <3>. QED
      BY <2>1, <3>1
  <2>. QED
    BY <1>1, <2>1, <2>2, <2>3, <2>4 DEF NumbersInv
<1>4. /\ Pending # << >> /\ Pending' = Tail(Pending) /\ Pending \in Seq(MarketUpdates)
      /\ Head(Pending) = h.me_market_update_
  BY <1>1, PendingShrinks, PendingIsSeq DEF FeedInv
<1>. HIDE DEF h
<1>5. AllFit(picture', Pending')
  BY <1>1, <1>4, AllFitTail DEF FeedInv
<1>6. CaughtUp' = CaughtUp
  BY <1>1, <1>4, AppliedFirst DEF CaughtUp
<1>7. CanCatchUp' <=> CanCatchUp
  BY <1>1, <1>4, InRangeTail DEF CanCatchUp
<1>. QED
  BY <1>1, <1>2, <1>3, <1>5, <1>6, <1>7, PictureOfOrders DEF FeedInv

(* The process is gone: nothing moves any more.                            *)
LEMMA AddSnapShotAbortsInv ==
  ASSUME FeedInv, addSnapShotAborts
  PROVE  FeedInv'
<1>1. /\ pc' = "aborted" /\ updates' = << >> /\ UNCHANGED <<bookVars, incoming, feedVars>>
  BY DEF addSnapShotAborts
<1>2. BookTypeOK' /\ BookInv' /\ order' = order
  BY <1>1, BookUnchanged DEF FeedInv
<1>3. /\ NumbersInv' /\ Pending' = Pending /\ ticker_order_to_update_' = ticker_order_to_update_
      /\ other_orders' = other_orders /\ RestingElsewhere' = RestingElsewhere
  BY <1>1 DEF FeedInv, feedVars, NumbersInv, Pending, RestingElsewhere
<1>4. CaughtUp' = CaughtUp /\ CanCatchUp' = CanCatchUp
  BY <1>3 DEF CaughtUp, CanCatchUp
<1>. QED
  BY <1>1, <1>2, <1>3, <1>4, PictureOfOrders DEF FeedInv

LEMMA FeedStutterInv ==
  ASSUME FeedInv, UNCHANGED <<vars, feedVars>>
  PROVE  FeedInv'
<1>1. UNCHANGED vars /\ UNCHANGED feedVars /\ UNCHANGED bookVars
      /\ pc' = pc /\ updates' = updates /\ incoming' = incoming
  BY DEF vars, flowVars
<1>2. pc # "aborted" => EngineInv'
  BY <1>1, StutterInv DEF FeedInv
<1>3. BookTypeOK' /\ BookInv' /\ order' = order
  BY <1>1, BookUnchanged DEF FeedInv
<1>4. /\ NumbersInv' /\ Pending' = Pending /\ ticker_order_to_update_' = ticker_order_to_update_
      /\ other_orders' = other_orders /\ RestingElsewhere' = RestingElsewhere
  BY <1>1 DEF FeedInv, feedVars, NumbersInv, Pending, RestingElsewhere
<1>5. CaughtUp' = CaughtUp /\ CanCatchUp' = CanCatchUp
  BY <1>4 DEF CaughtUp, CanCatchUp
<1>. QED
  BY <1>1, <1>2, <1>3, <1>4, <1>5, PictureOfOrders DEF FeedInv

----------------------------------------------------------------------------
(* The theorems.                                                           *)

(* The invariant of the feed holds in every interleaving of the matching   *)
(* engine, the publisher and the synthetizer, however far one lags behind. *)
THEOREM FeedInvariant ==
  ASSUME NoAlias
  PROVE  FeedSpec => []FeedInv
<1>1. FeedInv /\ [FeedNext]_<<vars, feedVars>> => FeedInv'
  BY EngineStepInv, OtherTickerInv, PublishInv, AddSnapShotInv, AddSnapShotAbortsInv,
     FeedStutterInv DEF FeedNext
<1>. QED
  BY <1>1, FeedInitInv, PTL DEF FeedSpec

(* None of the ASSERTs of SnapshotSynthetizer::addSnapShot ever fires:     *)
(* each update comes with the next number, and meets the picture the       *)
(* engine had when it sent it.                                             *)
THEOREM SynthetizerAsserts ==
  ASSUME NoAlias
  PROVE  FeedSpec => []AssertsHold
<1>1. ASSUME FeedInv, snapshot_updates_ # << >>
      PROVE  /\ Head(snapshot_updates_).seq_num_ = last_seq_num_ + 1
             /\ Fits(ticker_order_to_update_, Head(snapshot_updates_).me_market_update_)
  <2>. DEFINE S == snapshot_updates_
              u == Head(S).me_market_update_
  <2>1. /\ S \in Seq([seq_num_ : Nat, me_market_update_ : MarketUpdates])
        /\ \A i \in 1 .. Len(S) : S[i].seq_num_ = last_seq_num_ + i
        /\ outgoing_market_data_ \in Seq(MarketUpdates)
        /\ AllFit(ticker_order_to_update_, Pending)
    BY <1>1 DEF FeedInv, NumbersInv
  <2>2. Len(S) \in Nat /\ 1 \in 1 .. Len(S) /\ Head(S) = S[1]
    BY <1>1, <2>1
  <2>3. Pending \in Seq(MarketUpdates) /\ Pending # << >> /\ Pending[1] = u
    <3>1. Unnumbered(S) \in Seq(MarketUpdates) /\ Unnumbered(S) # << >>
          /\ Head(Unnumbered(S)) = u
      BY <1>1, <2>1, UnnumberedParts, UnnumberedTail DEF NumberedUpdates
    <3>2. Pending = Unnumbered(S) \o outgoing_market_data_
      BY <1>1, PendingIsSeq DEF FeedInv
    <3>. HIDE DEF u
    <3>. QED
      BY <2>1, <3>1, <3>2
  <2>4. 1 \in 1 .. Len(Pending) /\ SubSeq(Pending, 1, 1 - 1) = << >>
    BY <2>3
  <2>5. Fits(FoldLeft(Applied, ticker_order_to_update_, << >>), Pending[1])
    <3>1. InRange(<< >>)
      BY DEF InRange
    <3>. QED
      BY <2>1, <2>4, <3>1 DEF AllFit
  <2>. QED
    BY <2>1, <2>2, <2>3, <2>5, AppliedNone
<1>2. FeedInv => AssertsHold
  BY <1>1 DEF AssertsHold
<1>. QED
  BY <1>2, FeedInvariant, PTL

(* The picture, with the updates on their way to it, is the engine's book: *)
(* the same orders with the same side, price and priority.                 *)
THEOREM PictureOfTheBook ==
  ASSUME NoAlias
  PROVE  FeedSpec => []PictureIsBook
<1>1. FeedInv => PictureIsBook
  BY DEF FeedInv, PictureIsBook, IsPicture
<1>. QED
  BY <1>1, FeedInvariant, PTL

(* The picture never shows fewer shares of an order than the book has.     *)
THEOREM EveryShareShown ==
  ASSUME NoAlias
  PROVE  FeedSpec => []NoSharesHidden
<1>1. FeedInv => NoSharesHidden
  BY DEF FeedInv, NoSharesHidden, IsPicture
<1>. QED
  BY <1>1, FeedInvariant, PTL
============================================================================
