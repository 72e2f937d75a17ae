---------------------------- MODULE BitassetMarket ----------------------------
(***************************************************************************)
(* The market of one bitasset ("usd") against the core asset that backs    *)
(* it: limit orders, margin positions, price feeds, margin calls, forced   *)
(* settlement, and global settlement with what follows it (db_market.cpp,  *)
(* market_evaluator.cpp, asset_evaluator.cpp), at the end of a block too   *)
(* (db_update.cpp, db_maint.cpp).  All hard forks of the market are past.  *)
(*                                                                         *)
(* An operation works on a copy s of the state, as in its undo session.    *)
(* s.err tells whether it threw; a read through an iterator to a removed   *)
(* object is "undefined", and the process is taken to end there.           *)
(*                                                                         *)
(* A price is a pair <<base amount, quote amount>>.                        *)
(***************************************************************************)
EXTENDS Integers, Sequences, FiniteSets, FiniteSetsExt, SequencesExt

CONSTANTS
  Accounts,
  Issuer,          \* issuer of the bitasset
  ProducerSets,    \* the sets of feed producers the issuer may choose
  Null,            \* no price
  Core,            \* Core[a]: core asset of account a at the start
  Offers,          \* limit orders: <<asset, amount_to_sell, min_to_receive>>
  Deltas,          \* margin updates: <<delta_collateral, delta_debt>>
  Bids,            \* bids: <<additional_collateral, debt_covered>>
  Prices,          \* settlement prices of feeds, <<usd, core>>; may have Null
  SwanPrices,      \* prices the issuer may settle the bitasset at
  MCR,             \* maintenance_collateral_ratio, percent
  MSSR,            \* maximum_short_squeeze_ratio, percent
  FeePercent,      \* market_fee_percent of the bitasset
  MaxMarketFee,    \* max_market_fee of the bitasset
  CreateFee,       \* fee for limit_order_create
  CancelFee,       \* fee for limit_order_cancel
  MinimumFeeds,    \* minimum_feeds
  FeedLifetime,    \* feed_lifetime_sec, in blocks
  OrderLifetime,   \* blocks until a limit order expires
  SettlementDelay, \* force_settlement_delay_sec, in blocks
  SettlementOffset,\* force_settlement_offset_percent
  SettlementMax,   \* maximum_force_settlement_volume, percent
  MaintenanceEvery,\* blocks between maintenances
  Producers,       \* the feed producers at the start
  SettleAmounts,   \* amounts for forced settlement
  MaxOrders,       \* bound: limit orders on the book
  MaxOps,          \* bound: operations
  MaxBlocks        \* bound: blocks

Assets == {"core", "usd"}

ASSUME MarketAssumption ==
  /\ Issuer \in Accounts /\ Core \in [Accounts -> Nat] /\ SettleAmounts \subseteq Nat
  /\ Offers \subseteq Assets \X (Nat \ {0}) \X (Nat \ {0})
  /\ Deltas \subseteq (Int \X Int) \ {<<0, 0>>}
  /\ \A b \in Bids : b[2] = 0 \/ (b[1] > 0 /\ b[2] > 0)  \* bid_collateral_operation::validate
  /\ Prices \ {Null} \subseteq (Nat \ {0}) \X (Nat \ {0})
  /\ \A p, q \in Prices \ {Null} : p # q => p[1] * q[2] # q[1] * p[2]
  /\ SwanPrices \subseteq (Nat \ {0}) \X (Nat \ {0})
  /\ MCR > 100 /\ MSSR > 100                    \* price_feed::validate
  /\ {FeePercent, SettlementOffset, SettlementMax} \subseteq 0..100
  /\ MinimumFeeds >= 1 /\ FeedLifetime >= 1 /\ MaintenanceEvery >= 1

VARIABLES
  now,       \* head_block_time(), in blocks
  bal,       \* bal[a][x]: balance of account a in asset x
  in_orders, \* in_orders[a]: total_core_in_orders of a's statistics
  paid,      \* fees paid to the network
  limits,    \* limit_order_objects
  calls,     \* call_order_objects; cp is the <<collateral, debt>> of call_price
  settles,   \* force_settlement_objects
  bids,      \* collateral_bid_objects
  supply,    \* current_supply of the bitasset
  fees,      \* accumulated_fees of the bitasset
  swan,      \* settlement_price, Null if there was no global settlement
  fund,      \* settlement_fund
  volume,    \* force_settled_volume
  feeds,     \* feeds[p]: the time and price p has published, or Null
  feed,      \* settlement price of current_feed
  feed_time, \* current_feed_publication_time
  broken,    \* the process has read a removed object
  ops        \* operations so far

book == <<bal, in_orders, paid, limits, calls, settles, bids, supply, fees, swan, fund, volume>>
vars == <<now, book, feeds, feed, feed_time, broken, ops>>

State ==
  [now |-> now, bal |-> bal, in_orders |-> in_orders, paid |-> paid, limits |-> limits,
   calls |-> calls, settles |-> settles, bids |-> bids, supply |-> supply, fees |-> fees,
   swan |-> swan, fund |-> fund, volume |-> volume, feeds |-> feeds, feed |-> feed,
   feed_time |-> feed_time, err |-> ""]

Throw(s) == [s EXCEPT !.err = IF @ = "" THEN "throw" ELSE @]
Ensure(s, cond) == IF cond THEN s ELSE Throw(s)

(***************************************************************************)
(* Prices and orders                                                       *)
(***************************************************************************)

Less(p, q) == p[1] * q[2] < q[1] * p[2]
Inv(p) == <<p[2], p[1]>>

\* operator* of an amount of the base asset: the quotient is rounded down.
Times(amount, p) == (amount * p[2]) \div p[1]

Other(asset) == IF asset = "core" THEN "usd" ELSE "core"

amount_to_receive(o) == Times(o.for_sale, o.sell_price)

\* price::call_price inverted: usd per core at which the position is called.
call_price(c) == <<c.cp[2] * MCR, c.cp[1] * 100>>

max_short_squeeze_price(p) == <<p[1] * 100, p[2] * MSSR>>

NewId(objects) == Max({0} \cup {o.id : o \in objects}) + 1
Find(objects, id) == CHOOSE o \in objects : o.id = id
Ids(objects) == {o.id : o \in objects}
Change(objects, o, new) == (objects \ {o}) \cup {new}

\* Index by_price of the limit orders: the best price first, then the oldest.
ByPrice(orders) ==
  SetToSortSeq(orders, LAMBDA o, p : \/ Less(p.sell_price, o.sell_price)
                                     \/ ~Less(o.sell_price, p.sell_price) /\ o.id < p.id)

\* Index by_price of the margin positions: the first to be called first.
ByCallPrice(positions) ==
  SetToSortSeq(positions, LAMBDA c, d : \/ Less(c.cp, d.cp)
                                        \/ ~Less(d.cp, c.cp) /\ c.id < d.id)

\* Index by_collateral: the least collateralized position.
LeastCollateralized(positions) ==
  LET ratio(c) == <<c.collateral, c.debt>>
  IN CHOOSE c \in positions : \A d \in positions :
       \/ Less(ratio(c), ratio(d))
       \/ ~Less(ratio(d), ratio(c)) /\ c.id <= d.id

\* Index by_price of the bids: the most collateral per debt first.
ByInvSwanPrice(bs) ==
  SetToSortSeq(bs, LAMBDA b, c : \/ Less(c.inv_swan_price, b.inv_swan_price)
                                 \/ ~Less(b.inv_swan_price, c.inv_swan_price) /\ b.id < c.id)

Selling(s, asset) == {o \in s.limits : o.sells = asset}

(***************************************************************************)
(* Filling and cancelling orders                                           *)
(***************************************************************************)

calculate_market_fee(asset, amount) ==
  IF asset = "core" THEN 0 ELSE Min({(amount * FeePercent) \div 100, MaxMarketFee})

\* cancel_order of a limit order.
cancel_limit_order(s, o) ==
  [s EXCEPT !.bal[o.seller] = [@ EXCEPT ![o.sells] = @ + o.for_sale, !["core"] = @ + o.deferred_fee],
            !.in_orders[o.seller] = @ - (IF o.sells = "core" THEN o.for_sale ELSE 0),
            !.limits = @ \ {o}]

maybe_cull_small_order(s, id) ==
  LET o == Find(s.limits, id)
  IN IF amount_to_receive(o) = 0 THEN cancel_limit_order(s, o) ELSE s

\* fill_order of a limit order, with the market fee and pay_order.
fill_limit_order(s, o, pays, receives, cull_if_small) ==
  LET asset == Other(o.sells)
      fee == calculate_market_fee(asset, receives)
      rest == [o EXCEPT !.for_sale = @ - pays, !.deferred_fee = 0]
      filled == pays = o.for_sale
      t == [s EXCEPT !.bal[o.seller][asset] = @ + receives - fee,
                     !.fees = @ + fee,
                     !.in_orders[o.seller] = @ - (IF o.sells = "core" THEN pays ELSE 0),
                     !.paid = @ + o.deferred_fee,
                     !.limits = IF filled THEN @ \ {o} ELSE Change(@, o, rest)]
  IN IF ~filled /\ cull_if_small THEN maybe_cull_small_order(t, o.id) ELSE t

\* fill_order of a margin position; collateral left when the debt is paid is freed.
fill_call_order(s, c, pays, receives) ==
  LET rest == [c EXCEPT !.debt = @ - receives, !.collateral = @ - pays]
      filled == rest.debt = 0
      t == [s EXCEPT !.supply = @ - receives,
                     !.in_orders[c.borrower] = @ - (IF filled THEN c.collateral ELSE pays),
                     !.bal[c.borrower]["core"] = @ + (IF filled THEN rest.collateral ELSE 0),
                     !.calls = IF filled THEN @ \ {c} ELSE Change(@, c, rest)]
  IN Ensure(t, c.collateral >= pays)

\* cancel_order of a forced settlement.
cancel_settlement(s, o) ==
  [s EXCEPT !.bal[o.owner]["usd"] = @ + o.balance, !.settles = @ \ {o}]

\* fill_order of a forced settlement; its owner receives core.
fill_settlement(s, o, pays, receives) ==
  [s EXCEPT !.bal[o.owner]["core"] = @ + receives,
            !.settles = IF pays < o.balance THEN Change(@, o, [o EXCEPT !.balance = @ - pays])
                        ELSE @ \ {o}]

cancel_bid(s, b) ==
  [s EXCEPT !.bal[b.bidder]["core"] = @ + b.inv_swan_price[1], !.bids = @ \ {b}]

(***************************************************************************)
(* Global settlement and revival                                           *)
(***************************************************************************)

\* What a position pays at the settlement price <<usd, core>>.
SwanPays(c, p) == Min({Times(c.debt, p), c.collateral})

\* All positions pay at p and are closed.
CloseAll(s, p) ==
  FoldSeq(LAMBDA c, t : fill_call_order(t, c, SwanPays(c, p), c.debt), s, ByCallPrice(s.calls))

collateral_gathered(s, p) == MapThenSumSet(LAMBDA c : SwanPays(c, p), s.calls)

\* Mutant: the supply stays as the closed positions leave it.
SupplyNotRestored(t, s, p) ==
  [t EXCEPT !.swan = <<s.supply, collateral_gathered(s, p)>>, !.fund = collateral_gathered(s, p)]

\* Mutant: the settlement price is the one given, whatever was gathered.
SettledAtGivenPrice(t, s, p) ==
  [t EXCEPT !.swan = p, !.fund = collateral_gathered(s, p), !.supply = s.supply]

\* What was gathered is the fund, and the supply is put back to what it was.
SettledFrom(t, s, p) ==
  [t EXCEPT !.swan = <<s.supply, collateral_gathered(s, p)>>, !.fund = collateral_gathered(s, p),
            !.supply = s.supply]

globally_settle_asset(s, p) == Ensure(SettledFrom(CloseAll(s, p), s, p), s.swan = Null)

\* execute_bid: the bidder takes over debt with collateral of the fund.
execute_bid(s, b, debt, from_fund) ==
  LET collateral == b.inv_swan_price[1] + from_fund
      c == [id |-> NewId(s.calls), borrower |-> b.bidder, collateral |-> collateral,
            debt |-> debt, cp |-> <<collateral, debt>>]
  IN [s EXCEPT !.calls = @ \cup {c}, !.in_orders[b.bidder] = @ + collateral, !.bids = @ \ {b}]

_cancel_bids_and_revive_mpa(s) ==
  [FoldSet(LAMBDA b, t : cancel_bid(t, b), s, s.bids) EXCEPT !.swan = Null, !.fund = 0]

\* revive_bitasset: the issuer takes over the whole debt with the whole fund.  An
\* account has one bid at most, so a bid of the issuer is in the way.
revive_bitasset(s) ==
  LET pseudo == [id |-> NewId(s.bids), bidder |-> Issuer, inv_swan_price |-> <<0, s.supply>>]
  IN IF s.supply > 0
     THEN Ensure(_cancel_bids_and_revive_mpa(execute_bid(s, pseudo, s.supply, s.fund)),
                 \A b \in s.bids : b.bidder # Issuer)
     ELSE Ensure(_cancel_bids_and_revive_mpa(s), s.fund = 0)

\* Mutant: any bid is good enough.
AnyBid(s, b) == TRUE

\* Whether the position a bid stands for would not be called at once.
Sound(s, b) ==
  LET debt == b.inv_swan_price[2]
      total_collateral == Times(debt, s.swan) + b.inv_swan_price[1]
  IN Less(<<debt * MCR, total_collateral * 100>>, s.feed)

\* The bids process_bids takes: the best ones, until they cover the supply or one
\* is not sound.
RECURSIVE Covering(_, _, _)
Covering(s, bs, covered) ==
  IF covered >= s.supply \/ bs = <<>> \/ ~Sound(s, Head(bs)) THEN <<>>
  ELSE <<Head(bs)>> \o Covering(s, Tail(bs), covered + Head(bs).inv_swan_price[2])

RECURSIVE ExecuteBids(_, _, _, _)
ExecuteBids(s, bs, to_cover, remaining) ==
  IF bs = <<>> THEN Ensure(_cancel_bids_and_revive_mpa(s), remaining = 0 /\ to_cover = 0)
  ELSE LET b == Head(bs)
           last == b.inv_swan_price[2] >= to_cover
           debt == IF last THEN to_cover ELSE b.inv_swan_price[2]
           collateral == IF last THEN remaining ELSE Times(b.inv_swan_price[2], s.swan)
       IN ExecuteBids(execute_bid(s, b, debt, collateral), Tail(bs),
                      to_cover - debt, remaining - collateral)

\* A division by a settlement price without collateral throws.
process_bids(s) ==
  IF s.feed = Null THEN s
  ELSE LET bs == Covering(s, ByInvSwanPrice(s.bids), 0)
           covered == FoldSeq(LAMBDA b, n : n + b.inv_swan_price[2], 0, bs)
       IN Ensure(IF covered < s.supply THEN s ELSE ExecuteBids(s, bs, s.supply, s.fund),
                 s.swan[2] > 0)

(***************************************************************************)
(* Margin calls                                                            *)
(***************************************************************************)

\* check_for_blackswan: whether the bitasset is, or now was, globally settled.
check_for_blackswan(s, enable_black_swan) ==
  LET best == ByPrice(Selling(s, "usd"))
      highest == IF best # <<>> /\ Less(s.feed, best[1].sell_price) THEN best[1].sell_price ELSE s.feed
      least == ByCallPrice(s.calls)[1]
      swan_price == <<least.debt, least.collateral>>
  IN CASE s.swan # Null -> [s |-> s, swan |-> TRUE]
       [] s.swan = Null /\ (s.feed = Null \/ s.calls = {}) -> [s |-> s, swan |-> FALSE]
       [] OTHER -> IF Less(swan_price, highest) THEN [s |-> s, swan |-> FALSE]
                   ELSE [s |-> IF enable_black_swan THEN globally_settle_asset(s, swan_price) ELSE Throw(s),
                         swan |-> TRUE]

\* The loop of check_call_orders.  ls and cs are the ids the iterators have yet
\* to visit.  filled_limit is not reset, so that from the first filled limit
\* order on the iterator moves with every fill; before that it stays on an order
\* even when the fill has culled it.
RECURSIVE CallLoop(_, _, _, _, _, _)
CallLoop(s, ls, cs, filled_limit, margin_called, enable_black_swan) ==
  LET check == check_for_blackswan(s, enable_black_swan)
  IN IF check.swan \/ cs = <<>> \/ ls = <<>> THEN [s |-> check.s, called |-> margin_called]
     ELSE IF Head(ls) \notin Ids(s.limits) THEN [s |-> [s EXCEPT !.err = "undefined"], called |-> TRUE]
     ELSE
       LET o == Find(s.limits, Head(ls))
           c == Find(s.calls, Head(cs))
           feed_protected == Less(call_price(c), s.feed)
           fill_limit == filled_limit \/ c.debt >= o.for_sale
           fill_call == c.debt <= o.for_sale
           usd == Min({c.debt, o.for_sale})
           core == Times(usd, o.sell_price)
           t == fill_limit_order(fill_call_order(s, c, core, usd), o, usd, core, TRUE)
       IN IF feed_protected \/ Less(call_price(c), o.sell_price)
          THEN [s |-> s, called |-> margin_called]
          ELSE IF Times(c.debt, o.sell_price) > c.collateral
          THEN [s |-> IF enable_black_swan THEN globally_settle_asset(s, s.feed) ELSE Throw(s),
                called |-> TRUE]
          ELSE CallLoop(t, IF fill_limit THEN Tail(ls) ELSE ls, IF fill_call THEN Tail(cs) ELSE cs,
                        fill_limit, TRUE, enable_black_swan)

IdSeq(objects) == [i \in DOMAIN objects |-> objects[i].id]

\* check_call_orders for the bitasset; for the core asset it does nothing.
check_call_orders(s, enable_black_swan) ==
  LET check == check_for_blackswan(s, enable_black_swan)
      squeeze == max_short_squeeze_price(s.feed)
      offers == {o \in Selling(s, "usd") : ~Less(o.sell_price, squeeze)}
  IN IF check.swan \/ s.feed = Null THEN [s |-> check.s, called |-> FALSE]
     ELSE CallLoop(s, IdSeq(ByPrice(offers)), IdSeq(ByCallPrice(s.calls)),
                   FALSE, FALSE, enable_black_swan)

CheckCalls(s) == IF s.err # "" THEN s ELSE check_call_orders(s, TRUE).s

(***************************************************************************)
(* Limit orders                                                            *)
(***************************************************************************)

\* match of a new limit order with one on the book, at the latter's price.
match(s, new, old) ==
  LET price == old.sell_price
      all == Times(old.for_sale, price)
      new_pays == Min({new.for_sale, all})
      new_receives == IF new.for_sale <= all THEN Times(new.for_sale, Inv(price)) ELSE old.for_sale
  IN fill_limit_order(fill_limit_order(s, new, new_pays, new_receives, FALSE),
                      old, new_receives, new_pays, TRUE)

\* Mutant: matching ends with the first order on the book.
MatchOnce(s, id, ids) ==
  IF ids = <<>> THEN s ELSE match(s, Find(s.limits, id), Find(s.limits, Head(ids)))

\* The loop of apply_order: it goes on while only the old order was filled.
RECURSIVE MatchLoop(_, _, _)
MatchLoop(s, id, ids) ==
  IF ids = <<>> THEN s
  ELSE LET t == match(s, Find(s.limits, id), Find(s.limits, Head(ids)))
       IN IF id \in Ids(t.limits) /\ Head(ids) \notin Ids(t.limits)
          THEN MatchLoop(t, id, Tail(ids))
          ELSE t

\* The orders on the other side that pay at least what the new one asks for.
Crossing(s, new) ==
  {o \in Selling(s, Other(new.sells)) : ~Less(o.sell_price, Inv(new.sell_price))}

\* apply_order: margin calls first, then the book, then margin calls again.
apply_order(s, id) ==
  LET t == CheckCalls(s)
      u == MatchLoop(t, id, IdSeq(ByPrice(Crossing(t, Find(t.limits, id)))))
      v == CheckCalls(u)
  IN IF t.err # "" \/ id \notin Ids(t.limits) THEN t
     ELSE IF v.err # "" \/ id \notin Ids(v.limits) THEN v
     ELSE maybe_cull_small_order(v, id)

(***************************************************************************)
(* Price feeds                                                             *)
(***************************************************************************)

\* operator< of settlement prices; the null price is the least.
FeedLess(p, q) == IF p = Null THEN q # Null ELSE q # Null /\ Less(p, q)

update_median_feeds(s) ==
  LET current == {p \in DOMAIN s.feeds : s.feeds[p] # Null /\ s.now - s.feeds[p].time < FeedLifetime}
      sorted == SetToSortSeq(current, LAMBDA p, q : FeedLess(s.feeds[p].price, s.feeds[q].price))
  IN IF Cardinality(current) < MinimumFeeds
     THEN [s EXCEPT !.feed = Null, !.feed_time = s.now]
     ELSE [s EXCEPT !.feed = s.feeds[sorted[(Len(sorted) \div 2) + 1]].price,
                    !.feed_time = Min({s.now} \cup {s.feeds[p].time : p \in current})]

update_expired_feeds(s) ==
  LET t == update_median_feeds(s)
  IN IF s.feed_time + FeedLifetime > s.now THEN s
     ELSE IF t.feed = Null THEN t ELSE CheckCalls(t)

(***************************************************************************)
(* The end of a block                                                      *)
(***************************************************************************)

\* The first object of an index by a time, then by id.
Earliest(objects, time) ==
  CHOOSE o \in objects : \A p \in objects :
    \/ o[time] < p[time]
    \/ o[time] = p[time] /\ o.id <= p.id

\* Expired limit orders are cancelled; the fee is capped by what can be refunded.
RECURSIVE ExpireOrders(_)
ExpireOrders(s) ==
  LET expired == {o \in s.limits : o.expiration <= s.now}
      o == Earliest(expired, "expiration")
      fee == Min({CancelFee, o.deferred_fee})
      t == CheckCalls(cancel_limit_order(s, o))
  IN IF expired = {} \/ s.err # "" THEN s
     ELSE ExpireOrders([t EXCEPT !.bal[o.seller]["core"] = @ - fee, !.paid = @ + fee])

max_force_settlement_volume(s) == ((s.supply + s.volume) * SettlementMax) \div 100

\* Mutant: an order may take the whole volume, whatever was settled before.
WholeVolume(max, settled) == max

max_settlement(max, settled) == max - settled

\* The inner loop: the order is matched with the least collateralized positions.
RECURSIVE MatchSettlement(_, _, _, _, _)
MatchSettlement(s, id, price, settled, max) ==
  IF settled >= max \/ id \notin Ids(s.settles) THEN [s EXCEPT !.volume = settled]
  ELSE
    LET o == Find(s.settles, id)
        c == LeastCollateralized(s.calls)
        usd == Min({o.balance, max_settlement(max, settled), c.debt})
        core == Times(usd, price)
    IN IF o.balance = 0 THEN [cancel_settlement(s, o) EXCEPT !.volume = settled]
       ELSE IF s.calls = {} THEN [s EXCEPT !.err = "undefined"]
       ELSE IF core >= c.collateral THEN [cancel_settlement(s, o) EXCEPT !.volume = settled]
       ELSE MatchSettlement(fill_settlement(fill_call_order(s, c, core, usd), o, usd, core),
                            id, price, settled + usd, max)

\* The forced settlements that are due, up to the volume for this interval.
RECURSIVE SettleDue(_, _)
SettleDue(s, max) ==
  LET o == Earliest(s.settles, "date")
      receives == (Times(o.balance, s.feed) * (100 - SettlementOffset)) \div 100
  IN IF s.settles = {} \/ s.err # "" THEN s
     ELSE IF s.swan # Null THEN SettleDue(cancel_settlement(s, o), max)
     ELSE IF o.date > s.now THEN s
     ELSE IF s.feed = Null THEN SettleDue(cancel_settlement(s, o), max)
     ELSE IF s.volume >= max THEN s
     ELSE SettleDue(MatchSettlement(s, o.id, <<o.balance, receives>>, s.volume, max), max)

clear_expired_orders(s) ==
  LET t == ExpireOrders(s) IN SettleDue(t, max_force_settlement_volume(t))

\* perform_chain_maintenance, as far as it concerns bitassets.
Maintenance(s) ==
  LET t == [s EXCEPT !.volume = 0] IN IF t.swan # Null THEN process_bids(t) ELSE t

\* The part of _apply_block after the transactions.
EndOfBlock(s) ==
  LET t == [s EXCEPT !.now = @ + 1]
      u == IF t.now % MaintenanceEvery = 0 THEN Maintenance(t) ELSE t
      v == IF u.err = "" THEN clear_expired_orders(u) ELSE u
  IN IF v.err = "" THEN update_expired_feeds(v) ELSE v

(***************************************************************************)
(* Operations                                                              *)
(***************************************************************************)

\* The result of an operation takes effect, unless it threw.
TakeEffect(s) ==
  LET t == IF s.err = "undefined" THEN State ELSE s
  IN /\ ~broken /\ s.err # "throw"
     /\ now' = t.now /\ bal' = t.bal /\ in_orders' = t.in_orders /\ paid' = t.paid
     /\ limits' = t.limits /\ calls' = t.calls /\ settles' = t.settles /\ bids' = t.bids
     /\ supply' = t.supply /\ fees' = t.fees /\ swan' = t.swan /\ fund' = t.fund
     /\ volume' = t.volume /\ feeds' = t.feeds /\ feed' = t.feed /\ feed_time' = t.feed_time
     /\ broken' = (s.err = "undefined")

Become(s) ==
  /\ ops < MaxOps
  /\ TakeEffect(s)
  /\ ops' = ops + 1

\* The fee is taken after the operation was applied.
PayFee(s, a, fee) ==
  Ensure([s EXCEPT !.bal[a]["core"] = @ - fee], s.bal[a]["core"] >= fee)

limit_order_create(a, offer, fill_or_kill) ==
  LET asset == offer[1]
      amount == offer[2]
      id == NewId(limits)
      o == [id |-> id, seller |-> a, sells |-> asset, for_sale |-> amount,
            sell_price |-> <<amount, offer[3]>>, expiration |-> now + OrderLifetime,
            deferred_fee |-> CreateFee]
      s == apply_order([State EXCEPT !.bal[a][asset] = @ - amount,
                                     !.in_orders[a] = @ + (IF asset = "core" THEN amount ELSE 0),
                                     !.limits = @ \cup {o}], id)
  IN /\ Cardinality(limits) < MaxOrders
     /\ bal[a][asset] >= amount
     /\ Become(PayFee(Ensure(s, fill_or_kill => id \notin Ids(s.limits)), a, CreateFee))

limit_order_cancel(o) ==
  LET s == CheckCalls(cancel_limit_order(State, o))
  IN Become(PayFee([s EXCEPT !.paid = @ + CancelFee], o.seller, CancelFee))

\* call_order_update: a margin call it causes must close the position.
call_order_update(a, delta) ==
  LET mine == {c \in calls : c.borrower = a}
      old == IF mine = {} THEN [id |-> NewId(calls), borrower |-> a, collateral |-> 0, debt |-> 0,
                                cp |-> <<0, 0>>]
             ELSE CHOOSE c \in mine : TRUE
      collateral == old.collateral + delta[1]
      debt == old.debt + delta[2]
      c == [old EXCEPT !.collateral = collateral, !.debt = debt, !.cp = <<collateral, debt>>]
      s == [State EXCEPT !.bal[a] = [@ EXCEPT !["usd"] = @ + delta[2], !["core"] = @ - delta[1]],
                         !.in_orders[a] = @ + delta[1],
                         !.supply = @ + delta[2]]
      r == check_call_orders([s EXCEPT !.calls = Change(@, old, c)], FALSE)
  IN /\ swan = Null /\ feed # Null
     /\ bal[a]["usd"] + delta[2] >= 0 /\ bal[a]["core"] >= delta[1]
     /\ mine = {} => delta[1] > 0 /\ delta[2] > 0
     /\ \/ /\ debt = 0 /\ collateral = 0
           /\ Become([s EXCEPT !.calls = @ \ {old}])
        \/ /\ debt > 0 /\ collateral > 0
           /\ Become(Ensure(r.s, IF r.called THEN c.id \notin Ids(r.s.calls)
                                 ELSE Less(call_price(c), feed)))

\* bid_collateral: a new bid replaces the old one; none is made for no debt.
bid_collateral(a, bid) ==
  LET old == {b \in bids : b.bidder = a}
      s == FoldSet(LAMBDA b, t : cancel_bid(t, b), State, old)
      b == [id |-> NewId(s.bids), bidder |-> a, inv_swan_price |-> bid]
  IN /\ swan # Null
     /\ bal[a]["core"] >= bid[1]
     /\ old = {} => bid[2] > 0
     /\ Become(IF bid[2] = 0 THEN s
               ELSE [s EXCEPT !.bal[a]["core"] = @ - bid[1], !.bids = @ \cup {b}])

\* asset_settle: at once from the fund after a global settlement, else later.
asset_settle(a, amount) ==
  LET s == [State EXCEPT !.bal[a]["usd"] = @ - amount]
      settled == IF amount = supply THEN fund ELSE Times(amount, swan)
      o == [id |-> NewId(settles), owner |-> a, balance |-> amount, date |-> now + SettlementDelay]
  IN /\ swan # Null \/ feed # Null
     /\ bal[a]["usd"] >= amount
     /\ IF swan # Null
        THEN Become(Ensure([s EXCEPT !.fund = @ - settled, !.supply = @ - amount,
                                     !.bal[a]["core"] = @ + settled],
                           settled <= fund))
        ELSE Become([s EXCEPT !.settles = @ \cup {o}])

\* asset_global_settle by the issuer; without a position it reads past the index.
asset_global_settle(p) ==
  LET c == LeastCollateralized(calls)
  IN /\ supply > 0
     /\ Become(IF calls = {} THEN [State EXCEPT !.err = "undefined"]
               ELSE Ensure(globally_settle_asset(State, p), Times(c.debt, p) <= c.collateral))

\* asset_publish_feed: a bitasset that the fund now backs well enough is revived.
\* A fund without collateral has no call price: that throws.
asset_publish_feed(p, price) ==
  LET s == update_median_feeds([State EXCEPT !.feeds[p] = [time |-> now, price |-> price]])
      called == <<supply * MCR, fund * 100>>
      t == IF s.feed = Null \/ swan = Null THEN s
           ELSE IF supply = 0 \/ (fund > 0 /\ Less(called, s.feed)) THEN revive_bitasset(s)
           ELSE Ensure(s, fund > 0)
  IN Become(IF s.feed = feed THEN s ELSE CheckCalls(t))

\* asset_update_feed_producers: producers that stay keep their feeds.
asset_update_feed_producers(producers) ==
  LET published(p) == IF p \in DOMAIN feeds THEN feeds[p] ELSE Null
  IN Become(CheckCalls(update_median_feeds([State EXCEPT !.feeds = [p \in producers |-> published(p)]])))

asset_claim_fees(amount) ==
  /\ amount <= fees
  /\ Become([State EXCEPT !.fees = @ - amount, !.bal[Issuer]["usd"] = @ + amount])

apply_block ==
  /\ now < MaxBlocks
  /\ TakeEffect(EndOfBlock(State))
  /\ UNCHANGED ops

Init ==
  /\ now = 0
  /\ bal = [a \in Accounts |-> [core |-> Core[a], usd |-> 0]]
  /\ in_orders = [a \in Accounts |-> 0]
  /\ paid = 0
  /\ limits = {} /\ calls = {} /\ settles = {} /\ bids = {}
  /\ supply = 0 /\ fees = 0
  /\ swan = Null /\ fund = 0 /\ volume = 0
  /\ feeds = [p \in Producers |-> Null] /\ feed = Null /\ feed_time = 0
  /\ broken = FALSE /\ ops = 0

Next ==
  \/ \E a \in Accounts, offer \in Offers, kill \in BOOLEAN : limit_order_create(a, offer, kill)
  \/ \E o \in limits : limit_order_cancel(o)
  \/ \E a \in Accounts, delta \in Deltas : call_order_update(a, delta)
  \/ \E a \in Accounts, bid \in Bids : bid_collateral(a, bid)
  \/ \E a \in Accounts, amount \in SettleAmounts : asset_settle(a, amount)
  \/ \E p \in SwanPrices : asset_global_settle(p)
  \/ \E p \in DOMAIN feeds, price \in Prices : asset_publish_feed(p, price)
  \/ \E producers \in ProducerSets : asset_update_feed_producers(producers)
  \/ \E amount \in 1..fees : asset_claim_fees(amount)
  \/ apply_block

Spec == Init /\ [][Next]_vars

(***************************************************************************)
(* Properties                                                              *)
(***************************************************************************)

Sum(f(_), objects) == MapThenSumSet(f, objects)

\* total_core_in_orders, which counts as stake when votes are tallied, is what the
\* account has in limit orders and as collateral, however these were filled.
CoreInOrdersExact ==
  \A a \in Accounts :
    in_orders[a] = Sum(LAMBDA o : o.for_sale, {o \in Selling(State, "core") : o.seller = a})
                     + Sum(LAMBDA c : c.collateral, {c \in calls : c.borrower = a})

\* No step of the market makes or loses an asset: what accounts, orders, positions,
\* settlements, bids, the fund and the fees hold of each is what exists of it; until
\* a global settlement the supply is the debt of the positions, and after it there
\* are none; and the statistics of the accounts agree.
BooksBalance ==
  /\ Sum(LAMBDA a : bal[a]["usd"], Accounts) + Sum(LAMBDA o : o.for_sale, Selling(State, "usd"))
       + Sum(LAMBDA o : o.balance, settles) + fees = supply
  /\ Sum(LAMBDA a : bal[a]["core"], Accounts) + Sum(LAMBDA o : o.for_sale, Selling(State, "core"))
       + Sum(LAMBDA o : o.deferred_fee, limits) + Sum(LAMBDA c : c.collateral, calls)
       + Sum(LAMBDA b : b.inv_swan_price[1], bids) + fund + paid = Sum(LAMBDA a : Core[a], Accounts)
  /\ IF swan = Null THEN Sum(LAMBDA c : c.debt, calls) = supply /\ fund = 0 /\ bids = {}
     ELSE calls = {}
  /\ CoreInOrdersExact

\* After a global settlement every holder can settle any amount at the settlement
\* price, in any order: the assertion on the fund in asset_settle never fails, and
\* with the last amount the fund is used up.
EveryoneCanSettle ==
  swan # Null => /\ \A n \in 0..supply : Times(n, swan) <= fund
                 /\ supply = 0 => fund = 0

\* Between operations no two limit orders cross, and none asks for nothing: the
\* loop of apply_order ends only when the new order is filled or has no match.
BookUncrossed ==
  \A o \in limits : amount_to_receive(o) > 0 /\ Crossing(State, o) = {}

\* A bitasset that is revived, by a feed or by the bids of a maintenance, has no
\* position that would be called at once: each is above the maintenance ratio for
\* the feed that the decision was taken on.
RevivedIsSound ==
  [][swan # Null /\ swan' = Null /\ (now' = now \/ feed' = feed)
       => \A c \in calls' : Less(call_price(c), feed')]_vars

\* What forced settlement takes in an interval stays within the maximum volume for
\* the supply there was, over all the blocks and orders of the interval.
SettlementLimited ==
  [][LET before == IF now' # now /\ now' % MaintenanceEvery = 0 THEN 0 ELSE volume
     IN volume' > before => volume' <= ((supply + before) * SettlementMax) \div 100]_vars
===============================================================================
