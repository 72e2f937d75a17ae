----------------------------- MODULE Marketplace -----------------------------
(***************************************************************************)
(* The marketplace of libraries/chain/omnibazaar: listings, purchases by   *)
(* transfer and by escrow, the fees they pay, and what a block does to     *)
(* expired escrows and listings (db_update.cpp, db_block.cpp push_escrow). *)
(*                                                                         *)
(* An operation that fails a check changes nothing, because its session is *)
(* undone (module UndoDatabase): an action is enabled when every check of  *)
(* the evaluator passes.  Amounts are in the core asset, the only one the  *)
(* marketplace accepts.  Times are kept relative to head_block_time().     *)
(* The rules are those since the hard forks OM-749 and OM-774.             *)
(***************************************************************************)
EXTENDS Integers, Sequences, FiniteSets, FiniteSetsExt, Functions

CONSTANTS
  Accounts,
  BlockchainAccounts,  \* committee, witness, null and temp accounts
  Founder,             \* OMNIBAZAAR_FOUNDER_ACCOUNT
  Publishers,          \* accounts with is_a_publisher
  Referrers,           \* accounts with is_referrer
  referrer,            \* referrer[a]: who referred a
  AcceptedEscrows,     \* AcceptedEscrows[a]: explicit and implicit escrow agents of a
  escrow_fee,          \* escrow_fee[a]: the share an agent asks for
  publisher_fee,       \* publisher_fee[a]: the share a publisher asks for
  PublisherFeeRange,   \* <<publisher_fee_min, publisher_fee_max>>
  pop_score,           \* pop_score[a]: Proof of Participation score
  Supply,              \* Supply[a]: balance of a at the start
  OneHundredPercent,   \* GRAPHENE_100_PERCENT
  ReferralShare,       \* GRAPHENE_1_PERCENT / 4
  OperationFee,        \* the network fee of an operation that has one
  ListingBanThreshold, \* listing_ban_threshold
  MaxPriorityFee,      \* maximum_listing_priority_fee
  EscrowLifetime,      \* maximum_escrow_lifetime
  ListingLifetime,     \* maximum_listing_lifetime
  QuantityModulus,     \* 2^32: listing_object::quantity is a uint32_t
  Amounts, Counts,     \* what operations offer: amounts, numbers of items,
  FeeOffers,           \*   omnibazaar_fee_type without a publisher fee,
  PublisherFees,       \*   and fees to publishers
  ListingForms,        \* the listings that are created
  Updates,             \* the changes that are made to listings
  Keep,                \* an optional field of an update that is not set
  MissedSlots,         \* how many slots may be missed between two blocks
  MaxEscrows, MaxListings       \* bounds: how many are ever created

(* The hashes of listings' contents. *)
Hashes == {form.hash : form \in ListingForms} \cup ({u.hash : u \in Updates} \ {Keep})

FeeTypes == {"omnibazaar", "escrow", "referrer_buyer", "referrer_seller"}

ASSUME MarketplaceAssumption ==
  /\ IsFiniteSet(Accounts) /\ Founder \in Accounts
  /\ BlockchainAccounts \subseteq Accounts
  /\ Publishers \subseteq Accounts /\ Referrers \subseteq Accounts
  /\ referrer \in [Accounts -> Accounts]
  /\ AcceptedEscrows \in [Accounts -> SUBSET Accounts]
  /\ {escrow_fee, publisher_fee, pop_score, Supply} \subseteq [Accounts -> Nat]
  /\ PublisherFeeRange \in Nat \X Nat
  /\ {OneHundredPercent, QuantityModulus, OperationFee, EscrowLifetime, ListingLifetime}
       \subseteq Nat \ {0}
  /\ Keep \notin Accounts \cup Nat
  /\ {ReferralShare, ListingBanThreshold, MaxPriorityFee,
      MaxEscrows, MaxListings} \subseteq Nat
  /\ Amounts \subseteq Nat \ {0} /\ Counts \subseteq 1..(QuantityModulus - 1)
  /\ FeeOffers \subseteq [FeeTypes -> Nat]
  /\ PublisherFees \subseteq Nat /\ MissedSlots \subseteq Nat
  /\ ListingForms \subseteq [publisher : Accounts, price : Nat, hash : Hashes,
                             quantity : 0..(QuantityModulus - 1), priority_fee : Nat]
  /\ Updates \subseteq [publisher : Accounts \cup {Keep}, price : Nat \cup {Keep},
                        hash : Hashes \cup {Keep},
                        quantity : 0..(QuantityModulus - 1) \cup {Keep},
                        priority_fee : Nat \cup {Keep}]

VARIABLES
  funds,           \* balances, vesting balances, collected fees, current_supply
  escrows,         \* escrow_index: id -> escrow_object
  listings,        \* listing_index: id -> listing_object
  listings_count,  \* account_object::listings_count
  next_escrow,     \* next id of the escrow index
  next_listing,    \* next id of the listing index
  stock            \* history: items a listing's seller still stands for

vars == <<funds, escrows, listings, listings_count, next_escrow, next_listing, stock>>

(* listing_id 0 stands for an operation or escrow without a listing. *)
NoListing == 0

Erase(f, S) == [x \in DOMAIN f \ S |-> f[x]]

Put(f, x, v) == [y \in DOMAIN f \cup {x} |-> IF y = x THEN v ELSE f[y]]
-----------------------------------------------------------------------------
(***************************************************************************)
(* Fees and balances.  A fee of 0 stands for an absent optional fee.       *)
(***************************************************************************)

cut_fee(a, p) == (a * p) \div OneHundredPercent

(* omnibazaar_fee_type::set_sale_fees, and the agent's fee of an escrow. *)
RequiredFees(amount, buyer, seller, agentShare, listing) ==
  LET opted  == listing # NoListing /\ seller \in Referrers
      refers(a) == IF opted /\ referrer[a] \in Referrers THEN cut_fee(amount, ReferralShare) ELSE 0
  IN [omnibazaar      |-> IF listing = NoListing THEN 0
                          ELSE cut_fee(amount, listings[listing].priority_fee),
      escrow          |-> cut_fee(amount, agentShare),
      referrer_buyer  |-> refers(buyer),
      referrer_seller |-> refers(seller)]

is_enough(fee, required) == \A t \in FeeTypes : fee[t] >= required[t]

fee_sum(fee) == fee.omnibazaar + fee.escrow + fee.referrer_buyer + fee.referrer_seller

(* The fee a listing's publisher is due, within the limits of the chain. *)
PublisherFee(price, p) ==
  Min({PublisherFeeRange[2], Max({PublisherFeeRange[1], cut_fee(price, publisher_fee[p])})})

adjust_balance(f, a, delta) == [f EXCEPT !.balance[a] = @ + delta]

CanPay(f, a, amount) == f.balance[a] >= amount

(* deposit_fee: to the account's vesting balance; the accounts of the chain *)
(* itself have none, and what they would get leaves the supply.            *)
deposit_fee(f, a, amount) ==
  IF a \in BlockchainAccounts THEN [f EXCEPT !.supply = @ - amount]
                              ELSE [f EXCEPT !.vesting[a] = @ + amount]

deposit_sale_fees(f, fee, buyer, seller) ==
  deposit_fee(deposit_fee(deposit_fee(f, Founder, fee.omnibazaar),
                          referrer[buyer], fee.referrer_buyer),
              referrer[seller], fee.referrer_seller)

sale_fee_sum(fee) == fee.omnibazaar + fee.referrer_buyer + fee.referrer_seller

(* evaluator::apply: the fee payer is charged after do_apply. *)
pay_fee(f, a, fee) == [adjust_balance(f, a, -fee) EXCEPT !.fees = @ + fee]
-----------------------------------------------------------------------------
Init ==
  /\ funds = [balance |-> Supply, vesting |-> [a \in Accounts |-> 0], fees |-> 0,
              supply |-> SumFunction(Supply)]
  /\ escrows = <<>> /\ listings = <<>>
  /\ listings_count = [a \in Accounts |-> 0]
  /\ next_escrow = 1 /\ next_listing = 1
  /\ stock = [l \in 1..MaxListings |-> 0]

(* What a purchase by transfer or escrow asks of the listing. *)
InStock(listing, count, amount, seller) ==
  listing # NoListing =>
    /\ listing \in DOMAIN listings
    /\ listings[listing].quantity >= count
    /\ amount >= listings[listing].price * count
    /\ seller = listings[listing].seller

(* Mutant: a purchase reserves nothing. *)
TakeFromStockNothing(listing, count) == listings

TakeFromStock(listing, count) ==
  IF listing = NoListing THEN listings
  ELSE [listings EXCEPT ![listing].quantity = @ - count]

(* Purchases have no network fee. *)
PurchaseFee(listing) == IF listing = NoListing THEN OperationFee ELSE 0

transfer(from, to, amount, listing, count, fee) ==
  LET required == RequiredFees(amount, from, to, 0, listing)
      sale     == IF listing = NoListing THEN 0 ELSE sale_fee_sum(fee)
      paid     == adjust_balance(funds, from, -amount)
      split    == IF listing = NoListing THEN paid ELSE deposit_sale_fees(paid, fee, from, to)
  IN /\ from # to
     /\ CanPay(funds, from, amount + PurchaseFee(listing))
     /\ InStock(listing, count, amount, to)
     /\ is_enough(fee, required) /\ fee.escrow = 0
     /\ fee_sum(fee) <= amount
     /\ funds' = pay_fee(adjust_balance(split, to, amount - sale), from, PurchaseFee(listing))
     /\ listings' = TakeFromStock(listing, count)
     /\ stock' = IF listing = NoListing THEN stock ELSE [stock EXCEPT ![listing] = @ - count]
     /\ UNCHANGED <<escrows, listings_count, next_escrow, next_listing>>
-----------------------------------------------------------------------------
(***************************************************************************)
(* Escrows.  An escrow's amount leaves the buyer at once; it is kept by    *)
(* the chain or, with transfer_to_escrow, on the agent's own balance.      *)
(***************************************************************************)

escrow_create(buyer, seller, agent, amount, to_agent, listing, count, fee, lifetime) ==
  LET taken == adjust_balance(funds, buyer, -amount)
      held  == IF to_agent THEN adjust_balance(taken, agent, amount) ELSE taken
  IN /\ next_escrow <= MaxEscrows
     /\ Cardinality({buyer, seller, agent}) = 3
     /\ agent \in AcceptedEscrows[buyer] \cap AcceptedEscrows[seller]
     /\ CanPay(funds, buyer, amount + PurchaseFee(listing))
     /\ lifetime \in 1..EscrowLifetime
     /\ InStock(listing, count, amount, seller)
     /\ is_enough(fee, RequiredFees(amount, buyer, seller, escrow_fee[agent], listing))
     /\ fee_sum(fee) <= amount
     /\ escrows' = Put(escrows, next_escrow,
                       [buyer |-> buyer, seller |-> seller, agent |-> agent, amount |-> amount,
                        transfer_to_escrow |-> to_agent, listing |-> listing,
                        count |-> count, fee |-> fee, expires_in |-> lifetime])
     /\ next_escrow' = next_escrow + 1
     /\ funds' = pay_fee(held, buyer, PurchaseFee(listing))
     /\ listings' = TakeFromStock(listing, count)
     /\ UNCHANGED <<listings_count, next_listing, stock>>

(* What closing an escrow works on. *)
Market == [funds |-> funds, escrows |-> escrows, listings |-> listings, stock |-> stock]

Become(m) ==
  /\ funds' = m.funds /\ escrows' = m.escrows
  /\ listings' = m.listings /\ stock' = m.stock

AgentHolds(m, x) == x.transfer_to_escrow => CanPay(m.funds, x.agent, x.amount)

(* Mutant: the agent keeps the deposit. *)
CollectEscrowKept(m, x) == deposit_fee(m.funds, x.agent, x.fee.escrow)

(* The funds with the agent's deposit taken back and the agent's fee paid. *)
CollectEscrow(m, x) ==
  deposit_fee(IF x.transfer_to_escrow THEN adjust_balance(m.funds, x.agent, -x.amount)
                                      ELSE m.funds,
              x.agent, x.fee.escrow)

CanRelease(m, id) == id \in DOMAIN m.escrows /\ AgentHolds(m, m.escrows[id])

Released(m, id) ==
  LET x    == m.escrows[id]
      sale == x.listing # NoListing
      rest == x.amount - x.fee.escrow - (IF sale THEN sale_fee_sum(x.fee) ELSE 0)
      paid == IF sale THEN deposit_sale_fees(CollectEscrow(m, x), x.fee, x.buyer, x.seller)
                      ELSE CollectEscrow(m, x)
      sold == IF sale THEN [m.stock EXCEPT ![x.listing] = @ - x.count] ELSE m.stock
  IN [m EXCEPT !.funds = adjust_balance(paid, x.seller, rest),
               !.escrows = Erase(@, {id}),
               !.stock = sold]

(* The listing an escrow reserved items of has to exist to take them back. *)
CanReturn(m, id) ==
  /\ CanRelease(m, id)
  /\ m.escrows[id].listing \in DOMAIN m.listings \cup {NoListing}

Returned(m, id) ==
  LET x == m.escrows[id]
      restocked == IF x.listing = NoListing THEN m.listings
                   ELSE [m.listings EXCEPT ![x.listing].quantity =
                                             (@ + x.count) % QuantityModulus]
  IN [m EXCEPT !.funds = adjust_balance(CollectEscrow(m, x), x.buyer, x.amount - x.fee.escrow),
               !.escrows = Erase(@, {id}),
               !.listings = restocked]

escrow_release(id) ==
  /\ CanRelease(Market, id)
  /\ Become(Released(Market, id))
  /\ UNCHANGED <<listings_count, next_escrow, next_listing>>

escrow_return(id) ==
  /\ CanReturn(Market, id)
  /\ Become(Returned(Market, id))
  /\ UNCHANGED <<listings_count, next_escrow, next_listing>>

(* Signed by buyer and seller; any of the three parties pays the fee. *)
escrow_extend(id, payer, lifetime) ==
  /\ id \in DOMAIN escrows
  /\ payer \in {escrows[id].buyer, escrows[id].seller, escrows[id].agent}
  /\ lifetime \in 1..EscrowLifetime
  /\ lifetime # escrows[id].expires_in
  /\ CanPay(funds, payer, OperationFee)
  /\ escrows' = [escrows EXCEPT ![id].expires_in = lifetime]
  /\ funds' = pay_fee(funds, payer, OperationFee)
  /\ UNCHANGED <<listings, listings_count, next_escrow, next_listing, stock>>
-----------------------------------------------------------------------------
(***************************************************************************)
(* Listings.                                                               *)
(***************************************************************************)

HashFree(hash) == \A l \in DOMAIN listings : listings[l].hash # hash

(* The items of listing l that the escrows of xs have reserved. *)
Reserved(xs, l) ==
  SumFunction([id \in DOMAIN xs |-> IF xs[id].listing = l THEN xs[id].count ELSE 0])

Fewer(count, a, n) == [count EXCEPT ![a] = IF @ >= n THEN @ - n ELSE 0]

PayPublisher(seller, publisher, fee) ==
  pay_fee(deposit_fee(adjust_balance(funds, seller, -fee), publisher, fee), seller, OperationFee)

listing_create(seller, form, fee) ==
  /\ next_listing <= MaxListings
  /\ form.publisher \in Publishers
  /\ HashFree(form.hash)
  /\ seller # form.publisher => fee >= PublisherFee(form.price, form.publisher)
  /\ CanPay(funds, seller, fee + OperationFee)
  /\ form.priority_fee <= MaxPriorityFee
  /\ listings' = Put(listings, next_listing,
                     [seller |-> seller, publisher |-> form.publisher, price |-> form.price,
                      hash |-> form.hash, quantity |-> form.quantity,
                      priority_fee |-> form.priority_fee, seller_score |-> pop_score[seller],
                      reported_score |-> 0, reported_accounts |-> {},
                      expires_in |-> ListingLifetime])
  /\ next_listing' = next_listing + 1
  /\ funds' = PayPublisher(seller, form.publisher, fee)
  /\ listings_count' = [listings_count EXCEPT ![form.publisher] = @ + 1]
  /\ stock' = [stock EXCEPT ![next_listing] = form.quantity]
  /\ UNCHANGED <<escrows, next_escrow>>

(* Every update, whatever it changes, makes the listing live longer. *)
listing_update(id, u, fee) ==
  LET l         == listings[id]
      Or(new, old) == IF new = Keep THEN old ELSE new
      moved     == u.publisher # Keep
      publisher == Or(u.publisher, l.publisher)
      updated   == [l EXCEPT !.hash = Or(u.hash, @), !.price = Or(u.price, @),
                             !.publisher = publisher, !.quantity = Or(u.quantity, @),
                             !.priority_fee = Or(u.priority_fee, @),
                             !.expires_in = ListingLifetime]
  IN /\ id \in DOMAIN listings
     /\ moved => publisher \in Publishers
     /\ u.hash # Keep => HashFree(u.hash)
     /\ moved /\ publisher # l.seller => fee >= PublisherFee(Or(u.price, l.price), publisher)
     /\ CanPay(funds, l.seller, fee + OperationFee)
     /\ Or(u.priority_fee, 0) <= MaxPriorityFee
     /\ listings_count' = IF moved THEN [Fewer(listings_count, l.publisher, 1)
                                           EXCEPT ![publisher] = @ + 1]
                                   ELSE listings_count
     /\ listings' = [listings EXCEPT ![id] = updated]
     /\ funds' = PayPublisher(l.seller, publisher, fee)
     /\ stock' = IF u.quantity = Keep THEN stock
                 ELSE [stock EXCEPT ![id] = u.quantity + Reserved(escrows, id)]
     /\ UNCHANGED <<escrows, next_escrow, next_listing>>

(* Mutant: the publisher's count is left alone. *)
listing_delete_uncounted(id) ==
  /\ id \in DOMAIN listings
  /\ listings' = Erase(listings, {id})
  /\ UNCHANGED <<funds, escrows, listings_count, next_escrow, next_listing, stock>>

listing_delete(id) ==
  /\ id \in DOMAIN listings
  /\ listings_count' = Fewer(listings_count, listings[id].publisher, 1)
  /\ listings' = Erase(listings, {id})
  /\ UNCHANGED <<funds, escrows, next_escrow, next_listing, stock>>

Banned(l, score) ==
  \/ l.seller_score = 0
  \/ score \div l.seller_score >= ListingBanThreshold

(* A report that reaches the threshold removes the listing. *)
listing_report(id, reporter) ==
  LET l     == listings[id]
      score == l.reported_score + pop_score[reporter]
      ban   == Banned(l, score)
  IN /\ id \in DOMAIN listings
     /\ pop_score[reporter] > 0
     /\ reporter \notin l.reported_accounts
     /\ CanPay(funds, reporter, OperationFee)
     /\ listings_count' = IF ban THEN Fewer(listings_count, l.publisher, 1) ELSE listings_count
     /\ listings' = IF ban THEN Erase(listings, {id})
                    ELSE [listings EXCEPT ![id].reported_score = score,
                                          ![id].reported_accounts = @ \cup {reporter}]
     /\ funds' = pay_fee(funds, reporter, OperationFee)
     /\ UNCHANGED <<escrows, next_escrow, next_listing, stock>>
-----------------------------------------------------------------------------
(***************************************************************************)
(* The end of a block: head_block_time() moves, then escrows and listings  *)
(* that have expired are closed.                                           *)
(***************************************************************************)

Aged(objects, elapsed) ==
  [id \in DOMAIN objects |-> [objects[id] EXCEPT !.expires_in = @ - elapsed]]

Expired(objects) == {id \in DOMAIN objects : objects[id].expires_in <= 0}

(* The orders of the by_expiration index.  It keeps escrows that expire at  *)
(* the same time in the order they were put in, and an undo or a restart   *)
(* puts them in anew: any order of theirs is possible.                     *)
ExpiryOrders(objects) ==
  {order \in Bijection(1..Cardinality(Expired(objects)), Expired(objects)) :
     \A i, j \in DOMAIN order :
       i < j => objects[order[i]].expires_in <= objects[order[j]].expires_in}

(* push_escrow, to release and then to return; an escrow for which neither *)
(* succeeds is removed.                                                    *)
CloseExpired(m, id) ==
  IF CanRelease(m, id) THEN Released(m, id)
  ELSE IF CanReturn(m, id) THEN Returned(m, id)
  ELSE [m EXCEPT !.escrows = Erase(@, {id})]

clear_expired_escrows(m, order) ==
  LET closed[i \in 0..Len(order)] ==
        IF i = 0 THEN m ELSE CloseExpired(closed[i - 1], order[i])
  IN  closed[Len(order)]

(* Deletes by listing_delete_operation, which has no fee. *)
clear_expired_listings(m) == [m EXCEPT !.listings = Erase(@, Expired(@))]

next_block(missed) ==
  LET aged == [Market EXCEPT !.escrows = Aged(@, 1 + missed), !.listings = Aged(@, 1 + missed)]
      Gone(a) == {l \in Expired(aged.listings) : listings[l].publisher = a}
  IN \E order \in ExpiryOrders(aged.escrows) :
       /\ Become(clear_expired_listings(clear_expired_escrows(aged, order)))
       /\ listings_count' = [a \in Accounts |->
                               Fewer(listings_count, a, Cardinality(Gone(a)))[a]]
       /\ UNCHANGED <<next_escrow, next_listing>>
-----------------------------------------------------------------------------
Purchases == {<<NoListing, 0>>} \cup ((DOMAIN listings) \X Counts)

Next ==
  \/ \E from, to \in Accounts, amount \in Amounts, p \in Purchases, fee \in FeeOffers :
       transfer(from, to, amount, p[1], p[2], fee)
  \/ \E buyer, seller \in Accounts : \E agent \in AcceptedEscrows[buyer] :
     \E amount \in Amounts, to_agent \in BOOLEAN, p \in Purchases, fee \in FeeOffers,
        lifetime \in 1..EscrowLifetime :
       escrow_create(buyer, seller, agent, amount, to_agent, p[1], p[2], fee, lifetime)
  \/ \E id \in DOMAIN escrows : escrow_release(id)
  \/ \E id \in DOMAIN escrows : escrow_return(id)
  \/ \E id \in DOMAIN escrows, payer \in Accounts, lifetime \in 1..EscrowLifetime :
       escrow_extend(id, payer, lifetime)
  \/ \E seller \in Accounts, form \in ListingForms, fee \in PublisherFees :
       listing_create(seller, form, fee)
  \/ \E id \in DOMAIN listings, u \in Updates, fee \in PublisherFees : listing_update(id, u, fee)
  \/ \E id \in DOMAIN listings : listing_delete(id)
  \/ \E id \in DOMAIN listings, reporter \in Accounts : listing_report(id, reporter)
  \/ \E missed \in MissedSlots : next_block(missed)

Spec == Init /\ [][Next]_vars
-----------------------------------------------------------------------------
(***************************************************************************)
(* Properties.                                                             *)
(***************************************************************************)

(* What the chain itself holds for the escrows of xs. *)
InChain(xs) ==
  SumFunction([id \in DOMAIN xs |-> IF xs[id].transfer_to_escrow THEN 0 ELSE xs[id].amount])

(* The coins in balances, in vesting balances, in collected fees and in    *)
(* the escrows the chain holds are exactly the current supply: no sale,    *)
(* escrow, refund or expiry creates or locks away a coin (db_update.cpp    *)
(* calls funds "locked in blockchain forever" what "should not happen").   *)
FundsConserved ==
  funds.supply = SumFunction([a \in Accounts |-> funds.balance[a] + funds.vesting[a]])
                 + funds.fees + InChain(escrows)

(* account_object::listings_count, which the publisher's reward is computed *)
(* from, is the number of listings the publisher hosts, however they came  *)
(* and went: creation, move, deletion, ban or expiry.                      *)
ListingsCounted ==
  \A a \in Accounts :
    listings_count[a] = Cardinality({l \in DOMAIN listings : listings[l].publisher = a})

(* A listing never offers, with what open escrows have reserved, more than *)
(* its seller stands for after the sales so far: nothing is sold twice.    *)
NothingOversold ==
  \A l \in DOMAIN listings : listings[l].quantity + Reserved(escrows, l) <= stock[l]

=============================================================================
