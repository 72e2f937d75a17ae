-------------------------- MODULE MarketplaceProofs --------------------------
(***************************************************************************)
(* Proofs that the marketplace conserves coins, counts listings and sells  *)
(* nothing twice: one inductive invariant, one lemma per action.           *)
(***************************************************************************)
EXTENDS Marketplace, FoldTheorems

(* The amounts among the constants are naturals, the accounts are finitely *)
(* many.                                                                   *)
LEMMA ConstantNats ==
  /\ MaxListings \in Nat /\ MaxEscrows \in Nat /\ OperationFee \in Nat
  /\ QuantityModulus \in Nat /\ ListingLifetime \in Nat /\ EscrowLifetime \in Nat
  /\ Amounts \subseteq Nat /\ PublisherFees \subseteq Nat /\ MissedSlots \subseteq Nat
BY MarketplaceAssumption

(* Proof-of-participation scores are naturals. *)
LEMMA ScoreNat == pop_score \in [Accounts -> Nat]
BY MarketplaceAssumption

(* The fees of the operations. *)
Fees == [FeeTypes -> Nat]

(* Every place that coins can be in; amounts may become negative here,     *)
(* Solvent says that they do not.                                          *)
Funds == [balance : [Accounts -> Int], vesting : [Accounts -> Int], fees : Int, supply : Int]

(* What an escrow_object holds. *)
EscrowFields ==
  [buyer : Accounts, seller : Accounts, agent : Accounts, amount : Nat,
   transfer_to_escrow : BOOLEAN, listing : 0..MaxListings, count : Nat,
   fee : Fees, expires_in : Int]

(* The fees of an escrow are paid from its amount. *)
Escrow == {x \in EscrowFields : fee_sum(x.fee) <= x.amount}

(* What a listing_object holds. *)
Listing == [seller : Accounts, publisher : Accounts, price : Nat, hash : Hashes,
            quantity : 0..(QuantityModulus - 1), priority_fee : Nat, seller_score : Nat,
            reported_score : Nat, reported_accounts : SUBSET Accounts, expires_in : Int]

(* What the accounts own and the chain has collected, less the supply. *)
Owned(f) == SumFunction([a \in Accounts |-> f.balance[a] + f.vesting[a]]) + f.fees - f.supply

(* What the accounts own is a sum of integers over the accounts. *)
LEMMA WealthSum ==
  ASSUME NEW f \in Funds
  PROVE  LET w == [a \in Accounts |-> f.balance[a] + f.vesting[a]]
         IN  /\ IsFiniteSet(Accounts) /\ DOMAIN w = Accounts /\ IntOn(w, Accounts)
             /\ SumFunction(w) = SumFunctionOnSet(w, Accounts)
             /\ SumFunctionOnSet(w, Accounts) \in Int
<1> DEFINE w == [a \in Accounts |-> f.balance[a] + f.vesting[a]]
<1>1. IsFiniteSet(Accounts)  BY MarketplaceAssumption
<1>2. DOMAIN w = Accounts /\ IntOn(w, Accounts)  BY DEF IntOn, Funds
<1> HIDE DEF w
<1>3. SumFunctionOnSet(w, Accounts) \in Int  BY <1>1, <1>2, SumInt
<1>4. SumFunction(w) = SumFunctionOnSet(w, Accounts)  BY <1>2 DEF SumFunction
<1> QED BY <1>1, <1>2, <1>3, <1>4 DEF w

(* What is owned is an integer. *)
LEMMA OwnedInt ==
  ASSUME NEW f \in Funds
  PROVE  Owned(f) \in Int
BY WealthSum DEF Owned, Funds

(* e is f with another value at account a. *)
SameBut(e, f, a) ==
  \A b \in Accounts : b # a => e.balance[b] = f.balance[b] /\ e.vesting[b] = f.vesting[b]

(* The wealth of one account changes by d. *)
LEMMA OwnedChange ==
  ASSUME NEW f \in Funds, NEW e \in Funds, NEW a \in Accounts, NEW d \in Int,
         e.balance[a] + e.vesting[a] = f.balance[a] + f.vesting[a] + d,
         SameBut(e, f, a)
  PROVE  Owned(e) = Owned(f) + d + (e.fees - f.fees) - (e.supply - f.supply)
<1> DEFINE v == [b \in Accounts |-> f.balance[b] + f.vesting[b]]
           w == [b \in Accounts |-> e.balance[b] + e.vesting[b]]
<1>1. /\ IsFiniteSet(Accounts) /\ IntOn(v, Accounts)
      /\ SumFunction(v) = SumFunctionOnSet(v, Accounts) /\ SumFunctionOnSet(v, Accounts) \in Int
      BY WealthSum
<1>2. SumFunction(w) = SumFunctionOnSet(w, Accounts) /\ SumFunctionOnSet(w, Accounts) \in Int
      BY WealthSum
<1>3. AgreeBut(w, v, Accounts, a)  BY DEF AgreeBut, SameBut
<1>4. w[a] \in Int /\ v[a] \in Int /\ w[a] = v[a] + d  BY DEF Funds
<1>5. Owned(f) = SumFunction(v) + f.fees - f.supply /\ Owned(e) = SumFunction(w) + e.fees - e.supply
      BY DEF Owned
<1>6. f.fees \in Int /\ f.supply \in Int /\ e.fees \in Int /\ e.supply \in Int  BY DEF Funds
<1> HIDE DEF v, w
<1>7. SumFunctionOnSet(w, Accounts) = SumFunctionOnSet(v, Accounts) - v[a] + w[a]
      BY <1>1, <1>3, <1>4, SumChange
<1> QED BY <1>1, <1>2, <1>4, <1>5, <1>6, <1>7

(* adjust_balance changes what is owned by the amount that it adds. *)
LEMMA AdjustBalance ==
  ASSUME NEW f \in Funds, NEW a \in Accounts, NEW d \in Int
  PROVE  adjust_balance(f, a, d) \in Funds /\ Owned(adjust_balance(f, a, d)) = Owned(f) + d
<1> DEFINE e == adjust_balance(f, a, d)
<1>1. e \in Funds  BY DEF adjust_balance, Funds
<1>2. /\ e.balance[a] + e.vesting[a] = f.balance[a] + f.vesting[a] + d
      /\ e.fees = f.fees /\ e.supply = f.supply
      /\ SameBut(e, f, a)
      BY DEF adjust_balance, Funds, SameBut
<1>3. f.fees \in Int /\ f.supply \in Int /\ Owned(f) \in Int  BY OwnedInt DEF Funds
<1> HIDE DEF e
<1>4. Owned(e) = Owned(f) + d + (e.fees - f.fees) - (e.supply - f.supply)
      BY <1>1, <1>2, OwnedChange
<1> QED BY <1>1, <1>2, <1>3, <1>4 DEF e

(* A deposited fee is in a vesting balance or taken off the supply: either *)
(* way, what is owned less the supply grows by it.                         *)
LEMMA DepositFee ==
  ASSUME NEW f \in Funds, NEW a \in Accounts, NEW d \in Int
  PROVE  deposit_fee(f, a, d) \in Funds /\ Owned(deposit_fee(f, a, d)) = Owned(f) + d
<1> DEFINE e == deposit_fee(f, a, d)
<1>1. e \in Funds  BY DEF deposit_fee, Funds
<1>3. f.fees \in Int /\ f.supply \in Int /\ Owned(f) \in Int  BY OwnedInt DEF Funds
<1>2. CASE a \in BlockchainAccounts
  <2>1. /\ e.balance[a] + e.vesting[a] = f.balance[a] + f.vesting[a] + 0
        /\ e.fees = f.fees /\ e.supply = f.supply - d
        /\ SameBut(e, f, a)
        BY <1>2 DEF deposit_fee, Funds, SameBut
  <2> HIDE DEF e
  <2>2. Owned(e) = Owned(f) + 0 + (e.fees - f.fees) - (e.supply - f.supply)
        BY <1>1, <2>1, OwnedChange
  <2> QED BY <1>1, <1>3, <2>1, <2>2 DEF e
<1>4. CASE a \notin BlockchainAccounts
  <2>1. /\ e.balance[a] + e.vesting[a] = f.balance[a] + f.vesting[a] + d
        /\ e.fees = f.fees /\ e.supply = f.supply
        /\ SameBut(e, f, a)
        BY <1>4 DEF deposit_fee, Funds, SameBut
  <2> HIDE DEF e
  <2>2. Owned(e) = Owned(f) + d + (e.fees - f.fees) - (e.supply - f.supply)
        BY <1>1, <2>1, OwnedChange
  <2> QED BY <1>1, <1>3, <2>1, <2>2 DEF e
<1> QED BY <1>2, <1>4

(* Paying a fee moves coins and changes nothing in total. *)
LEMMA PayFee ==
  ASSUME NEW f \in Funds, NEW a \in Accounts, NEW d \in Int
  PROVE  pay_fee(f, a, d) \in Funds /\ Owned(pay_fee(f, a, d)) = Owned(f)
<1> DEFINE e == pay_fee(f, a, d)
<1> DEFINE g == adjust_balance(f, a, -d)
<1>0. g \in Funds /\ e = [g EXCEPT !.fees = @ + d]  BY -d \in Int, AdjustBalance DEF pay_fee
<1>1. e \in Funds
  <2> HIDE DEF e, g
  <2> QED BY <1>0 DEF Funds
<1>2. /\ e.balance[a] + e.vesting[a] = f.balance[a] + f.vesting[a] + (-d)
      /\ e.fees = f.fees + d /\ e.supply = f.supply
      /\ SameBut(e, f, a)
      BY DEF pay_fee, adjust_balance, Funds, SameBut
<1>3. f.fees \in Int /\ f.supply \in Int /\ Owned(f) \in Int /\ -d \in Int  BY OwnedInt DEF Funds
<1> HIDE DEF e
<1>4. Owned(e) = Owned(f) + (-d) + (e.fees - f.fees) - (e.supply - f.supply)
      BY <1>1, <1>2, <1>3, OwnedChange
<1> QED BY <1>1, <1>2, <1>3, <1>4 DEF e

(* The fees of a sale go to the founder account and to the two referrers   *)
(* in full.                                                                *)
LEMMA DepositSaleFees ==
  ASSUME NEW f \in Funds, NEW fee \in Fees, NEW buyer \in Accounts, NEW seller \in Accounts
  PROVE  LET e == deposit_sale_fees(f, fee, buyer, seller)
         IN  e \in Funds /\ Owned(e) = Owned(f) + sale_fee_sum(fee)
<1>1. Founder \in Accounts /\ referrer[buyer] \in Accounts /\ referrer[seller] \in Accounts
      BY MarketplaceAssumption
<1>2. fee.omnibazaar \in Int /\ fee.referrer_buyer \in Int /\ fee.referrer_seller \in Int
      BY DEF Fees, FeeTypes
<1> DEFINE f1 == deposit_fee(f, Founder, fee.omnibazaar)
           f2 == deposit_fee(f1, referrer[buyer], fee.referrer_buyer)
           f3 == deposit_fee(f2, referrer[seller], fee.referrer_seller)
<1>3. f1 \in Funds /\ Owned(f1) = Owned(f) + fee.omnibazaar  BY <1>1, <1>2, DepositFee
<1>4. f3 = deposit_sale_fees(f, fee, buyer, seller)  BY DEF deposit_sale_fees
<1> HIDE DEF f1
<1>5. f2 \in Funds /\ Owned(f2) = Owned(f1) + fee.referrer_buyer  BY <1>1, <1>2, <1>3, DepositFee
<1> HIDE DEF f2
<1>6. f3 \in Funds /\ Owned(f3) = Owned(f2) + fee.referrer_seller  BY <1>1, <1>2, <1>5, DepositFee
<1> HIDE DEF f3
<1>7. Owned(f) \in Int  BY OwnedInt
<1> QED BY <1>2, <1>3, <1>4, <1>5, <1>6, <1>7 DEF sale_fee_sum
-----------------------------------------------------------------------------
(* Nobody owes anything. *)
Solvent(f) ==
  f.fees >= 0 /\ \A a \in Accounts : f.balance[a] >= 0 /\ f.vesting[a] >= 0

(* An amount that the account has can be taken. *)
LEMMA AdjustSolvent ==
  ASSUME NEW f \in Funds, Solvent(f), NEW a \in Accounts, NEW d \in Int, f.balance[a] + d >= 0
  PROVE  LET e == adjust_balance(f, a, d)
         IN  /\ Solvent(e) /\ e.balance[a] = f.balance[a] + d
             /\ \A b \in Accounts : b # a => e.balance[b] = f.balance[b]
BY DEF adjust_balance, Funds, Solvent

(* Depositing a fee leaves nobody with a negative amount. *)
LEMMA DepositSolvent ==
  ASSUME NEW f \in Funds, Solvent(f), NEW a \in Accounts, NEW d \in Nat
  PROVE  Solvent(deposit_fee(f, a, d)) /\ deposit_fee(f, a, d).balance = f.balance
<1>1. CASE a \in BlockchainAccounts  BY <1>1 DEF deposit_fee, Funds, Solvent
<1>2. CASE a \notin BlockchainAccounts  BY <1>2 DEF deposit_fee, Funds, Solvent
<1> QED BY <1>1, <1>2

(* A fee that the payer has can be paid. *)
LEMMA PaySolvent ==
  ASSUME NEW f \in Funds, Solvent(f), NEW a \in Accounts, NEW d \in Nat, f.balance[a] >= d
  PROVE  Solvent(pay_fee(f, a, d))
<1> DEFINE g == adjust_balance(f, a, -d)
<1>0. g \in Funds /\ Solvent(g)
  <2>1. -d \in Int /\ f.balance[a] + (-d) >= 0  BY DEF Funds
  <2> QED BY <2>1, AdjustBalance, AdjustSolvent
<1>1. pay_fee(f, a, d) = [g EXCEPT !.fees = @ + d]  BY DEF pay_fee
<1> HIDE DEF g
<1> QED BY <1>0, <1>1 DEF Solvent, Funds

(* Depositing the fees of a sale leaves nobody with a negative amount. *)
LEMMA SaleFeesSolvent ==
  ASSUME NEW f \in Funds, Solvent(f), NEW fee \in Fees,
         NEW buyer \in Accounts, NEW seller \in Accounts
  PROVE  LET e == deposit_sale_fees(f, fee, buyer, seller)
         IN  Solvent(e) /\ e.balance = f.balance
<1>1. Founder \in Accounts /\ referrer[buyer] \in Accounts /\ referrer[seller] \in Accounts
      BY MarketplaceAssumption
<1>2. fee.omnibazaar \in Nat /\ fee.referrer_buyer \in Nat /\ fee.referrer_seller \in Nat
      BY DEF Fees, FeeTypes
<1> DEFINE f1 == deposit_fee(f, Founder, fee.omnibazaar)
           f2 == deposit_fee(f1, referrer[buyer], fee.referrer_buyer)
           f3 == deposit_fee(f2, referrer[seller], fee.referrer_seller)
<1>3. fee.omnibazaar \in Int /\ fee.referrer_buyer \in Int  BY <1>2
<1>4. f1 \in Funds  BY <1>1, <1>3, DepositFee
<1>5. Solvent(f1) /\ f1.balance = f.balance  BY <1>1, <1>2, DepositSolvent
<1>6. f3 = deposit_sale_fees(f, fee, buyer, seller)  BY DEF deposit_sale_fees
<1> HIDE DEF f1
<1>7. f2 \in Funds  BY <1>1, <1>3, <1>4, DepositFee
<1>8. Solvent(f2) /\ f2.balance = f1.balance  BY <1>1, <1>2, <1>5, <1>4, DepositSolvent
<1> HIDE DEF f2
<1>9. Solvent(f3) /\ f3.balance = f2.balance  BY <1>1, <1>2, <1>8, <1>7, DepositSolvent
<1> HIDE DEF f3
<1> QED BY <1>5, <1>6, <1>8, <1>9
-----------------------------------------------------------------------------
(* The tables of open escrows and of listings. *)
Escrows == UNION {[D -> Escrow] : D \in SUBSET (1..MaxEscrows)}
(* Tables of listings. *)
Listings == UNION {[D -> Listing] : D \in SUBSET (1..MaxListings)}

(* A table of escrows is a function with a finite domain. *)
LEMMA EscrowTable ==
  \A xs : xs \in Escrows <=> xs \in [DOMAIN xs -> Escrow] /\ DOMAIN xs \subseteq 1..MaxEscrows
BY DEF Escrows

(* So is a table of listings. *)
LEMMA ListingTable ==
  \A ls : ls \in Listings <=> ls \in [DOMAIN ls -> Listing] /\ DOMAIN ls \subseteq 1..MaxListings
BY DEF Listings

(* What InChain and Reserved add up. *)
HeldOf(xs) == [id \in DOMAIN xs |-> IF xs[id].transfer_to_escrow THEN 0 ELSE xs[id].amount]
(* How many items of listing l each escrow holds back. *)
CountOf(xs, l) == [id \in DOMAIN xs |-> IF xs[id].listing = l THEN xs[id].count ELSE 0]

(* The amounts and the counts of a table of escrows can be summed. *)
LEMMA TableSums ==
  ASSUME NEW xs \in Escrows, NEW l
  PROVE  /\ IntFunction(HeldOf(xs)) /\ InChain(xs) = SumFunction(HeldOf(xs)) /\ InChain(xs) \in Nat
         /\ IntFunction(CountOf(xs, l)) /\ Reserved(xs, l) = SumFunction(CountOf(xs, l))
         /\ Reserved(xs, l) \in Nat
<1>1. xs \in [DOMAIN xs -> Escrow] /\ DOMAIN xs \subseteq 1..MaxEscrows  BY EscrowTable
<1>2. IsFiniteSet(DOMAIN xs)
  <2>1. IsFiniteSet(1..MaxEscrows)  BY FS_Interval, ConstantNats
  <2> QED BY <1>1, <2>1, FS_Subset
<1>3. \A id \in DOMAIN xs : HeldOf(xs)[id] \in Nat /\ CountOf(xs, l)[id] \in Nat
      BY <1>1 DEF HeldOf, CountOf, Escrow, EscrowFields
<1>4. DOMAIN HeldOf(xs) = DOMAIN xs /\ DOMAIN CountOf(xs, l) = DOMAIN xs  BY DEF HeldOf, CountOf
<1>5. IntFunction(HeldOf(xs)) /\ IntFunction(CountOf(xs, l))
      BY <1>2, <1>3, <1>4 DEF IntFunction, IntOn
<1>6. InChain(xs) = SumFunction(HeldOf(xs)) /\ Reserved(xs, l) = SumFunction(CountOf(xs, l))
      BY DEF InChain, Reserved, HeldOf, CountOf
<1>7. SumFunction(HeldOf(xs)) \in Nat /\ SumFunction(CountOf(xs, l)) \in Nat
      BY <1>2, <1>3, <1>4, SumFunctionNat
<1> QED BY <1>5, <1>6, <1>7

(* xs is ys without the escrow id. *)
LEMMA TableWithout ==
  ASSUME NEW xs \in Escrows, NEW ys \in Escrows, NEW id \in DOMAIN ys,
         DOMAIN xs = DOMAIN ys \ {id}, Agree(xs, ys, DOMAIN xs)
  PROVE  /\ InChain(ys) = InChain(xs) + (IF ys[id].transfer_to_escrow THEN 0 ELSE ys[id].amount)
         /\ \A l : Reserved(ys, l) = Reserved(xs, l)
                                      + (IF ys[id].listing = l THEN ys[id].count ELSE 0)
<1>1. InChain(ys) = InChain(xs) + HeldOf(ys)[id]
  <2>1. /\ id \in DOMAIN HeldOf(ys) /\ DOMAIN HeldOf(xs) = DOMAIN HeldOf(ys) \ {id}
        /\ Agree(HeldOf(xs), HeldOf(ys), DOMAIN HeldOf(xs))  BY DEF HeldOf, Agree
  <2>2. IntFunction(HeldOf(ys))  BY TableSums
  <2>3. SumFunction(HeldOf(ys)) = SumFunction(HeldOf(xs)) + HeldOf(ys)[id]
        BY <2>1, <2>2, SumFunctionWithout
  <2> QED BY <2>3, TableSums
<1>2. ASSUME NEW l PROVE Reserved(ys, l) = Reserved(xs, l) + CountOf(ys, l)[id]
  <2>1. /\ id \in DOMAIN CountOf(ys, l) /\ DOMAIN CountOf(xs, l) = DOMAIN CountOf(ys, l) \ {id}
        /\ Agree(CountOf(xs, l), CountOf(ys, l), DOMAIN CountOf(xs, l))  BY DEF CountOf, Agree
  <2>2. IntFunction(CountOf(ys, l))  BY TableSums
  <2>3. SumFunction(CountOf(ys, l)) = SumFunction(CountOf(xs, l)) + CountOf(ys, l)[id]
        BY <2>1, <2>2, SumFunctionWithout
  <2> QED BY <2>3, TableSums
<1> QED BY <1>1, <1>2 DEF HeldOf, CountOf

(* Escrows that differ in their expiration only. *)
LEMMA TableSame ==
  ASSUME NEW xs \in Escrows, NEW ys \in Escrows, DOMAIN xs = DOMAIN ys,
         \A id \in DOMAIN xs : xs[id] = [ys[id] EXCEPT !.expires_in = xs[id].expires_in]
  PROVE  InChain(xs) = InChain(ys) /\ \A l : Reserved(xs, l) = Reserved(ys, l)
<1>1. ys \in [DOMAIN ys -> Escrow]  BY EscrowTable
<1>2. HeldOf(xs) = HeldOf(ys) /\ \A l : CountOf(xs, l) = CountOf(ys, l)
      BY <1>1 DEF HeldOf, CountOf, Escrow, EscrowFields
<1> QED BY <1>2 DEF InChain, Reserved, HeldOf, CountOf
-----------------------------------------------------------------------------
(* The market that closing an escrow works on, and what holds of it.       *)
Markets ==
  [funds : Funds, escrows : Escrows, listings : Listings, stock : [1..MaxListings -> Int]]

(* Coins owned and coins held by escrows cancel out the supply. *)
Balanced(m) == Owned(m.funds) + InChain(m.escrows) = 0

(* The items held back by escrows are not on sale. *)
Covered(m) ==
  \A l \in DOMAIN m.listings :
    m.listings[l].quantity + Reserved(m.escrows, l) <= m.stock[l]

(* What every operation keeps. *)
Sound(m) == Solvent(m.funds) /\ Balanced(m) /\ Covered(m)

(* The market n has the listings of m, quantities aside, and no other escrows. *)
Closing(m, n) ==
  /\ DOMAIN n.listings = DOMAIN m.listings
  /\ \A l \in DOMAIN m.listings :
       /\ n.listings[l].publisher = m.listings[l].publisher
       /\ n.listings[l].expires_in = m.listings[l].expires_in
  /\ DOMAIN n.escrows \subseteq DOMAIN m.escrows
  /\ \A id \in DOMAIN n.escrows : n.escrows[id].listing = m.escrows[id].listing

(* A remainder is below the modulus and not above the number. *)
LEMMA Remainder ==
  ASSUME NEW a \in Nat, NEW b \in Nat \ {0}
  PROVE  a % b \in 0..(b - 1) /\ a % b <= a
OBVIOUS

(* The sums over the escrows without one of them. *)
LEMMA EscrowErased ==
  ASSUME NEW xs \in Escrows, NEW id \in DOMAIN xs
  PROVE  LET ys == Erase(xs, {id})
         IN  /\ ys \in Escrows /\ DOMAIN ys = DOMAIN xs \ {id} /\ Agree(ys, xs, DOMAIN ys)
             /\ InChain(xs) = InChain(ys) + (IF xs[id].transfer_to_escrow THEN 0 ELSE xs[id].amount)
             /\ \A l : Reserved(xs, l) = Reserved(ys, l)
                                         + (IF xs[id].listing = l THEN xs[id].count ELSE 0)
<1> DEFINE ys == Erase(xs, {id})
<1>1. xs \in [DOMAIN xs -> Escrow] /\ DOMAIN xs \subseteq 1..MaxEscrows  BY EscrowTable
<1>2. ys \in [DOMAIN ys -> Escrow] /\ DOMAIN ys = DOMAIN xs \ {id} /\ Agree(ys, xs, DOMAIN ys)
      BY <1>1 DEF Erase, Agree
<1> HIDE DEF ys
<1>3. ys \in Escrows  BY <1>1, <1>2, EscrowTable
<1>4. InChain(xs) = InChain(ys) + (IF xs[id].transfer_to_escrow THEN 0 ELSE xs[id].amount)
      BY <1>2, <1>3, TableWithout
<1>5. \A l : Reserved(xs, l) = Reserved(ys, l) + (IF xs[id].listing = l THEN xs[id].count ELSE 0)
      BY <1>2, <1>3, TableWithout
<1> QED BY <1>2, <1>3, <1>4, <1>5 DEF ys

(* What closing an escrow pays out is what the escrow held. *)
LEMMA Collected ==
  ASSUME NEW m \in Markets, Solvent(m.funds), NEW x \in Escrow, AgentHolds(m, x)
  PROVE  LET e == CollectEscrow(m, x)
         IN  /\ e \in Funds /\ Solvent(e)
             /\ Owned(e) = Owned(m.funds) - (IF x.transfer_to_escrow THEN x.amount ELSE 0)
                           + x.fee.escrow
<1> DEFINE f == m.funds
           g == IF x.transfer_to_escrow THEN adjust_balance(f, x.agent, -x.amount) ELSE f
           e == deposit_fee(g, x.agent, x.fee.escrow)
<1>1. f \in Funds  BY DEF Markets
<1>2. /\ x.agent \in Accounts /\ x.amount \in Nat /\ x.fee.escrow \in Nat
      /\ x.transfer_to_escrow \in BOOLEAN
      BY DEF Escrow, EscrowFields, Fees, FeeTypes
<1>3. x.fee.escrow \in Int /\ -x.amount \in Int /\ Owned(f) \in Int  BY <1>1, <1>2, OwnedInt
<1>4. /\ g \in Funds /\ Solvent(g)
      /\ Owned(g) = Owned(f) - (IF x.transfer_to_escrow THEN x.amount ELSE 0)
  <2>1. CASE x.transfer_to_escrow
    <3>1. f.balance[x.agent] + (-x.amount) >= 0
          BY <1>1, <1>2, <2>1 DEF AgentHolds, CanPay, Funds
    <3>2. Solvent(adjust_balance(f, x.agent, -x.amount))
          BY <1>1, <1>2, <1>3, <3>1, AdjustSolvent
    <3>3. /\ adjust_balance(f, x.agent, -x.amount) \in Funds
          /\ Owned(adjust_balance(f, x.agent, -x.amount)) = Owned(f) + (-x.amount)
          BY <1>1, <1>2, <1>3, AdjustBalance
    <3> QED BY <1>2, <1>3, <2>1, <3>2, <3>3
  <2>2. CASE ~x.transfer_to_escrow  BY <1>1, <1>3, <2>2
  <2> QED BY <2>1, <2>2
<1>5. e = CollectEscrow(m, x)  BY DEF CollectEscrow
<1> HIDE DEF g
<1>6. e \in Funds /\ Owned(e) = Owned(g) + x.fee.escrow  BY <1>2, <1>3, <1>4, DepositFee
<1>7. Solvent(e)  BY <1>2, <1>4, DepositSolvent
<1> HIDE DEF e
<1> QED BY <1>4, <1>5, <1>6, <1>7

(* Closing an escrow, to the seller. *)
LEMMA ReleasedSound ==
  ASSUME NEW m \in Markets, Sound(m), NEW id, CanRelease(m, id)
  PROVE  Released(m, id) \in Markets /\ Sound(Released(m, id)) /\ Closing(m, Released(m, id))
<1> DEFINE x == m.escrows[id]
           sale == x.listing # NoListing
           rest == x.amount - x.fee.escrow - (IF sale THEN sale_fee_sum(x.fee) ELSE 0)
           e == CollectEscrow(m, x)
           paid == IF sale THEN deposit_sale_fees(e, x.fee, x.buyer, x.seller) ELSE e
           f == adjust_balance(paid, x.seller, rest)
           ys == Erase(m.escrows, {id})
           st == IF sale THEN [m.stock EXCEPT ![x.listing] = @ - x.count] ELSE m.stock
           n == Released(m, id)
<1>1. /\ m.funds \in Funds /\ m.escrows \in Escrows /\ m.listings \in Listings
      /\ m.stock \in [1..MaxListings -> Int]
      BY DEF Markets
<1>2. id \in DOMAIN m.escrows /\ AgentHolds(m, x)  BY DEF CanRelease
<1>3. x \in Escrow  BY <1>1, <1>2, EscrowTable
<1>4. /\ x.buyer \in Accounts /\ x.seller \in Accounts /\ x.fee \in Fees /\ x.amount \in Nat
      /\ x.listing \in 0..MaxListings /\ x.count \in Nat /\ fee_sum(x.fee) <= x.amount
      /\ x.fee.escrow \in Nat /\ x.fee.omnibazaar \in Nat /\ x.fee.referrer_buyer \in Nat
      /\ x.fee.referrer_seller \in Nat /\ x.transfer_to_escrow \in BOOLEAN
      BY <1>3 DEF Escrow, EscrowFields, Fees, FeeTypes
<1>5. sale_fee_sum(x.fee) \in Nat /\ rest \in Nat  BY <1>4, SMTT(30) DEF sale_fee_sum, fee_sum
<1>0. MaxListings \in Nat  BY ConstantNats
<1>6. n = [m EXCEPT !.funds = f, !.escrows = ys, !.stock = st]  BY DEF Released
<1>7. n.funds = f /\ n.escrows = ys /\ n.listings = m.listings /\ n.stock = st
      BY <1>6 DEF Markets
<1>8. /\ e \in Funds /\ Solvent(e)
      /\ Owned(e) = Owned(m.funds) - (IF x.transfer_to_escrow THEN x.amount ELSE 0) + x.fee.escrow
      BY <1>2, <1>3, Collected DEF Sound
<1>9. Owned(m.funds) \in Int /\ Owned(e) \in Int  BY <1>1, <1>8, OwnedInt
<1> HIDE DEF e
<1>10. /\ paid \in Funds /\ Solvent(paid)
       /\ Owned(paid) = Owned(e) + (IF sale THEN sale_fee_sum(x.fee) ELSE 0)
  <2>1. CASE sale
    <3>1. Solvent(paid)  BY <1>4, <1>8, <2>1, SaleFeesSolvent
    <3>2. paid \in Funds /\ Owned(paid) = Owned(e) + sale_fee_sum(x.fee)
          BY <1>4, <1>8, <2>1, DepositSaleFees
    <3> QED BY <2>1, <3>1, <3>2
  <2>2. CASE ~sale  BY <1>8, <1>9, <2>2
  <2> QED BY <2>1, <2>2
<1> HIDE DEF paid
<1>11. f \in Funds /\ Solvent(f) /\ Owned(f) = Owned(paid) + rest
  <2>1. rest \in Int /\ paid.balance[x.seller] + rest >= 0
    <3>1. paid.balance[x.seller] \in Int /\ paid.balance[x.seller] >= 0
          BY <1>4, <1>10 DEF Solvent, Funds
    <3>2. rest \in Nat  BY <1>5
    <3> HIDE DEF rest, x
    <3> QED BY <3>1, <3>2
  <2>2. Solvent(f)  BY <1>4, <1>10, <2>1, AdjustSolvent
  <2>3. f \in Funds /\ Owned(f) = Owned(paid) + rest  BY <1>4, <1>10, <2>1, AdjustBalance
  <2> QED BY <2>2, <2>3
<1>12. /\ ys \in Escrows /\ DOMAIN ys = DOMAIN m.escrows \ {id} /\ Agree(ys, m.escrows, DOMAIN ys)
       /\ InChain(m.escrows) = InChain(ys) + (IF x.transfer_to_escrow THEN 0 ELSE x.amount)
       /\ \A l : Reserved(m.escrows, l) = Reserved(ys, l) + (IF x.listing = l THEN x.count ELSE 0)
       BY <1>1, <1>2, EscrowErased
<1>13. /\ st \in [1..MaxListings -> Int]
       /\ \A l \in 1..MaxListings : st[l] = m.stock[l] - (IF x.listing = l THEN x.count ELSE 0)
  <2>1. CASE sale
    <3>1. x.listing \in 1..MaxListings  BY <1>4, <2>1 DEF NoListing
    <3>2. st = [m.stock EXCEPT ![x.listing] = m.stock[x.listing] - x.count]  BY <2>1
    <3> HIDE DEF st, x
    <3> QED BY <1>0, <1>1, <1>4, <3>1, <3>2, SMTT(30)
  <2>2. CASE ~sale
    <3>1. \A l \in 1..MaxListings : x.listing # l  BY <2>2 DEF NoListing
    <3>2. st = m.stock  BY <2>2
    <3> HIDE DEF st, x
    <3> QED BY <1>0, <1>1, <3>1, <3>2
  <2> QED BY <2>1, <2>2
<1>14. n \in Markets  BY <1>1, <1>6, <1>11, <1>12, <1>13 DEF Markets
<1>15. InChain(ys) \in Nat /\ \A l : Reserved(ys, l) \in Nat  BY <1>12, TableSums
<1>16. Balanced(n)
  <2>1. Owned(m.funds) + InChain(m.escrows) = 0  BY DEF Sound, Balanced
  <2>2. Owned(f) + InChain(ys) = 0
    <3>1. sale_fee_sum(x.fee) \in Int  BY <1>5
    <3> HIDE DEF f, ys, x
    <3> QED BY <1>4, <1>8, <1>9, <1>10, <1>11, <1>12, <1>15, <2>1, <3>1, SMTT(30)
  <2> QED BY <1>7, <2>2 DEF Balanced
<1>17. Covered(n)
  <2> SUFFICES ASSUME NEW l \in DOMAIN m.listings
               PROVE  m.listings[l].quantity + Reserved(ys, l) <= st[l]
      BY <1>7 DEF Covered
  <2>1. m.listings[l].quantity + Reserved(m.escrows, l) <= m.stock[l]  BY DEF Sound, Covered
  <2>2. m.listings[l].quantity \in Int /\ l \in 1..MaxListings
        BY <1>1, ListingTable, ConstantNats DEF Listing
  <2>3. m.stock[l] \in Int  BY <1>1, <2>2
  <2>4. st[l] = m.stock[l] - (IF x.listing = l THEN x.count ELSE 0)  BY <1>13, <2>2
  <2>5. Reserved(ys, l) \in Nat
        /\ Reserved(m.escrows, l) = Reserved(ys, l) + (IF x.listing = l THEN x.count ELSE 0)
        BY <1>12, <1>15
  <2> HIDE DEF st, ys, x
  <2> QED BY <1>4, <2>1, <2>2, <2>3, <2>4, <2>5
<1>18. Closing(m, n)
  <2> HIDE DEF n, ys, x
  <2> QED BY <1>7, <1>12 DEF Closing, Agree
<1> QED BY <1>7, <1>11, <1>14, <1>16, <1>17, <1>18 DEF Sound

(* Closing an escrow, to the buyer: the items go back to the listing. *)
LEMMA ReturnedSound ==
  ASSUME NEW m \in Markets, Sound(m), NEW id, CanReturn(m, id)
  PROVE  Returned(m, id) \in Markets /\ Sound(Returned(m, id)) /\ Closing(m, Returned(m, id))
<1> DEFINE x == m.escrows[id]
           back == x.amount - x.fee.escrow
           e == CollectEscrow(m, x)
           f == adjust_balance(e, x.buyer, back)
           ys == Erase(m.escrows, {id})
           ls == IF x.listing = NoListing THEN m.listings
                 ELSE [m.listings EXCEPT ![x.listing].quantity = (@ + x.count) % QuantityModulus]
           n == Returned(m, id)
<1>0. MaxListings \in Nat /\ QuantityModulus \in Nat \ {0}  BY MarketplaceAssumption
<1>1. /\ m.funds \in Funds /\ m.escrows \in Escrows /\ m.listings \in Listings
      /\ m.stock \in [1..MaxListings -> Int]
      BY DEF Markets
<1>2. /\ id \in DOMAIN m.escrows /\ AgentHolds(m, x)
      /\ x.listing \in DOMAIN m.listings \cup {NoListing}
      BY DEF CanReturn, CanRelease
<1>3. x \in Escrow  BY <1>1, <1>2, EscrowTable
<1>4. /\ x.buyer \in Accounts /\ x.amount \in Nat /\ x.count \in Nat /\ x.fee.escrow \in Nat
      /\ back \in Nat /\ x.transfer_to_escrow \in BOOLEAN
      BY <1>3 DEF Escrow, EscrowFields, Fees, FeeTypes, fee_sum
<1>6. n = [m EXCEPT !.funds = f, !.escrows = ys, !.listings = ls]  BY DEF Returned
<1>7. n.funds = f /\ n.escrows = ys /\ n.listings = ls /\ n.stock = m.stock
      BY <1>6 DEF Markets
<1>8. /\ e \in Funds /\ Solvent(e)
      /\ Owned(e) = Owned(m.funds) - (IF x.transfer_to_escrow THEN x.amount ELSE 0) + x.fee.escrow
      BY <1>2, <1>3, Collected DEF Sound
<1>9. Owned(m.funds) \in Int /\ Owned(e) \in Int  BY <1>1, <1>8, OwnedInt
<1> HIDE DEF e
<1>11. f \in Funds /\ Solvent(f) /\ Owned(f) = Owned(e) + back
  <2>1. back \in Int /\ e.balance[x.buyer] + back >= 0  BY <1>4, <1>8 DEF Solvent, Funds
  <2>2. Solvent(f)  BY <1>4, <1>8, <2>1, AdjustSolvent
  <2>3. f \in Funds /\ Owned(f) = Owned(e) + back  BY <1>4, <1>8, <2>1, AdjustBalance
  <2> QED BY <2>2, <2>3
<1>12. /\ ys \in Escrows /\ DOMAIN ys = DOMAIN m.escrows \ {id} /\ Agree(ys, m.escrows, DOMAIN ys)
       /\ InChain(m.escrows) = InChain(ys) + (IF x.transfer_to_escrow THEN 0 ELSE x.amount)
       /\ \A l : Reserved(m.escrows, l) = Reserved(ys, l) + (IF x.listing = l THEN x.count ELSE 0)
       BY <1>1, <1>2, EscrowErased
<1>13. m.listings \in [DOMAIN m.listings -> Listing] /\ DOMAIN m.listings \subseteq 1..MaxListings
       BY <1>1, ListingTable
<1>14. /\ ls \in [DOMAIN m.listings -> Listing]
       /\ \A l \in DOMAIN m.listings :
            /\ ls[l].publisher = m.listings[l].publisher
            /\ ls[l].expires_in = m.listings[l].expires_in
            /\ ls[l].quantity <= m.listings[l].quantity + (IF x.listing = l THEN x.count ELSE 0)
  <2>1. CASE x.listing = NoListing
    <3>1. \A l \in DOMAIN m.listings : x.listing # l /\ m.listings[l].quantity \in Int
          BY <2>1, <1>0, <1>13 DEF NoListing, Listing
    <3>2. ls = m.listings  BY <2>1
    <3> HIDE DEF ls, x
    <3> QED BY <1>13, <3>1, <3>2
  <2>2. CASE x.listing # NoListing
    <3> DEFINE k == x.listing
               q == (m.listings[k].quantity + x.count) % QuantityModulus
    <3>1. k \in DOMAIN m.listings  BY <1>2, <2>2
    <3>2. m.listings[k].quantity \in Nat  BY <1>0, <1>13, <3>1 DEF Listing
    <3>3. q \in 0..(QuantityModulus - 1) /\ q <= m.listings[k].quantity + x.count
      <4> DEFINE sum == m.listings[k].quantity + x.count
      <4>1. sum \in Nat /\ q = sum % QuantityModulus  BY <1>4, <3>2
      <4> HIDE DEF sum, q
      <4>2. q \in 0..(QuantityModulus - 1) /\ q <= sum  BY <1>0, <4>1, Remainder
      <4> QED BY <4>2 DEF sum
    <3>4. ls = [m.listings EXCEPT ![k].quantity = q]  BY <2>2
    <3>5. \A l \in DOMAIN m.listings : m.listings[l].quantity \in Int
          BY <1>0, <1>13 DEF Listing
    <3> HIDE DEF ls, x, q
    <3> QED BY <1>4, <1>13, <3>1, <3>3, <3>4, <3>5 DEF Listing
  <2> QED BY <2>1, <2>2
<1>15. ls \in Listings /\ DOMAIN ls = DOMAIN m.listings
  <2> HIDE DEF ls
  <2> QED BY <1>13, <1>14, ListingTable
<1>16. n \in Markets  BY <1>1, <1>6, <1>11, <1>12, <1>15 DEF Markets
<1>17. InChain(ys) \in Nat /\ \A l : Reserved(ys, l) \in Nat  BY <1>12, TableSums
<1>18. Balanced(n)
  <2>1. Owned(m.funds) + InChain(m.escrows) = 0  BY DEF Sound, Balanced
  <2>2. Owned(f) + InChain(ys) = 0
    <3> DEFINE held == IF x.transfer_to_escrow THEN x.amount ELSE 0
               locked == IF x.transfer_to_escrow THEN 0 ELSE x.amount
    <3>1. held \in Int /\ locked \in Int /\ held + locked = x.amount  BY <1>4
    <3>2. Owned(e) = Owned(m.funds) - held + x.fee.escrow  BY <1>8
    <3>3. InChain(m.escrows) = InChain(ys) + locked  BY <1>12
    <3>4. Owned(f) = Owned(e) + (x.amount - x.fee.escrow)  BY <1>11
    <3> HIDE DEF f, ys, x, held, locked
    <3> QED BY <1>4, <1>9, <1>17, <2>1, <3>1, <3>2, <3>3, <3>4
  <2> QED BY <1>7, <2>2 DEF Balanced
<1>19. Covered(n)
  <2> SUFFICES ASSUME NEW l \in DOMAIN m.listings
               PROVE  ls[l].quantity + Reserved(ys, l) <= m.stock[l]
      BY <1>7, <1>15 DEF Covered
  <2>1. m.listings[l].quantity + Reserved(m.escrows, l) <= m.stock[l]  BY DEF Sound, Covered
  <2>2. m.listings[l].quantity \in Int /\ ls[l].quantity \in Int /\ l \in 1..MaxListings
    <3> HIDE DEF ls
    <3> QED BY <1>0, <1>13, <1>14 DEF Listing
  <2>3. m.stock[l] \in Int  BY <1>1, <2>2
  <2> DEFINE back_in == IF x.listing = l THEN x.count ELSE 0
  <2>4. back_in \in Int  BY <1>4
  <2>5. ls[l].quantity <= m.listings[l].quantity + back_in  BY <1>14
  <2>6. Reserved(ys, l) \in Nat /\ Reserved(m.escrows, l) = Reserved(ys, l) + back_in
        BY <1>12, <1>17
  <2> HIDE DEF ls, ys, x, back_in
  <2> QED BY <2>1, <2>2, <2>3, <2>4, <2>5, <2>6
<1>20. Closing(m, n)
  <2> HIDE DEF n, ys, x, ls
  <2> QED BY <1>7, <1>12, <1>14, <1>15 DEF Closing, Agree
<1> QED BY <1>7, <1>11, <1>16, <1>18, <1>19, <1>20 DEF Sound

(* An escrow that cannot be closed either way is removed.  Its amount is   *)
(* with the agent, so that no coin is lost with it.                        *)
LEMMA CloseExpiredSound ==
  ASSUME NEW m \in Markets, Sound(m), NEW id
  PROVE  LET n == CloseExpired(m, id)
         IN  /\ n \in Markets /\ Sound(n) /\ Closing(m, n)
             /\ DOMAIN n.escrows = DOMAIN m.escrows \ {id}
<1> DEFINE ys == Erase(m.escrows, {id})
           r == [m EXCEPT !.escrows = ys]
<1>1. /\ m.funds \in Funds /\ m.escrows \in Escrows /\ m.listings \in Listings
      /\ m.stock \in [1..MaxListings -> Int]
      BY DEF Markets
<1>7. CASE id \notin DOMAIN m.escrows
  <2>1. m.escrows \in [DOMAIN m.escrows -> Escrow]  BY <1>1, EscrowTable
  <2>2. ys = m.escrows  BY <1>7, <2>1 DEF Erase
  <2>3. CloseExpired(m, id) = r  BY <1>7 DEF CloseExpired, CanReturn, CanRelease
  <2>4. r = m
    <3> HIDE DEF ys
    <3> QED BY <2>2 DEF Markets
  <2>5. Closing(m, m)  BY DEF Closing
  <2> HIDE DEF r
  <2> QED BY <1>7, <2>3, <2>4, <2>5
<1>8. SUFFICES ASSUME id \in DOMAIN m.escrows
               PROVE  LET n == CloseExpired(m, id)
                      IN  /\ n \in Markets /\ Sound(n) /\ Closing(m, n)
                          /\ DOMAIN n.escrows = DOMAIN m.escrows \ {id}
      BY <1>7
<1>2. /\ Released(m, id).escrows = ys /\ Returned(m, id).escrows = ys
      BY DEF Released, Returned, Markets
<1>3. /\ ys \in Escrows /\ DOMAIN ys = DOMAIN m.escrows \ {id} /\ Agree(ys, m.escrows, DOMAIN ys)
      /\ InChain(m.escrows) = InChain(ys) + (IF m.escrows[id].transfer_to_escrow THEN 0
                                             ELSE m.escrows[id].amount)
      /\ \A l : Reserved(m.escrows, l) = Reserved(ys, l) + (IF m.escrows[id].listing = l
                                                            THEN m.escrows[id].count ELSE 0)
      BY <1>1, <1>8, EscrowErased
<1>4. CASE CanRelease(m, id)  BY <1>2, <1>3, <1>4, ReleasedSound DEF CloseExpired
<1>5. CASE ~CanRelease(m, id) /\ CanReturn(m, id)
      BY <1>2, <1>3, <1>5, ReturnedSound DEF CloseExpired
<1>6. CASE ~CanRelease(m, id) /\ ~CanReturn(m, id)
  <2>1. CloseExpired(m, id) = r  BY <1>6 DEF CloseExpired
  <2>2. m.escrows[id].transfer_to_escrow  BY <1>6, <1>8 DEF CanRelease, AgentHolds
  <2>3. m.escrows[id].count \in Nat  BY <1>1, <1>8, EscrowTable DEF Escrow, EscrowFields
  <2>4. InChain(ys) \in Nat /\ \A l : Reserved(ys, l) \in Nat  BY <1>3, TableSums
  <2>5. InChain(m.escrows) = InChain(ys)
    <3> HIDE DEF ys
    <3> QED BY <1>3, <2>2, <2>4
  <2>6. r.funds = m.funds /\ r.escrows = ys /\ r.listings = m.listings /\ r.stock = m.stock
        BY DEF Markets
  <2>7. r \in Markets  BY <1>1, <1>3 DEF Markets
  <2>8. Balanced(r)  BY <2>5, <2>6 DEF Sound, Balanced
  <2>9. Covered(r)
    <3> SUFFICES ASSUME NEW l \in DOMAIN m.listings
                 PROVE  m.listings[l].quantity + Reserved(ys, l) <= m.stock[l]
        BY <2>6 DEF Covered
    <3>1. m.listings[l].quantity + Reserved(m.escrows, l) <= m.stock[l]  BY DEF Sound, Covered
    <3>2. m.listings[l].quantity \in Int /\ l \in 1..MaxListings
          BY <1>1, ListingTable, ConstantNats DEF Listing
    <3>4. m.stock[l] \in Int  BY <1>1, <3>2
    <3>5. Reserved(ys, l) \in Nat /\ Reserved(m.escrows, l) \in Nat  BY <1>1, <2>4, TableSums
    <3>6. Reserved(m.escrows, l) = Reserved(ys, l) + (IF m.escrows[id].listing = l
                                                      THEN m.escrows[id].count ELSE 0)
          BY <1>3
    <3>3. Reserved(ys, l) <= Reserved(m.escrows, l)
      <4> HIDE DEF ys
      <4> QED BY <2>3, <3>5, <3>6
    <3> HIDE DEF ys
    <3> QED BY <3>1, <3>2, <3>3, <3>4, <3>5
  <2>10. Closing(m, r)
    <3> HIDE DEF r, ys
    <3> QED BY <1>3, <2>6 DEF Closing, Agree
  <2> HIDE DEF r, ys
  <2> QED BY <1>3, <2>1, <2>6, <2>7, <2>8, <2>9, <2>10 DEF Sound
<1> QED BY <1>4, <1>5, <1>6

(* A sequence has a length. *)
LEMMA SequenceLen ==
  ASSUME NEW n \in Nat, NEW S, NEW q \in [1..n -> S]
  PROVE  q \in Seq(S) /\ Len(q) = n
<1>1. q \in Seq(S)  OBVIOUS
<1>2. Len(q) \in Nat /\ DOMAIN q = 1..Len(q)  BY <1>1
<1>3. 1..Len(q) = 1..n  BY <1>2
<1> QED BY <1>1, <1>2, <1>3

(* clear_expired_escrows, for whatever escrows and in whatever order. *)
LEMMA ClearExpiredSound ==
  ASSUME NEW m \in Markets, Sound(m), NEW k \in Nat, NEW D, NEW order \in [1..k -> D]
  PROVE  LET n == clear_expired_escrows(m, order)
         IN  n \in Markets /\ Sound(n) /\ Closing(m, n)
<1> DEFINE M == {n \in Markets : Sound(n) /\ Closing(m, n)}
           step == [p \in (1..k) \X M |-> CloseExpired(p[2], order[p[1]])]
           E(g) == g = [i \in 0..Len(order) |->
                          IF i = 0 THEN m ELSE CloseExpired(g[i - 1], order[i])]
           closed == CHOOSE g : E(g)
<1>0. Len(order) = k  BY SequenceLen
<1>1. m \in M  BY DEF Closing
<1>2. ASSUME NEW i \in 1..k, NEW n \in M
      PROVE  CloseExpired(n, order[i]) \in M
  <2>1. n \in Markets /\ Sound(n) /\ Closing(m, n)  OBVIOUS
  <2> DEFINE r == CloseExpired(n, order[i])
  <2>2. r \in Markets /\ Sound(r) /\ Closing(n, r)  BY <2>1, CloseExpiredSound
  <2> HIDE DEF r
  <2>3. Closing(m, r)  BY <2>1, <2>2 DEF Closing
  <2> QED BY <2>2, <2>3 DEF r
<1>3. ASSUME NEW i \in 1..k, NEW n \in M
      PROVE  step[<<i, n>>] = CloseExpired(n, order[i])
  <2> HIDE DEF M
  <2> QED OBVIOUS
<1> HIDE DEF M, step
<1>4. StaysIn(step, 1..k, M)  BY <1>2, <1>3 DEF StaysIn
<1>5. PICK run \in [0..k -> M] : RunsBy(run, k, m, step)
      BY <1>1, <1>4, RunExists
<1>6. E(run)
  <2>1. ASSUME NEW i \in 0..k
        PROVE  run[i] = IF i = 0 THEN m ELSE CloseExpired(run[i - 1], order[i])
    <3>1. CASE i = 0  BY <1>5, <3>1 DEF RunsBy
    <3>2. CASE i # 0
      <4>1. i \in 1..k /\ i - 1 \in 0..k  BY <3>2
      <4>2. step[<<i, run[i - 1]>>] = CloseExpired(run[i - 1], order[i])  BY <1>3, <4>1
      <4> QED BY <1>5, <3>2, <4>2 DEF RunsBy
    <3> QED BY <3>1, <3>2
  <2> QED BY <1>0, <2>1
<1>7. E(closed)  BY <1>6
<1>8. clear_expired_escrows(m, order) = closed[k]  BY <1>0 DEF clear_expired_escrows
<1> HIDE DEF closed
<1>9. closed[k] \in M
  <2> DEFINE G == {i \in 0..k : closed[i] \in M}
  <2>1. \A i \in 0..k : closed[i] = IF i = 0 THEN m ELSE CloseExpired(closed[i - 1], order[i])
        BY <1>0, <1>7
  <2>2. 0 \in G  BY <1>1, <2>1
  <2>3. ASSUME NEW i \in 1..k, i - 1 \in G PROVE i \in G
    <3>1. i \in 0..k /\ i # 0 /\ closed[i - 1] \in M  BY <2>3
    <3>2. closed[i] = CloseExpired(closed[i - 1], order[i])  BY <2>1, <3>1
    <3> QED BY <1>2, <3>1, <3>2
  <2> HIDE DEF G
  <2>4. \A i \in 0..k : i \in G  BY <2>2, <2>3, UpToInduction
  <2> QED BY <2>4 DEF G
<1> QED BY <1>8, <1>9 DEF M

-----------------------------------------------------------------------------
(***************************************************************************)
(* The inductive invariant.                                                *)
(***************************************************************************)
Hosted(ls, a) == {l \in DOMAIN ls : ls[l].publisher = a}

(* Every account's listings_count is the number of listings it publishes. *)
Counted(ls, count) == \A a \in Accounts : count[a] = Cardinality(Hosted(ls, a))

(* Every id that is in use was given out, so that a new one is free and a  *)
(* new listing has no items reserved.                                      *)
GivenOut(xs, ls, x, l) ==
  /\ DOMAIN xs \subseteq 1..(x - 1) /\ DOMAIN ls \subseteq 1..(l - 1)
  /\ \A id \in DOMAIN xs : xs[id].listing < l

(* The types of the variables. *)
TypeOK ==
  /\ Market \in Markets
  /\ listings_count \in [Accounts -> Nat]
  /\ next_escrow \in 1..(MaxEscrows + 1) /\ next_listing \in 1..(MaxListings + 1)

(* The inductive invariant: the three properties, in the form that each    *)
(* operation keeps, and solvency, without which an operation could not pay *)
(* what it promises.                                                       *)
IInv ==
  /\ TypeOK
  /\ Sound(Market)
  /\ Counted(listings, listings_count)
  /\ GivenOut(escrows, listings, next_escrow, next_listing)

(* The parts of the invariant, and its next value from theirs. *)
LEMMA Parts ==
  ASSUME IInv
  PROVE  /\ funds \in Funds /\ escrows \in Escrows /\ listings \in Listings
         /\ stock \in [1..MaxListings -> Int] /\ listings_count \in [Accounts -> Nat]
         /\ next_escrow \in 1..(MaxEscrows + 1) /\ next_listing \in 1..(MaxListings + 1)
         /\ Solvent(funds) /\ Owned(funds) \in Int /\ InChain(escrows) \in Nat
         /\ Owned(funds) + InChain(escrows) = 0
         /\ \A l \in DOMAIN listings : listings[l].quantity + Reserved(escrows, l) <= stock[l]
         /\ \A l : Reserved(escrows, l) \in Nat
         /\ listings \in [DOMAIN listings -> Listing] /\ DOMAIN listings \subseteq 1..MaxListings
         /\ escrows \in [DOMAIN escrows -> Escrow] /\ DOMAIN escrows \subseteq 1..MaxEscrows
         /\ \A l \in DOMAIN listings : listings[l].quantity \in Int /\ stock[l] \in Int
<1>1. /\ funds \in Funds /\ escrows \in Escrows /\ listings \in Listings
      /\ stock \in [1..MaxListings -> Int] /\ listings_count \in [Accounts -> Nat]
      /\ next_escrow \in 1..(MaxEscrows + 1) /\ next_listing \in 1..(MaxListings + 1)
      BY DEF IInv, TypeOK, Market, Markets
<1>2. /\ Solvent(funds) /\ Owned(funds) + InChain(escrows) = 0
      /\ \A l \in DOMAIN listings : listings[l].quantity + Reserved(escrows, l) <= stock[l]
      BY DEF IInv, Market, Sound, Balanced, Covered
<1>3. Owned(funds) \in Int /\ InChain(escrows) \in Nat /\ \A l : Reserved(escrows, l) \in Nat
      BY <1>1, OwnedInt, TableSums
<1>4. /\ listings \in [DOMAIN listings -> Listing] /\ DOMAIN listings \subseteq 1..MaxListings
      /\ escrows \in [DOMAIN escrows -> Escrow] /\ DOMAIN escrows \subseteq 1..MaxEscrows
      BY <1>1, ListingTable, EscrowTable
<1>5. \A l \in DOMAIN listings : listings[l].quantity \in Int
      BY <1>4, ConstantNats DEF Listing
<1>6. \A l \in DOMAIN listings : stock[l] \in Int  BY <1>1, <1>4
<1> QED BY <1>1, <1>2, <1>3, <1>4, <1>5, <1>6

(* The invariant from its parts, for a state given by its record. *)
LEMMA Whole ==
  ASSUME funds' \in Funds, escrows' \in Escrows, listings' \in Listings,
         stock' \in [1..MaxListings -> Int], listings_count' \in [Accounts -> Nat],
         next_escrow' \in 1..(MaxEscrows + 1), next_listing' \in 1..(MaxListings + 1),
         Solvent(funds'), Owned(funds') + InChain(escrows') = 0,
         \A l \in DOMAIN listings' : listings'[l].quantity + Reserved(escrows', l) <= stock'[l],
         Counted(listings', listings_count'),
         GivenOut(escrows', listings', next_escrow', next_listing')
  PROVE  IInv'
<1>1. TypeOK'  BY DEF TypeOK, Market, Markets
<1>2. Sound(Market)'  BY DEF Market, Sound, Balanced, Covered
<1> QED BY <1>1, <1>2 DEF IInv

(* The same publishers host the same listings. *)
LEMMA SameHosted ==
  ASSUME NEW ls, NEW ks, NEW count, Counted(ls, count), DOMAIN ks = DOMAIN ls,
         \A l \in DOMAIN ls : ks[l].publisher = ls[l].publisher
  PROVE  Counted(ks, count)
<1>1. \A a \in Accounts : Hosted(ks, a) = Hosted(ls, a)  BY DEF Hosted
<1> QED BY <1>1 DEF Counted

(* The invariant holds at the start. *)
THEOREM InitIInv == Init => IInv
<1> SUFFICES ASSUME Init PROVE IInv  OBVIOUS
<1>0. /\ IsFiniteSet(Accounts) /\ Supply \in [Accounts -> Nat]
      /\ MaxListings \in Nat /\ MaxEscrows \in Nat
      BY MarketplaceAssumption
<1>1. SumFunction(Supply) \in Nat  BY <1>0, SumFunctionNat
<1>2. funds \in Funds  BY <1>0, <1>1 DEF Init, Funds
<1>3. escrows \in Escrows /\ listings \in Listings /\ DOMAIN escrows = {} /\ DOMAIN listings = {}
  <2>1. DOMAIN escrows = {} /\ DOMAIN listings = {}  BY DEF Init
  <2>2. escrows \in [DOMAIN escrows -> Escrow] /\ listings \in [DOMAIN listings -> Listing]
        BY DEF Init
  <2> QED BY <2>1, <2>2, EscrowTable, ListingTable
<1>4. TypeOK  BY <1>0, <1>2, <1>3 DEF Init, TypeOK, Market, Markets
<1>5. Solvent(funds)  BY <1>0 DEF Init, Solvent
<1>6. Owned(funds) = 0
  <2> DEFINE w == [a \in Accounts |-> funds.balance[a] + funds.vesting[a]]
  <2>1. DOMAIN w = DOMAIN Supply /\ Agree(w, Supply, DOMAIN Supply)  BY <1>0 DEF Init, Agree
  <2>2. IntFunction(Supply)  BY <1>0 DEF IntFunction, IntOn
  <2>3. funds.fees = 0 /\ funds.supply = SumFunction(Supply)  BY DEF Init
  <2>4. Owned(funds) = SumFunction(w) + funds.fees - funds.supply  BY DEF Owned
  <2> HIDE DEF w
  <2>5. SumFunction(w) = SumFunction(Supply)  BY <2>1, <2>2, SumFunctionSame
  <2> QED BY <1>1, <2>3, <2>4, <2>5
<1>7. InChain(escrows) = 0
  <2>1. DOMAIN HeldOf(escrows) = {}  BY <1>3 DEF HeldOf
  <2>2. InChain(escrows) = SumFunctionOnSet(HeldOf(escrows), {})  BY <1>3, <2>1, TableSums DEF SumFunction
  <2> QED BY <2>2, SumEmpty
<1>8. Sound(Market)  BY <1>3, <1>5, <1>6, <1>7 DEF Sound, Market, Balanced, Covered
<1>9. Counted(listings, listings_count)
  <2>1. \A a \in Accounts : Hosted(listings, a) = {}  BY <1>3 DEF Hosted
  <2> QED BY <2>1, FS_EmptySet DEF Init, Counted
<1>10. GivenOut(escrows, listings, next_escrow, next_listing)  BY <1>3 DEF GivenOut
<1> QED BY <1>4, <1>8, <1>9, <1>10 DEF IInv
-----------------------------------------------------------------------------
(* One lemma per action: it preserves the invariant. *)

(* Items leave the stock only when it has them. *)
LEMMA TakenFromStock ==
  ASSUME IInv, NEW listing \in DOMAIN listings \cup {NoListing}, NEW count \in Nat,
         NEW amount, NEW seller, InStock(listing, count, amount, seller)
  PROVE  LET ls == TakeFromStock(listing, count)
         IN  /\ ls \in Listings /\ DOMAIN ls = DOMAIN listings
             /\ \A l \in DOMAIN listings :
                  /\ ls[l].publisher = listings[l].publisher
                  /\ ls[l].quantity = listings[l].quantity - (IF l = listing THEN count ELSE 0)
<1> DEFINE ls == TakeFromStock(listing, count)
<1>1. /\ listings \in Listings /\ listings \in [DOMAIN listings -> Listing]
      /\ DOMAIN listings \subseteq 1..MaxListings
      /\ \A l \in DOMAIN listings : listings[l].quantity \in Int
      BY Parts
<1>2. CASE listing = NoListing
  <2>1. ls = listings  BY <1>2 DEF TakeFromStock
  <2>2. \A l \in DOMAIN listings : l # listing  BY <1>1, <1>2, ConstantNats DEF NoListing
  <2> HIDE DEF ls
  <2> QED BY <1>1, <2>1, <2>2 DEF ls
<1>3. CASE listing # NoListing
  <2>1. listing \in DOMAIN listings /\ listings[listing].quantity >= count  BY <1>3 DEF InStock
  <2> DEFINE q == listings[listing].quantity - count
  <2>2. q \in 0..(QuantityModulus - 1)  BY <1>1, <2>1, ConstantNats DEF Listing
  <2>3. ls = [listings EXCEPT ![listing].quantity = q]  BY <1>3 DEF TakeFromStock
  <2> HIDE DEF ls
  <2>4. ls \in [DOMAIN listings -> Listing]
        /\ \A l \in DOMAIN listings :
              /\ ls[l].publisher = listings[l].publisher
              /\ ls[l].quantity = IF l = listing THEN q ELSE listings[l].quantity
    <3> HIDE DEF q
    <3> QED BY <1>1, <2>1, <2>2, <2>3 DEF Listing
  <2>5. ls \in Listings  BY <1>1, <2>4, ListingTable
  <2> QED BY <1>1, <2>4, <2>5 DEF ls
<1> QED BY <1>2, <1>3

(* transfer_evaluator keeps the invariant, for a plain transfer and for a  *)
(* purchase.                                                               *)
LEMMA TransferStep ==
  ASSUME IInv, NEW from \in Accounts, NEW to \in Accounts, NEW amount \in Amounts,
         NEW listing \in DOMAIN listings \cup {NoListing}, NEW count \in Nat,
         NEW fee \in FeeOffers, transfer(from, to, amount, listing, count, fee)
  PROVE  IInv'
<1> DEFINE sale == IF listing = NoListing THEN 0 ELSE sale_fee_sum(fee)
           paid == adjust_balance(funds, from, -amount)
           split == IF listing = NoListing THEN paid ELSE deposit_sale_fees(paid, fee, from, to)
           got == adjust_balance(split, to, amount - sale)
           pf == PurchaseFee(listing)
<1>0. /\ funds' = pay_fee(got, from, pf)
      /\ listings' = TakeFromStock(listing, count)
      /\ stock' = IF listing = NoListing THEN stock ELSE [stock EXCEPT ![listing] = @ - count]
      /\ UNCHANGED <<escrows, listings_count, next_escrow, next_listing>>
      BY DEF transfer
<1>1. /\ funds \in Funds /\ escrows \in Escrows /\ stock \in [1..MaxListings -> Int]
      /\ listings_count \in [Accounts -> Nat]
      /\ next_escrow \in 1..(MaxEscrows + 1) /\ next_listing \in 1..(MaxListings + 1)
      /\ Solvent(funds) /\ Owned(funds) \in Int /\ InChain(escrows) \in Nat
      /\ Owned(funds) + InChain(escrows) = 0
      BY Parts
<1>2. amount \in Nat /\ fee \in Fees /\ pf \in Nat /\ MaxListings \in Nat
      BY MarketplaceAssumption DEF Fees, PurchaseFee
<1>3. /\ funds.balance[from] >= amount + pf /\ InStock(listing, count, amount, to)
      /\ fee_sum(fee) <= amount /\ from # to
      BY DEF transfer, CanPay
<1>4. /\ fee.omnibazaar \in Nat /\ fee.escrow \in Nat /\ fee.referrer_buyer \in Nat
      /\ fee.referrer_seller \in Nat
      BY <1>2 DEF Fees, FeeTypes
<1>5. sale \in Nat /\ amount - sale \in Nat /\ (listing # NoListing => sale = sale_fee_sum(fee))
  <2>1. sale_fee_sum(fee) \in Nat /\ sale_fee_sum(fee) <= fee_sum(fee) /\ fee_sum(fee) \in Nat
        BY <1>4 DEF sale_fee_sum, fee_sum
  <2> QED BY <1>2, <1>3, <2>1
<1>6. funds.balance[from] \in Int /\ -amount \in Int /\ pf \in Int /\ amount - sale \in Int
      BY <1>1, <1>2, <1>5 DEF Funds
<1> HIDE DEF pf
<1>7. /\ paid \in Funds /\ Owned(paid) = Owned(funds) + (-amount)  BY <1>1, <1>6, AdjustBalance
<1>8. /\ Solvent(paid) /\ paid.balance[from] = funds.balance[from] + (-amount)
  <2>1. funds.balance[from] + (-amount) >= 0  BY <1>2, <1>3, <1>6
  <2> QED BY <1>1, <1>6, <2>1, AdjustSolvent
<1> HIDE DEF paid
<1>9. split \in Funds /\ Owned(split) = Owned(paid) + sale /\ Solvent(split)
      /\ split.balance = paid.balance
  <2>1. CASE listing = NoListing  BY <1>7, <1>8, <2>1, OwnedInt
  <2>2. CASE listing # NoListing
    <3>1. split = deposit_sale_fees(paid, fee, from, to)  BY <2>2
    <3>2. split \in Funds /\ Owned(split) = Owned(paid) + sale_fee_sum(fee)
          BY <1>2, <1>7, <3>1, DepositSaleFees
    <3>3. Solvent(split) /\ split.balance = paid.balance
          BY <1>2, <1>7, <1>8, <3>1, SaleFeesSolvent
    <3> QED BY <1>5, <2>2, <3>2, <3>3
  <2> QED BY <2>1, <2>2
<1> HIDE DEF split
<1>10. got \in Funds /\ Owned(got) = Owned(split) + (amount - sale)  BY <1>6, <1>9, AdjustBalance
<1>11. Solvent(got) /\ got.balance[from] = split.balance[from]
  <2>1. split.balance[to] + (amount - sale) >= 0  BY <1>5, <1>9 DEF Solvent, Funds
  <2> QED BY <1>3, <1>6, <1>9, <2>1, AdjustSolvent
<1> HIDE DEF got
<1>12. got.balance[from] >= pf
  <2>1. got.balance[from] = funds.balance[from] + (-amount)  BY <1>8, <1>9, <1>11
  <2>2. funds.balance[from] >= amount + pf /\ amount \in Nat  BY <1>2, <1>3
  <2> QED BY <1>6, <2>1, <2>2
<1>13. funds' \in Funds /\ Owned(funds') = Owned(got)  BY <1>0, <1>6, <1>10, PayFee
<1>14. Solvent(funds')  BY <1>0, <1>2, <1>10, <1>11, <1>12, PaySolvent
<1>15. Owned(funds') = Owned(funds)
  <2> HIDE DEF sale
  <2> QED BY <1>1, <1>2, <1>5, <1>7, <1>9, <1>10, <1>13
<1>16. /\ listings' \in Listings /\ DOMAIN listings' = DOMAIN listings
       /\ \A l \in DOMAIN listings :
            /\ listings'[l].publisher = listings[l].publisher
            /\ listings'[l].quantity = listings[l].quantity - (IF l = listing THEN count ELSE 0)
       BY <1>0, <1>3, TakenFromStock
<1>17. /\ stock' \in [1..MaxListings -> Int]
       /\ \A l \in DOMAIN listings : stock'[l] = stock[l] - (IF l = listing THEN count ELSE 0)
  <2>1. \A l \in DOMAIN listings : l \in 1..MaxListings /\ l # NoListing /\ stock[l] \in Int
        BY <1>2, Parts DEF NoListing
  <2>2. CASE listing = NoListing  BY <1>0, <1>1, <2>1, <2>2
  <2>3. CASE listing # NoListing  BY <1>0, <1>1, <2>1, <2>3
  <2> QED BY <2>2, <2>3
<1>18. ASSUME NEW l \in DOMAIN listings'
       PROVE  listings'[l].quantity + Reserved(escrows', l) <= stock'[l]
  <2>1. /\ listings[l].quantity + Reserved(escrows, l) <= stock[l] /\ Reserved(escrows, l) \in Nat
        /\ listings[l].quantity \in Int /\ stock[l] \in Int
        BY <1>16, Parts
  <2>2. Reserved(escrows', l) = Reserved(escrows, l)  BY <1>0
  <2> QED BY <1>16, <1>17, <2>1, <2>2
<1>19. Counted(listings', listings_count')  BY <1>0, <1>16, SameHosted DEF IInv
<1>20. GivenOut(escrows', listings', next_escrow', next_listing')
       BY <1>0, <1>16 DEF IInv, GivenOut
<1> QED BY <1>0, <1>1, <1>13, <1>14, <1>15, <1>16, <1>17, <1>18, <1>19, <1>20, Whole

(* escrow_create_evaluator keeps the invariant: the coins and the items    *)
(* are held back by the new escrow.                                        *)
LEMMA EscrowCreateStep ==
  ASSUME IInv, NEW buyer \in Accounts, NEW seller \in Accounts, NEW agent \in AcceptedEscrows[buyer],
         NEW amount \in Amounts, NEW to_agent \in BOOLEAN,
         NEW listing \in DOMAIN listings \cup {NoListing}, NEW count \in Nat,
         NEW fee \in FeeOffers, NEW lifetime \in 1..EscrowLifetime,
         escrow_create(buyer, seller, agent, amount, to_agent, listing, count, fee, lifetime)
  PROVE  IInv'
<1> DEFINE taken == adjust_balance(funds, buyer, -amount)
           held == IF to_agent THEN adjust_balance(taken, agent, amount) ELSE taken
           pf == PurchaseFee(listing)
           x == [buyer |-> buyer, seller |-> seller, agent |-> agent, amount |-> amount,
                 transfer_to_escrow |-> to_agent, listing |-> listing,
                 count |-> count, fee |-> fee, expires_in |-> lifetime]
<1>0. /\ escrows' = Put(escrows, next_escrow, x) /\ next_escrow' = next_escrow + 1
      /\ funds' = pay_fee(held, buyer, pf)
      /\ listings' = TakeFromStock(listing, count)
      /\ UNCHANGED <<listings_count, next_listing, stock>>
      BY DEF escrow_create
<1>1. /\ funds \in Funds /\ escrows \in Escrows /\ stock \in [1..MaxListings -> Int]
      /\ listings_count \in [Accounts -> Nat]
      /\ next_escrow \in 1..(MaxEscrows + 1) /\ next_listing \in 1..(MaxListings + 1)
      /\ Solvent(funds) /\ Owned(funds) \in Int /\ InChain(escrows) \in Nat
      /\ Owned(funds) + InChain(escrows) = 0
      /\ escrows \in [DOMAIN escrows -> Escrow] /\ DOMAIN escrows \subseteq 1..MaxEscrows
      /\ DOMAIN listings \subseteq 1..MaxListings
      BY Parts
<1>2. /\ amount \in Nat /\ fee \in Fees /\ pf \in Nat /\ MaxListings \in Nat /\ MaxEscrows \in Nat
      /\ agent \in Accounts /\ lifetime \in Int
      BY MarketplaceAssumption DEF Fees, PurchaseFee
<1>3. /\ next_escrow <= MaxEscrows
      /\ funds.balance[buyer] >= amount + pf /\ InStock(listing, count, amount, seller)
      /\ fee_sum(fee) <= amount
      BY DEF escrow_create, CanPay
<1>4. x \in Escrow
  <2>1. listing \in 0..MaxListings  BY <1>1, <1>2, SMTT(30) DEF NoListing
  <2> QED BY <1>2, <1>3, <2>1 DEF Escrow, EscrowFields
<1>5. funds.balance[buyer] \in Int /\ -amount \in Int /\ amount \in Int /\ pf \in Int
      BY <1>1, <1>2 DEF Funds
<1> HIDE DEF pf
<1>7. taken \in Funds /\ Owned(taken) = Owned(funds) + (-amount)  BY <1>1, <1>5, AdjustBalance
<1>8. Solvent(taken) /\ taken.balance[buyer] = funds.balance[buyer] + (-amount)
  <2>1. funds.balance[buyer] + (-amount) >= 0  BY <1>2, <1>3, <1>5
  <2> QED BY <1>1, <1>5, <2>1, AdjustSolvent
<1> HIDE DEF taken
<1>9. /\ held \in Funds /\ Owned(held) = Owned(taken) + (IF to_agent THEN amount ELSE 0)
      /\ Solvent(held) /\ held.balance[buyer] >= taken.balance[buyer]
  <2>0. taken.balance[buyer] \in Int /\ taken.balance[agent] \in Int /\ Owned(taken) \in Int
        BY <1>2, <1>7, OwnedInt DEF Funds
  <2>1. CASE to_agent
    <3>1. held = adjust_balance(taken, agent, amount)  BY <2>1
    <3> HIDE DEF held
    <3>2. held \in Funds /\ Owned(held) = Owned(taken) + amount
          BY <1>2, <1>5, <1>7, <3>1, AdjustBalance
    <3>3. taken.balance[agent] + amount >= 0  BY <1>2, <1>8, <2>0 DEF Solvent
    <3>4. /\ Solvent(held) /\ held.balance[agent] = taken.balance[agent] + amount
          /\ \A b \in Accounts : b # agent => held.balance[b] = taken.balance[b]
          BY <1>2, <1>5, <1>7, <1>8, <3>1, <3>3, AdjustSolvent
    <3>5. held.balance[buyer] >= taken.balance[buyer]
      <4>1. CASE agent = buyer  BY <1>2, <2>0, <3>4, <4>1
      <4>2. CASE agent # buyer  BY <2>0, <3>4, <4>2
      <4> QED BY <4>1, <4>2
    <3> QED BY <2>1, <3>2, <3>4, <3>5
  <2>2. CASE ~to_agent
    <3>1. held = taken  BY <2>2
    <3> HIDE DEF held
    <3> QED BY <1>7, <1>8, <2>0, <2>2, <3>1
  <2> QED BY <2>1, <2>2
<1> HIDE DEF held
<1>12. held.balance[buyer] >= pf
  <2>1. held.balance[buyer] \in Int /\ taken.balance[buyer] \in Int  BY <1>7, <1>9 DEF Funds
  <2>2. taken.balance[buyer] >= pf  BY <1>2, <1>3, <1>5, <1>8, <2>1
  <2> QED BY <1>2, <1>9, <2>1, <2>2
<1>13. funds' \in Funds /\ Owned(funds') = Owned(held)  BY <1>0, <1>5, <1>9, PayFee
<1>14. Solvent(funds')  BY <1>0, <1>2, <1>9, <1>12, PaySolvent
<1>15. next_escrow \notin DOMAIN escrows /\ next_escrow \in 1..MaxEscrows
       BY <1>1, <1>2, <1>3 DEF IInv, GivenOut
<1>16. /\ escrows' \in [DOMAIN escrows' -> Escrow] /\ DOMAIN escrows' = DOMAIN escrows \cup {next_escrow}
       /\ escrows'[next_escrow] = x /\ Agree(escrows, escrows', DOMAIN escrows)
       BY <1>0, <1>1, <1>4, <1>15 DEF Put, Agree
<1>17. escrows' \in Escrows  BY <1>1, <1>15, <1>16, EscrowTable
<1>18. /\ InChain(escrows') = InChain(escrows) + (IF to_agent THEN 0 ELSE amount)
       /\ \A l : Reserved(escrows', l) = Reserved(escrows, l) + (IF listing = l THEN count ELSE 0)
  <2>1. next_escrow \in DOMAIN escrows' /\ DOMAIN escrows = DOMAIN escrows' \ {next_escrow}
        BY <1>15, <1>16
  <2>2. /\ x.transfer_to_escrow = to_agent /\ x.amount = amount
        /\ x.listing = listing /\ x.count = count
        OBVIOUS
  <2> HIDE DEF x
  <2>3. InChain(escrows') = InChain(escrows)
          + (IF escrows'[next_escrow].transfer_to_escrow THEN 0 ELSE escrows'[next_escrow].amount)
        BY <1>1, <1>16, <1>17, <2>1, TableWithout
  <2>4. \A l : Reserved(escrows', l) = Reserved(escrows, l)
          + (IF escrows'[next_escrow].listing = l THEN escrows'[next_escrow].count ELSE 0)
        BY <1>1, <1>16, <1>17, <2>1, TableWithout
  <2> QED BY <1>16, <2>2, <2>3, <2>4
<1> HIDE DEF x
<1>19. Owned(funds') + InChain(escrows') = 0  BY <1>1, <1>2, <1>7, <1>9, <1>13, <1>18, SMTT(30)
<1>20. /\ listings' \in Listings /\ DOMAIN listings' = DOMAIN listings
       /\ \A l \in DOMAIN listings :
            /\ listings'[l].publisher = listings[l].publisher
            /\ listings'[l].quantity = listings[l].quantity - (IF l = listing THEN count ELSE 0)
       BY <1>0, <1>3, TakenFromStock
<1>21. ASSUME NEW l \in DOMAIN listings'
       PROVE  listings'[l].quantity + Reserved(escrows', l) <= stock'[l]
  <2>1. /\ listings[l].quantity + Reserved(escrows, l) <= stock[l] /\ Reserved(escrows, l) \in Nat
        /\ listings[l].quantity \in Int /\ stock[l] \in Int
        BY <1>20, Parts
  <2>2. Reserved(escrows', l) = Reserved(escrows, l) + (IF l = listing THEN count ELSE 0)  BY <1>18
  <2>3. listings'[l].quantity = listings[l].quantity - (IF l = listing THEN count ELSE 0)
        BY <1>20
  <2>4. stock'[l] = stock[l] /\ count \in Int  BY <1>0
  <2> QED BY <2>1, <2>2, <2>3, <2>4, SMTT(30)
<1>22. Counted(listings', listings_count')  BY <1>0, <1>20, SameHosted DEF IInv
<1>23. GivenOut(escrows', listings', next_escrow', next_listing')
  <2>1. /\ DOMAIN escrows \subseteq 1..(next_escrow - 1) /\ DOMAIN listings \subseteq 1..(next_listing - 1)
        /\ \A id \in DOMAIN escrows : escrows[id].listing < next_listing
        BY DEF IInv, GivenOut
  <2>2. DOMAIN escrows' \subseteq 1..(next_escrow' - 1)  BY <1>0, <1>1, <1>16, <2>1
  <2>3. listing < next_listing  BY <1>1, <2>1 DEF NoListing
  <2>4. \A id \in DOMAIN escrows' : escrows'[id].listing < next_listing
        BY <1>16, <2>1, <2>3 DEF Agree, x
  <2> QED BY <1>0, <1>20, <2>1, <2>2, <2>4 DEF GivenOut
<1>24. next_escrow' \in 1..(MaxEscrows + 1)
  <2>1. next_escrow \in 1..MaxEscrows /\ next_escrow' = next_escrow + 1 /\ MaxEscrows \in Nat
        BY <1>0, <1>2, <1>15
  <2> QED BY <2>1
<1> QED BY <1>0, <1>1, <1>13, <1>14, <1>17, <1>19, <1>20, <1>21, <1>22, <1>23, <1>24, Whole

(* A step to a sound market with the same listings and no new escrow.      *)
LEMMA ClosingStep ==
  ASSUME IInv, NEW n \in Markets, Sound(n), Closing(Market, n), Become(n),
         UNCHANGED <<listings_count, next_escrow, next_listing>>
  PROVE  IInv'
<1>1. /\ n.funds \in Funds /\ n.escrows \in Escrows /\ n.listings \in Listings
      /\ n.stock \in [1..MaxListings -> Int]
      BY DEF Markets
<1>2. /\ Solvent(n.funds) /\ Owned(n.funds) + InChain(n.escrows) = 0
      /\ \A l \in DOMAIN n.listings : n.listings[l].quantity + Reserved(n.escrows, l) <= n.stock[l]
      BY DEF Sound, Balanced, Covered
<1>3. Counted(n.listings, listings_count)
  <2>1. DOMAIN n.listings = DOMAIN listings
        /\ \A l \in DOMAIN listings : n.listings[l].publisher = listings[l].publisher
        BY DEF Closing, Market
  <2> QED BY <2>1, SameHosted DEF IInv
<1>4. GivenOut(n.escrows, n.listings, next_escrow, next_listing)
      BY DEF IInv, GivenOut, Closing, Market
<1> QED BY <1>1, <1>2, <1>3, <1>4, Parts, Whole DEF Become

(* Releasing an escrow to the seller keeps the invariant. *)
LEMMA EscrowReleaseStep ==
  ASSUME IInv, NEW id, escrow_release(id)
  PROVE  IInv'
<1>1. Market \in Markets /\ Sound(Market)  BY DEF IInv, TypeOK
<1>2. CanRelease(Market, id) /\ Become(Released(Market, id))
      /\ UNCHANGED <<listings_count, next_escrow, next_listing>>
      BY DEF escrow_release
<1>3. /\ Released(Market, id) \in Markets /\ Sound(Released(Market, id))
      /\ Closing(Market, Released(Market, id))
      BY <1>1, <1>2, ReleasedSound
<1> QED BY <1>2, <1>3, ClosingStep

(* Returning an escrow to the buyer keeps the invariant. *)
LEMMA EscrowReturnStep ==
  ASSUME IInv, NEW id, escrow_return(id)
  PROVE  IInv'
<1>1. Market \in Markets /\ Sound(Market)  BY DEF IInv, TypeOK
<1>2. CanReturn(Market, id) /\ Become(Returned(Market, id))
      /\ UNCHANGED <<listings_count, next_escrow, next_listing>>
      BY DEF escrow_return
<1>3. /\ Returned(Market, id) \in Markets /\ Sound(Returned(Market, id))
      /\ Closing(Market, Returned(Market, id))
      BY <1>1, <1>2, ReturnedSound
<1> QED BY <1>2, <1>3, ClosingStep

(* Extending an escrow keeps the invariant: only its expiration changes. *)
LEMMA EscrowExtendStep ==
  ASSUME IInv, NEW id \in DOMAIN escrows, NEW payer \in Accounts, NEW lifetime \in 1..EscrowLifetime,
         escrow_extend(id, payer, lifetime)
  PROVE  IInv'
<1>1. /\ funds \in Funds /\ escrows \in Escrows /\ Solvent(funds)
      /\ Owned(funds) + InChain(escrows) = 0
      /\ escrows \in [DOMAIN escrows -> Escrow] /\ DOMAIN escrows \subseteq 1..MaxEscrows
      BY Parts
<1>2. OperationFee \in Nat /\ OperationFee \in Int  BY ConstantNats
<1>3. /\ funds.balance[payer] >= OperationFee
      /\ escrows' = [escrows EXCEPT ![id].expires_in = lifetime]
      /\ funds' = pay_fee(funds, payer, OperationFee)
      /\ UNCHANGED <<listings, listings_count, next_escrow, next_listing, stock>>
      BY DEF escrow_extend, CanPay
<1>4. funds' \in Funds /\ Owned(funds') = Owned(funds)  BY <1>1, <1>2, <1>3, PayFee
<1>5. Solvent(funds')  BY <1>1, <1>2, <1>3, PaySolvent
<1>6. /\ escrows' \in [DOMAIN escrows' -> Escrow] /\ DOMAIN escrows' = DOMAIN escrows
      /\ \A j \in DOMAIN escrows' :
           /\ escrows'[j] = [escrows[j] EXCEPT !.expires_in = escrows'[j].expires_in]
           /\ escrows'[j].listing = escrows[j].listing
      BY <1>1, <1>3 DEF Escrow, EscrowFields
<1>7. escrows' \in Escrows  BY <1>1, <1>6, EscrowTable
<1>8. InChain(escrows') = InChain(escrows) /\ \A l : Reserved(escrows', l) = Reserved(escrows, l)
      BY <1>1, <1>6, <1>7, TableSame
<1>9. GivenOut(escrows', listings', next_escrow', next_listing')
      BY <1>3, <1>6 DEF IInv, GivenOut
<1>10. \A l \in DOMAIN listings' : listings'[l].quantity + Reserved(escrows', l) <= stock'[l]
       BY <1>3, <1>8, Parts
<1>11. Counted(listings', listings_count')  BY <1>3 DEF IInv
<1>12. Owned(funds') + InChain(escrows') = 0  BY <1>1, <1>4, <1>8
<1> QED BY <1>3, <1>4, <1>5, <1>7, <1>9, <1>10, <1>11, <1>12, Parts, Whole
-----------------------------------------------------------------------------
(* Publishers' counts when a listing goes and when one comes. *)
LEMMA HostedFinite ==
  ASSUME NEW ls \in Listings, NEW a
  PROVE  IsFiniteSet(Hosted(ls, a))
<1>1. DOMAIN ls \subseteq 1..MaxListings  BY ListingTable
<1>2. IsFiniteSet(1..MaxListings)  BY FS_Interval, ConstantNats
<1>3. Hosted(ls, a) \subseteq 1..MaxListings  BY <1>1 DEF Hosted
<1> QED BY <1>2, <1>3, FS_Subset

(* The counts after listings are gone. *)
LEMMA CountedFewer ==
  ASSUME NEW ls \in Listings, NEW count \in [Accounts -> Nat], Counted(ls, count),
         NEW l \in DOMAIN ls
  PROVE  LET ks == Erase(ls, {l})
             less == Fewer(count, ls[l].publisher, 1)
         IN  ks \in Listings /\ less \in [Accounts -> Nat] /\ Counted(ks, less)
<1> DEFINE ks == Erase(ls, {l})
           less == Fewer(count, ls[l].publisher, 1)
<1>1. ls \in [DOMAIN ls -> Listing] /\ DOMAIN ls \subseteq 1..MaxListings  BY ListingTable
<1>2. /\ DOMAIN ks = DOMAIN ls \ {l} /\ \A k \in DOMAIN ks : ks[k] = ls[k]
      /\ ks \in [DOMAIN ks -> Listing]
      BY <1>1 DEF Erase
<1>3. ks \in Listings  BY <1>1, <1>2, ListingTable
<1>4. ls[l].publisher \in Accounts  BY <1>1 DEF Listing
<1>5. less \in [Accounts -> Nat]  BY <1>4 DEF Fewer
<1>6. ASSUME NEW a \in Accounts PROVE less[a] = Cardinality(Hosted(ks, a))
  <2>1. IsFiniteSet(Hosted(ls, a)) /\ count[a] = Cardinality(Hosted(ls, a)) /\ count[a] \in Nat
        BY HostedFinite DEF Counted
  <2>2. CASE ls[l].publisher = a
    <3>1. Hosted(ks, a) = Hosted(ls, a) \ {l} /\ l \in Hosted(ls, a)  BY <1>2, <2>2 DEF Hosted
    <3>2. Cardinality(Hosted(ks, a)) = count[a] - 1
      <4> DEFINE all == Hosted(ls, a)
      <4>1. IsFiniteSet(all) /\ l \in all  BY <2>1, <3>1
      <4> HIDE DEF all
      <4>2. Cardinality(all \ {l}) = Cardinality(all) - 1  BY <4>1, FS_RemoveElement
      <4> QED BY <2>1, <3>1, <4>2 DEF all
    <3>3. count[a] >= 1
      <4>1. Hosted(ls, a) # {}  BY <3>1
      <4>2. count[a] # 0  BY <2>1, <4>1, FS_EmptySet
      <4> QED BY <2>1, <4>2
    <3> QED BY <1>4, <2>1, <2>2, <3>2, <3>3 DEF Fewer
  <2>3. CASE ls[l].publisher # a
    <3>1. Hosted(ks, a) = Hosted(ls, a)  BY <1>2, <2>3 DEF Hosted
    <3> QED BY <1>4, <2>1, <2>3, <3>1 DEF Fewer
  <2> QED BY <2>2, <2>3
<1> QED BY <1>3, <1>5, <1>6 DEF Counted

(* The counts after a listing is added. *)
LEMMA CountedMore ==
  ASSUME NEW ls \in Listings, NEW count \in [Accounts -> Nat], Counted(ls, count),
         NEW l, l \notin DOMAIN ls, NEW ks, DOMAIN ks = DOMAIN ls \cup {l},
         \A k \in DOMAIN ls : ks[k].publisher = ls[k].publisher,
         ks[l].publisher \in Accounts
  PROVE  LET more == [count EXCEPT ![ks[l].publisher] = @ + 1]
         IN  more \in [Accounts -> Nat] /\ Counted(ks, more)
<1> DEFINE more == [count EXCEPT ![ks[l].publisher] = @ + 1]
<1>1. more \in [Accounts -> Nat]  OBVIOUS
<1>2. ASSUME NEW a \in Accounts PROVE more[a] = Cardinality(Hosted(ks, a))
  <2>1. IsFiniteSet(Hosted(ls, a)) /\ count[a] = Cardinality(Hosted(ls, a)) /\ count[a] \in Nat
        BY HostedFinite DEF Counted
  <2>2. CASE ks[l].publisher = a
    <3>1. Hosted(ks, a) = Hosted(ls, a) \cup {l} /\ l \notin Hosted(ls, a)  BY <2>2 DEF Hosted
    <3> DEFINE hosted == Hosted(ls, a)
    <3>2. Cardinality(hosted \cup {l}) = Cardinality(hosted) + 1
      <4>1. IsFiniteSet(hosted) /\ l \notin hosted  BY <2>1, <3>1
      <4> HIDE DEF hosted
      <4> QED BY <4>1, FS_AddElement
    <3>3. Cardinality(Hosted(ks, a)) = count[a] + 1  BY <2>1, <3>1, <3>2
    <3> QED BY <2>1, <2>2, <3>3
  <2>3. CASE ks[l].publisher # a
    <3>1. Hosted(ks, a) = Hosted(ls, a)  BY <2>3 DEF Hosted
    <3> QED BY <2>1, <2>3, <3>1
  <2> QED BY <2>2, <2>3
<1> QED BY <1>1, <1>2 DEF Counted

(* Publishers are paid by sellers. *)
LEMMA PublisherPaid ==
  ASSUME IInv, NEW seller \in Accounts, NEW publisher \in Accounts, NEW fee \in Nat,
         CanPay(funds, seller, fee + OperationFee)
  PROVE  LET e == PayPublisher(seller, publisher, fee)
         IN  e \in Funds /\ Solvent(e) /\ Owned(e) = Owned(funds)
<1> DEFINE f1 == adjust_balance(funds, seller, -fee)
           f2 == deposit_fee(f1, publisher, fee)
           f3 == pay_fee(f2, seller, OperationFee)
<1>0. f3 = PayPublisher(seller, publisher, fee)  BY DEF PayPublisher
<1>1. /\ OperationFee \in Nat /\ OperationFee \in Int /\ fee \in Int /\ -fee \in Int
      /\ funds \in Funds /\ Solvent(funds) /\ Owned(funds) \in Int
      BY ConstantNats, Parts
<1>2. funds.balance[seller] \in Int /\ funds.balance[seller] >= fee + OperationFee
      BY <1>1 DEF CanPay, Funds
<1>3. f1 \in Funds /\ Owned(f1) = Owned(funds) + (-fee)  BY <1>1, AdjustBalance
<1>4. Solvent(f1) /\ f1.balance[seller] = funds.balance[seller] + (-fee)
  <2>1. funds.balance[seller] + (-fee) >= 0  BY <1>1, <1>2
  <2> QED BY <1>1, <2>1, AdjustSolvent
<1> HIDE DEF f1
<1>5. f2 \in Funds /\ Owned(f2) = Owned(f1) + fee  BY <1>1, <1>3, DepositFee
<1>6. Solvent(f2) /\ f2.balance = f1.balance  BY <1>3, <1>4, DepositSolvent
<1> HIDE DEF f2
<1>7. f2.balance[seller] >= OperationFee  BY <1>1, <1>2, <1>4, <1>6
<1>8. f3 \in Funds /\ Owned(f3) = Owned(f2)  BY <1>1, <1>5, PayFee
<1>9. Solvent(f3)  BY <1>1, <1>5, <1>6, <1>7, PaySolvent
<1> HIDE DEF f3
<1> QED BY <1>0, <1>1, <1>3, <1>5, <1>8, <1>9

(* Nothing is reserved of a listing that no escrow names. *)
LEMMA NoneReserved ==
  ASSUME NEW xs \in Escrows, NEW l, \A id \in DOMAIN xs : xs[id].listing # l
  PROVE  Reserved(xs, l) = 0
<1>1. Reserved(xs, l) = SumFunctionOnSet(CountOf(xs, l), DOMAIN xs)
  <2>1. DOMAIN CountOf(xs, l) = DOMAIN xs  BY DEF CountOf
  <2> QED BY <2>1, TableSums DEF SumFunction
<1>2. \A id \in DOMAIN xs : CountOf(xs, l)[id] = 0  BY DEF CountOf
<1>3. IsFiniteSet(DOMAIN xs)
  <2>1. DOMAIN xs \subseteq 1..MaxEscrows  BY EscrowTable
  <2>2. IsFiniteSet(1..MaxEscrows)  BY FS_Interval, ConstantNats
  <2> QED BY <2>1, <2>2, FS_Subset
<1> QED BY <1>1, <1>2, <1>3, SumZero

(* listing_create_evaluator keeps the invariant. *)
LEMMA ListingCreateStep ==
  ASSUME IInv, NEW seller \in Accounts, NEW form \in ListingForms, NEW fee \in PublisherFees,
         listing_create(seller, form, fee)
  PROVE  IInv'
<1> DEFINE x == [seller |-> seller, publisher |-> form.publisher, price |-> form.price,
                 hash |-> form.hash, quantity |-> form.quantity,
                 priority_fee |-> form.priority_fee, seller_score |-> pop_score[seller],
                 reported_score |-> 0, reported_accounts |-> {},
                 expires_in |-> ListingLifetime]
<1>0. /\ listings' = Put(listings, next_listing, x) /\ next_listing' = next_listing + 1
      /\ funds' = PayPublisher(seller, form.publisher, fee)
      /\ listings_count' = [listings_count EXCEPT ![form.publisher] = @ + 1]
      /\ stock' = [stock EXCEPT ![next_listing] = form.quantity]
      /\ UNCHANGED <<escrows, next_escrow>>
      BY DEF listing_create
<1>1. /\ form.publisher \in Accounts /\ form.price \in Nat /\ form.hash \in Hashes
      /\ form.quantity \in 0..(QuantityModulus - 1) /\ form.priority_fee \in Nat
      BY MarketplaceAssumption
<1>2. /\ pop_score[seller] \in Nat /\ ListingLifetime \in Int /\ fee \in Nat
      /\ QuantityModulus \in Nat /\ MaxListings \in Nat
      BY ConstantNats, ScoreNat
<1>3. /\ next_listing <= MaxListings /\ CanPay(funds, seller, fee + OperationFee)
      BY DEF listing_create
<1>4. x \in Listing /\ x.publisher = form.publisher /\ x.quantity = form.quantity
      BY <1>1, <1>2 DEF Listing
<1> HIDE DEF x
<1>5. /\ next_listing \in 1..(MaxListings + 1) /\ stock \in [1..MaxListings -> Int]
      /\ listings \in Listings /\ escrows \in Escrows /\ listings_count \in [Accounts -> Nat]
      /\ listings \in [DOMAIN listings -> Listing] /\ DOMAIN listings \subseteq 1..MaxListings
      /\ Owned(funds) + InChain(escrows) = 0
      BY Parts
<1>6. next_listing \in 1..MaxListings /\ next_listing' \in 1..(MaxListings + 1)
  <2>1. next_listing \in 1..MaxListings  BY <1>2, <1>3, <1>5
  <2>2. next_listing' = next_listing + 1  BY <1>0
  <2> QED BY <1>2, <2>1, <2>2
<1>7. /\ DOMAIN listings \subseteq 1..(next_listing - 1) /\ DOMAIN escrows \subseteq 1..(next_escrow - 1)
      /\ \A id \in DOMAIN escrows : escrows[id].listing < next_listing
      BY DEF IInv, GivenOut
<1>8. next_listing \notin DOMAIN listings  BY <1>6, <1>7
<1>9. /\ DOMAIN listings' = DOMAIN listings \cup {next_listing}
      /\ listings'[next_listing] = x /\ \A l \in DOMAIN listings : listings'[l] = listings[l]
      /\ listings' \in [DOMAIN listings' -> Listing]
      BY <1>0, <1>4, <1>5, <1>8 DEF Put
<1>10. listings' \in Listings  BY <1>5, <1>6, <1>9, ListingTable
<1>11. funds' \in Funds /\ Solvent(funds') /\ Owned(funds') = Owned(funds)
       BY <1>0, <1>1, <1>2, <1>3, PublisherPaid
<1>12. listings_count' \in [Accounts -> Nat] /\ Counted(listings', listings_count')
  <2>1. Counted(listings, listings_count)  BY DEF IInv
  <2>2. listings'[next_listing].publisher \in Accounts
        /\ listings_count' = [listings_count EXCEPT ![listings'[next_listing].publisher] = @ + 1]
        BY <1>0, <1>1, <1>4, <1>9
  <2>3. /\ listings \in Listings /\ listings_count \in [Accounts -> Nat]
        /\ DOMAIN listings' = DOMAIN listings \cup {next_listing}
        /\ \A l \in DOMAIN listings : listings'[l].publisher = listings[l].publisher
        BY <1>5, <1>9
  <2> QED BY <1>8, <2>1, <2>2, <2>3, CountedMore
<1>13. stock' \in [1..MaxListings -> Int]
  <2>1. form.quantity \in Int  BY <1>1, <1>2
  <2>2. stock' = [stock EXCEPT ![next_listing] = form.quantity]  BY <1>0
  <2> QED BY <1>5, <2>1, <2>2
<1>14. ASSUME NEW l \in DOMAIN listings'
       PROVE  listings'[l].quantity + Reserved(escrows', l) <= stock'[l]
  <2>1. CASE l = next_listing
    <3>1. Reserved(escrows, l) = 0
      <4>1. \A id \in DOMAIN escrows : escrows[id].listing # l  BY <1>6, <1>7, <2>1
      <4> QED BY <1>5, <4>1, NoneReserved
    <3>2. listings'[l].quantity = form.quantity /\ stock'[l] = form.quantity
          BY <1>0, <1>4, <1>5, <1>6, <1>9, <2>1
    <3>3. escrows' = escrows /\ form.quantity \in Int  BY <1>0, <1>1, <1>2, SMTT(30)
    <3> QED BY <3>1, <3>2, <3>3
  <2>2. CASE l # next_listing
    <3>1. l \in DOMAIN listings /\ listings'[l] = listings[l] /\ stock'[l] = stock[l]
          BY <1>0, <1>5, <1>9, <2>2
    <3> QED BY <1>0, <3>1, Parts
  <2> QED BY <2>1, <2>2
<1>15. GivenOut(escrows', listings', next_escrow', next_listing')
  <2>1. DOMAIN listings' \subseteq 1..(next_listing' - 1)  BY <1>0, <1>6, <1>7, <1>9
  <2>2. escrows \in [DOMAIN escrows -> Escrow]  BY Parts
  <2>3. \A id \in DOMAIN escrows : escrows[id].listing \in Int
        BY <1>2, <2>2 DEF Escrow, EscrowFields
  <2>4. \A id \in DOMAIN escrows : escrows[id].listing < next_listing'
    <3>1. next_listing' = next_listing + 1 /\ next_listing \in Int  BY <1>0, <1>6
    <3>2. \A id \in DOMAIN escrows : escrows[id].listing < next_listing  BY <1>7
    <3> QED BY <2>3, <3>1, <3>2
  <2> QED BY <1>0, <1>7, <2>1, <2>4 DEF GivenOut
<1> QED BY <1>0, <1>5, <1>6, <1>10, <1>11, <1>12, <1>13, <1>14, <1>15, Parts, Whole

(* listing_delete_evaluator keeps the invariant. *)
LEMMA ListingDeleteStep ==
  ASSUME IInv, NEW id \in DOMAIN listings, listing_delete(id)
  PROVE  IInv'
<1>1. /\ listings_count' = Fewer(listings_count, listings[id].publisher, 1)
      /\ listings' = Erase(listings, {id})
      /\ UNCHANGED <<funds, escrows, next_escrow, next_listing, stock>>
      BY DEF listing_delete
<1>2. /\ listings \in Listings /\ listings_count \in [Accounts -> Nat]
      /\ Counted(listings, listings_count)
      BY Parts DEF IInv
<1>3. /\ listings' \in Listings /\ listings_count' \in [Accounts -> Nat]
      /\ Counted(listings', listings_count')
      BY <1>1, <1>2, CountedFewer
<1>4. /\ DOMAIN listings' \subseteq DOMAIN listings
      /\ \A l \in DOMAIN listings' : listings'[l] = listings[l]
      BY <1>1 DEF Erase
<1>5. \A l \in DOMAIN listings' : listings'[l].quantity + Reserved(escrows', l) <= stock'[l]
      BY <1>1, <1>4, Parts
<1>6. GivenOut(escrows', listings', next_escrow', next_listing')
      BY <1>1, <1>4 DEF IInv, GivenOut
<1> QED BY <1>1, <1>3, <1>5, <1>6, Parts, Whole

(* listing_report_evaluator keeps the invariant. *)
LEMMA ListingReportStep ==
  ASSUME IInv, NEW id \in DOMAIN listings, NEW reporter \in Accounts, listing_report(id, reporter)
  PROVE  IInv'
<1> DEFINE score == listings[id].reported_score + pop_score[reporter]
           ban == Banned(listings[id], score)
<1>1. /\ CanPay(funds, reporter, OperationFee)
      /\ listings_count' = IF ban THEN Fewer(listings_count, listings[id].publisher, 1)
                                  ELSE listings_count
      /\ listings' = IF ban THEN Erase(listings, {id})
                     ELSE [listings EXCEPT ![id].reported_score = score,
                                           ![id].reported_accounts = @ \cup {reporter}]
      /\ funds' = pay_fee(funds, reporter, OperationFee)
      /\ UNCHANGED <<escrows, next_escrow, next_listing, stock>>
      BY DEF listing_report
<1>2. /\ listings \in Listings /\ listings_count \in [Accounts -> Nat]
      /\ Counted(listings, listings_count)
      /\ listings \in [DOMAIN listings -> Listing] /\ DOMAIN listings \subseteq 1..MaxListings
      /\ funds \in Funds /\ Solvent(funds) /\ Owned(funds) + InChain(escrows) = 0
      BY Parts DEF IInv
<1>3. OperationFee \in Nat /\ OperationFee \in Int /\ pop_score[reporter] \in Nat
      BY ConstantNats, ScoreNat
<1>4. funds' \in Funds /\ Owned(funds') = Owned(funds)  BY <1>1, <1>2, <1>3, PayFee
<1>5. Solvent(funds')  BY <1>1, <1>2, <1>3, PaySolvent DEF CanPay
<1>6. /\ listings' \in Listings /\ listings_count' \in [Accounts -> Nat]
      /\ Counted(listings', listings_count')
      /\ DOMAIN listings' \subseteq DOMAIN listings
      /\ \A l \in DOMAIN listings' : listings'[l].quantity = listings[l].quantity
  <2>1. CASE ban
    <3>1. /\ listings' = Erase(listings, {id})
          /\ listings_count' = Fewer(listings_count, listings[id].publisher, 1)
          BY <1>1, <2>1
    <3>2. /\ listings' \in Listings /\ listings_count' \in [Accounts -> Nat]
          /\ Counted(listings', listings_count')
          BY <1>2, <3>1, CountedFewer
    <3> QED BY <3>1, <3>2 DEF Erase
  <2>2. CASE ~ban
    <3>1. score \in Nat  BY <1>2, <1>3 DEF Listing
    <3> HIDE DEF score, ban
    <3>2. /\ listings' = [listings EXCEPT ![id].reported_score = score,
                                          ![id].reported_accounts = @ \cup {reporter}]
          /\ listings_count' = listings_count
          BY <1>1, <2>2
    <3>3. /\ listings' \in [DOMAIN listings' -> Listing] /\ DOMAIN listings' = DOMAIN listings
          /\ \A l \in DOMAIN listings : /\ listings'[l].publisher = listings[l].publisher
                                        /\ listings'[l].quantity = listings[l].quantity
          BY <1>2, <3>1, <3>2 DEF Listing
    <3>4. listings' \in Listings  BY <1>2, <3>3, ListingTable
    <3>5. Counted(listings', listings_count')  BY <1>2, <3>2, <3>3, SameHosted
    <3> QED BY <1>2, <3>2, <3>3, <3>4, <3>5
  <2> QED BY <2>1, <2>2
<1>7. \A l \in DOMAIN listings' : listings'[l].quantity + Reserved(escrows', l) <= stock'[l]
      BY <1>1, <1>6, Parts
<1>8. GivenOut(escrows', listings', next_escrow', next_listing')
      BY <1>1, <1>6 DEF IInv, GivenOut
<1>9. Owned(funds') + InChain(escrows') = 0  BY <1>1, <1>2, <1>4
<1> QED BY <1>1, <1>4, <1>5, <1>6, <1>7, <1>8, <1>9, Parts, Whole

(* listing_update_evaluator keeps the invariant, also where it moves the   *)
(* listing to another publisher.                                           *)
LEMMA ListingUpdateStep ==
  ASSUME IInv, NEW id \in DOMAIN listings, NEW u \in Updates, NEW fee \in PublisherFees,
         listing_update(id, u, fee)
  PROVE  IInv'
<1> DEFINE old == listings[id]
           Or(new, was) == IF new = Keep THEN was ELSE new
           moved == u.publisher # Keep
           publisher == Or(u.publisher, old.publisher)
           x == [old EXCEPT !.hash = Or(u.hash, @), !.price = Or(u.price, @),
                            !.publisher = publisher, !.quantity = Or(u.quantity, @),
                            !.priority_fee = Or(u.priority_fee, @),
                            !.expires_in = ListingLifetime]
           less == Fewer(listings_count, old.publisher, 1)
<1>1. /\ CanPay(funds, old.seller, fee + OperationFee)
      /\ listings_count' = IF moved THEN [less EXCEPT ![publisher] = @ + 1] ELSE listings_count
      /\ listings' = [listings EXCEPT ![id] = x]
      /\ funds' = PayPublisher(old.seller, publisher, fee)
      /\ stock' = IF u.quantity = Keep THEN stock
                  ELSE [stock EXCEPT ![id] = u.quantity + Reserved(escrows, id)]
      /\ UNCHANGED <<escrows, next_escrow, next_listing>>
      BY DEF listing_update
<1>2. /\ u.publisher \in Accounts \cup {Keep} /\ u.price \in Nat \cup {Keep}
      /\ u.hash \in Hashes \cup {Keep} /\ u.quantity \in 0..(QuantityModulus - 1) \cup {Keep}
      /\ u.priority_fee \in Nat \cup {Keep}
      BY MarketplaceAssumption
<1>3. fee \in Nat /\ ListingLifetime \in Int /\ QuantityModulus \in Nat /\ MaxListings \in Nat
      BY ConstantNats
<1>4. /\ listings \in Listings /\ escrows \in Escrows /\ stock \in [1..MaxListings -> Int]
      /\ listings_count \in [Accounts -> Nat] /\ Counted(listings, listings_count)
      /\ listings \in [DOMAIN listings -> Listing] /\ DOMAIN listings \subseteq 1..MaxListings
      /\ Owned(funds) + InChain(escrows) = 0
      /\ \A l : Reserved(escrows, l) \in Nat
      BY Parts DEF IInv
<1>5. old \in Listing  BY <1>4
<1>6. /\ old.seller \in Accounts /\ old.publisher \in Accounts /\ publisher \in Accounts
      BY <1>2, <1>5 DEF Listing
<1>7. x \in Listing
  <2>1. /\ Or(u.hash, old.hash) \in Hashes /\ Or(u.price, old.price) \in Nat
        /\ Or(u.quantity, old.quantity) \in 0..(QuantityModulus - 1)
        /\ Or(u.priority_fee, old.priority_fee) \in Nat
        BY <1>2, <1>5 DEF Listing
  <2> HIDE DEF old, publisher
  <2> QED BY <1>3, <1>5, <1>6, <2>1 DEF Listing
<1>8. x.publisher = publisher /\ x.quantity = Or(u.quantity, old.quantity)
  <2> HIDE DEF old, publisher
  <2> QED BY <1>5 DEF Listing
<1> HIDE DEF x
<1>9. /\ listings' \in [DOMAIN listings' -> Listing] /\ DOMAIN listings' = DOMAIN listings
      /\ listings'[id] = x /\ \A l \in DOMAIN listings : l # id => listings'[l] = listings[l]
      BY <1>1, <1>4, <1>7
<1>10. listings' \in Listings  BY <1>4, <1>9, ListingTable
<1>11. funds' \in Funds /\ Solvent(funds') /\ Owned(funds') = Owned(funds)
  <2> HIDE DEF publisher, old
  <2> QED BY <1>1, <1>3, <1>6, PublisherPaid
<1>12. listings_count' \in [Accounts -> Nat] /\ Counted(listings', listings_count')
  <2>1. CASE moved
    <3> DEFINE ks == Erase(listings, {id})
    <3>1. ks \in Listings /\ less \in [Accounts -> Nat] /\ Counted(ks, less)
          BY <1>4, CountedFewer
    <3>2. /\ id \notin DOMAIN ks /\ DOMAIN listings' = DOMAIN ks \cup {id}
          /\ \A l \in DOMAIN ks : listings'[l].publisher = ks[l].publisher
          BY <1>9 DEF Erase
    <3>3. /\ listings'[id].publisher \in Accounts
          /\ listings_count' = [less EXCEPT ![listings'[id].publisher] = @ + 1]
      <4> HIDE DEF publisher, less
      <4> QED BY <1>1, <1>6, <1>8, <1>9, <2>1
    <3> HIDE DEF ks, less
    <3> QED BY <3>1, <3>2, <3>3, CountedMore
  <2>2. CASE ~moved
    <3>1. listings_count' = listings_count  BY <1>1, <2>2
    <3>2. \A l \in DOMAIN listings : listings'[l].publisher = listings[l].publisher
          BY <1>8, <1>9, <2>2
    <3> QED BY <1>4, <1>9, <3>1, <3>2, SameHosted
  <2> QED BY <2>1, <2>2
<1>13. stock' \in [1..MaxListings -> Int]
  <2>1. CASE u.quantity = Keep  BY <1>1, <1>4, <2>1
  <2>2. CASE u.quantity # Keep
    <3>1. u.quantity + Reserved(escrows, id) \in Int  BY <1>2, <1>3, <1>4, <2>2
    <3> QED BY <1>1, <1>4, <2>2, <3>1
  <2> QED BY <2>1, <2>2
<1>14. ASSUME NEW l \in DOMAIN listings'
       PROVE  listings'[l].quantity + Reserved(escrows', l) <= stock'[l]
  <2>0. /\ l \in DOMAIN listings /\ l \in 1..MaxListings /\ escrows' = escrows
        /\ Reserved(escrows, l) \in Nat
        /\ listings[l].quantity + Reserved(escrows, l) <= stock[l]
    <3>1. l \in DOMAIN listings /\ l \in 1..MaxListings  BY <1>4, <1>9
    <3>2. escrows' = escrows  BY <1>1
    <3> QED BY <1>4, <3>1, <3>2, Parts
  <2>1. CASE l = id /\ u.quantity # Keep
    <3>1. listings'[l].quantity = u.quantity  BY <1>8, <1>9, <2>1
    <3>2. stock'[l] = u.quantity + Reserved(escrows, l)  BY <1>1, <1>4, <2>0, <2>1
    <3>3. u.quantity \in Int  BY <1>2, <1>3, <2>1
    <3> HIDE DEF old, publisher, moved, less
    <3>4. listings'[l].quantity + Reserved(escrows', l) = stock'[l]  BY <2>0, <3>1, <3>2
    <3>5. stock'[l] \in Int  BY <2>0, <3>2, <3>3
    <3>6. stock'[l] <= stock'[l]  BY <3>5
    <3> QED BY <3>4, <3>6
  <2>2. CASE l = id /\ u.quantity = Keep
    <3>1. listings'[l].quantity = listings[l].quantity  BY <1>8, <1>9, <2>2
    <3>2. stock' = stock  BY <1>1, <2>2
    <3> QED BY <2>0, <3>1, <3>2
  <2>3. CASE l # id
    <3>1. listings'[l] = listings[l]  BY <1>9, <2>0, <2>3
    <3>2. stock'[l] = stock[l]
      <4>1. CASE u.quantity = Keep  BY <1>1, <4>1
      <4>2. CASE u.quantity # Keep  BY <1>1, <1>4, <2>0, <2>3, <4>2
      <4> QED BY <4>1, <4>2
    <3> QED BY <2>0, <3>1, <3>2
  <2> QED BY <2>1, <2>2, <2>3
<1>15. GivenOut(escrows', listings', next_escrow', next_listing')
       BY <1>1, <1>9 DEF IInv, GivenOut
<1>16. Owned(funds') + InChain(escrows') = 0  BY <1>1, <1>4, <1>11
<1> QED BY <1>1, <1>10, <1>11, <1>12, <1>13, <1>14, <1>15, <1>16, Parts, Whole

(* Time passes: nothing but the time that objects have left changes.       *)
LEMMA AgedSound ==
  ASSUME IInv, NEW elapsed \in Int
  PROVE  LET aged == [Market EXCEPT !.escrows = Aged(@, elapsed), !.listings = Aged(@, elapsed)]
         IN  /\ aged \in Markets /\ Sound(aged)
             /\ aged.escrows = Aged(escrows, elapsed) /\ aged.listings = Aged(listings, elapsed)
             /\ DOMAIN aged.escrows = DOMAIN escrows /\ DOMAIN aged.listings = DOMAIN listings
             /\ \A id \in DOMAIN escrows : aged.escrows[id].listing = escrows[id].listing
             /\ \A l \in DOMAIN listings : aged.listings[l].publisher = listings[l].publisher
<1> DEFINE xs == Aged(escrows, elapsed)
           ls == Aged(listings, elapsed)
           aged == [Market EXCEPT !.escrows = Aged(@, elapsed), !.listings = Aged(@, elapsed)]
<1>1. /\ aged.funds = funds /\ aged.stock = stock /\ aged.escrows = xs /\ aged.listings = ls
      /\ aged = [funds |-> funds, escrows |-> xs, listings |-> ls, stock |-> stock]
  <2> DEFINE young == [Market EXCEPT !.escrows = xs]
  <2>1. Market.escrows = escrows /\ Market.listings = listings  BY DEF Market
  <2>2. aged = [young EXCEPT !.listings = ls]  BY <2>1
  <2> HIDE DEF xs, ls, aged
  <2>3. young = [funds |-> funds, escrows |-> xs, listings |-> listings, stock |-> stock]
        BY DEF Market
  <2> HIDE DEF young
  <2>4. aged = [funds |-> funds, escrows |-> xs, listings |-> ls, stock |-> stock]
        BY <2>2, <2>3
  <2> QED BY <2>4
<1>2. /\ escrows \in Escrows /\ escrows \in [DOMAIN escrows -> Escrow]
      /\ DOMAIN escrows \subseteq 1..MaxEscrows
      /\ listings \in [DOMAIN listings -> Listing] /\ DOMAIN listings \subseteq 1..MaxListings
      /\ funds \in Funds /\ stock \in [1..MaxListings -> Int] /\ Solvent(funds)
      /\ Owned(funds) + InChain(escrows) = 0
      BY Parts
<1>3. /\ DOMAIN xs = DOMAIN escrows /\ xs \in [DOMAIN xs -> Escrow]
      /\ \A id \in DOMAIN xs : /\ xs[id] = [escrows[id] EXCEPT !.expires_in = xs[id].expires_in]
                               /\ xs[id].listing = escrows[id].listing
  <2>1. /\ xs = [id \in DOMAIN escrows |-> xs[id]] /\ DOMAIN xs = DOMAIN escrows
        /\ \A id \in DOMAIN escrows :
             xs[id] = [escrows[id] EXCEPT !.expires_in = escrows[id].expires_in - elapsed]
        BY DEF Aged
  <2> HIDE DEF xs
  <2>2. ASSUME NEW id \in DOMAIN escrows
        PROVE  /\ xs[id] \in Escrow /\ xs[id].listing = escrows[id].listing
               /\ xs[id] = [escrows[id] EXCEPT !.expires_in = xs[id].expires_in]
    <3> DEFINE x == escrows[id]
    <3>1. x \in Escrow /\ xs[id] = [x EXCEPT !.expires_in = x.expires_in - elapsed]
          BY <1>2, <2>1
    <3> HIDE DEF x
    <3>2. x.expires_in - elapsed \in Int  BY <3>1 DEF Escrow, EscrowFields
    <3>3. /\ xs[id] \in Escrow /\ xs[id].listing = x.listing
          /\ xs[id] = [x EXCEPT !.expires_in = xs[id].expires_in]
          BY <3>1, <3>2 DEF Escrow, EscrowFields
    <3> QED BY <3>3 DEF x
  <2> QED BY <2>1, <2>2
<1>4. /\ DOMAIN ls = DOMAIN listings /\ ls \in [DOMAIN ls -> Listing]
      /\ \A l \in DOMAIN ls : /\ ls[l].publisher = listings[l].publisher
                              /\ ls[l].quantity = listings[l].quantity
  <2>1. /\ ls = [l \in DOMAIN listings |-> ls[l]] /\ DOMAIN ls = DOMAIN listings
        /\ \A l \in DOMAIN listings :
             ls[l] = [listings[l] EXCEPT !.expires_in = listings[l].expires_in - elapsed]
        BY DEF Aged
  <2> HIDE DEF ls
  <2>2. ASSUME NEW l \in DOMAIN listings
        PROVE  /\ ls[l] \in Listing /\ ls[l].publisher = listings[l].publisher
               /\ ls[l].quantity = listings[l].quantity
    <3> DEFINE x == listings[l]
    <3>1. x \in Listing /\ ls[l] = [x EXCEPT !.expires_in = x.expires_in - elapsed]
          BY <1>2, <2>1
    <3> HIDE DEF x
    <3>2. x.expires_in - elapsed \in Int  BY <3>1 DEF Listing
    <3>3. /\ ls[l] \in Listing /\ ls[l].publisher = x.publisher
          /\ ls[l].quantity = x.quantity
          BY <3>1, <3>2 DEF Listing
    <3> QED BY <3>3 DEF x
  <2> QED BY <2>1, <2>2
<1> HIDE DEF xs, ls
<1>5. xs \in Escrows /\ ls \in Listings  BY <1>2, <1>3, <1>4, EscrowTable, ListingTable
<1>6. InChain(xs) = InChain(escrows) /\ \A l : Reserved(xs, l) = Reserved(escrows, l)
      BY <1>2, <1>3, <1>5, TableSame
<1>7. \A l \in DOMAIN ls : ls[l].quantity + Reserved(xs, l) <= stock[l]
      BY <1>4, <1>6, Parts
<1> HIDE DEF aged
<1>8. aged \in Markets  BY <1>1, <1>2, <1>5 DEF Markets
<1>9. Sound(aged)  BY <1>1, <1>2, <1>6, <1>7 DEF Sound, Balanced, Covered
<1> QED BY <1>1, <1>3, <1>4, <1>8, <1>9 DEF aged, xs, ls

(* A block that expires escrows, in whatever order, and listings keeps the *)
(* invariant.                                                              *)
LEMMA NextBlockStep ==
  ASSUME IInv, NEW missed \in MissedSlots, next_block(missed)
  PROVE  IInv'
<1> DEFINE aged == [Market EXCEPT !.escrows = Aged(@, 1 + missed), !.listings = Aged(@, 1 + missed)]
           Gone(a) == {l \in Expired(aged.listings) : listings[l].publisher = a}
<1>0. 1 + missed \in Int  BY ConstantNats
<1>1. /\ aged \in Markets /\ Sound(aged)
      /\ DOMAIN aged.escrows = DOMAIN escrows /\ DOMAIN aged.listings = DOMAIN listings
      /\ \A id \in DOMAIN escrows : aged.escrows[id].listing = escrows[id].listing
      /\ \A l \in DOMAIN listings : aged.listings[l].publisher = listings[l].publisher
      BY <1>0, AgedSound
<1>2. PICK order \in ExpiryOrders(aged.escrows) :
        /\ Become(clear_expired_listings(clear_expired_escrows(aged, order)))
        /\ listings_count' = [a \in Accounts |->
                                Fewer(listings_count, a, Cardinality(Gone(a)))[a]]
        /\ UNCHANGED <<next_escrow, next_listing>>
      BY DEF next_block
<1> HIDE DEF aged
<1> DEFINE n == clear_expired_escrows(aged, order)
<1>3. n \in Markets /\ Sound(n) /\ Closing(aged, n)
  <2> DEFINE k == Cardinality(Expired(aged.escrows))
  <2>1. k \in Nat
    <3>1. IsFiniteSet(1..MaxEscrows)  BY FS_Interval, ConstantNats
    <3>2. Expired(aged.escrows) \subseteq 1..MaxEscrows  BY <1>1, Parts DEF Expired
    <3>3. IsFiniteSet(Expired(aged.escrows))  BY <3>1, <3>2, FS_Subset
    <3> QED BY <3>3, FS_CardinalityType
  <2>2. order \in [1..k -> Expired(aged.escrows)]  BY DEF ExpiryOrders, Bijection, Injection
  <2> HIDE DEF k
  <2> QED BY <1>1, <2>1, <2>2, ClearExpiredSound
<1>4. Become(clear_expired_listings(n))  BY <1>2
<1> HIDE DEF n
<1> DEFINE gone == Expired(aged.listings)
<1>5. gone = Expired(n.listings) /\ gone \subseteq DOMAIN listings
      BY <1>1, <1>3 DEF Expired, Closing
<1>6. /\ n.funds \in Funds /\ n.escrows \in Escrows /\ n.listings \in Listings
      /\ n.stock \in [1..MaxListings -> Int]
      BY <1>3 DEF Markets
<1>7. /\ funds' = n.funds /\ escrows' = n.escrows /\ stock' = n.stock
      /\ listings' = Erase(n.listings, gone)
      BY <1>3, <1>4, <1>5 DEF Become, clear_expired_listings, Markets
<1>8. /\ DOMAIN n.listings = DOMAIN listings /\ DOMAIN listings' = DOMAIN listings \ gone
      /\ \A l \in DOMAIN listings' : /\ listings'[l] = n.listings[l]
                                     /\ listings'[l].publisher = listings[l].publisher
      /\ DOMAIN escrows' \subseteq DOMAIN escrows
      /\ \A id \in DOMAIN escrows' : escrows'[id].listing = escrows[id].listing
      BY <1>1, <1>3, <1>7 DEF Erase, Closing
<1>9. listings' \in Listings
  <2>1. n.listings \in [DOMAIN n.listings -> Listing] /\ DOMAIN n.listings \subseteq 1..MaxListings
        BY <1>6, ListingTable
  <2>2. listings' \in [DOMAIN listings' -> Listing] /\ DOMAIN listings' \subseteq 1..MaxListings
        BY <1>7, <2>1 DEF Erase
  <2> QED BY <2>2, ListingTable
<1>10. /\ Solvent(funds') /\ Owned(funds') + InChain(escrows') = 0
       /\ \A l \in DOMAIN listings' : listings'[l].quantity + Reserved(escrows', l) <= stock'[l]
       BY <1>3, <1>7, <1>8 DEF Sound, Balanced, Covered
<1>11. ASSUME NEW a \in Accounts
       PROVE  listings_count'[a] \in Nat /\ listings_count'[a] = Cardinality(Hosted(listings', a))
  <2>1. /\ IsFiniteSet(Hosted(listings, a)) /\ listings_count[a] = Cardinality(Hosted(listings, a))
        /\ listings_count \in [Accounts -> Nat]
        BY Parts, HostedFinite DEF IInv, Counted
  <2>2. Gone(a) \subseteq Hosted(listings, a)  BY <1>5 DEF Hosted
  <2>3. Hosted(listings', a) = Hosted(listings, a) \ Gone(a)  BY <1>8 DEF Hosted
  <2>4. listings_count'[a] = Fewer(listings_count, a, Cardinality(Gone(a)))[a]  BY <1>2
  <2> DEFINE lost == Gone(a)
  <2> HIDE DEF Gone, lost
  <2>5. Hosted(listings, a) \cap lost = lost /\ IsFiniteSet(lost)
        /\ Cardinality(lost) <= Cardinality(Hosted(listings, a))
    <3>1. lost \in SUBSET Hosted(listings, a)  BY <2>2 DEF lost
    <3> QED BY <2>1, <3>1, FS_Subset
  <2>6. Cardinality(Hosted(listings', a)) = listings_count[a] - Cardinality(lost)
    <3> DEFINE hosted == Hosted(listings, a)
    <3>1. Hosted(listings', a) = hosted \ lost  BY <2>3 DEF lost
    <3>2. IsFiniteSet(hosted) /\ Cardinality(hosted) = listings_count[a] /\ hosted \cap lost = lost
          BY <2>1, <2>5
    <3> HIDE DEF hosted
    <3>3. Cardinality(hosted \ lost) = Cardinality(hosted) - Cardinality(hosted \cap lost)
          BY <3>2, FS_Difference
    <3> QED BY <3>1, <3>2, <3>3
  <2>7. Cardinality(lost) \in Nat  BY <2>5, FS_CardinalityType
  <2>8. listings_count'[a] = Fewer(listings_count, a, Cardinality(lost))[a]  BY <2>4 DEF lost
  <2> QED BY <2>1, <2>5, <2>6, <2>7, <2>8 DEF Fewer
<1>12. listings_count' \in [Accounts -> Nat]  BY <1>2, <1>11
<1>13. Counted(listings', listings_count')  BY <1>11 DEF Counted
<1>14. GivenOut(escrows', listings', next_escrow', next_listing')
       BY <1>2, <1>8 DEF IInv, GivenOut
<1> QED BY <1>2, <1>6, <1>7, <1>9, <1>10, <1>12, <1>13, <1>14, Parts, Whole
-----------------------------------------------------------------------------
(* Every step preserves the invariant. *)
LEMMA NextIInv ==
  ASSUME IInv, [Next]_vars
  PROVE  IInv'
<1>0. ASSUME NEW p \in Purchases PROVE p[1] \in DOMAIN listings \cup {NoListing} /\ p[2] \in Nat
  <2>1. Counts \subseteq Nat
    <3>1. QuantityModulus \in Nat /\ Counts \subseteq 1..(QuantityModulus - 1)
          BY MarketplaceAssumption
    <3> QED BY <3>1
  <2>2. CASE p = <<NoListing, 0>>  BY <2>2
  <2>3. CASE p \in (DOMAIN listings) \X Counts  BY <2>1, <2>3
  <2> QED BY <2>2, <2>3 DEF Purchases
<1>1. ASSUME NEW from \in Accounts, NEW to \in Accounts, NEW amount \in Amounts,
             NEW p \in Purchases, NEW fee \in FeeOffers, transfer(from, to, amount, p[1], p[2], fee)
      PROVE  IInv'
      BY <1>0, <1>1, TransferStep
<1>2. ASSUME NEW buyer \in Accounts, NEW seller \in Accounts, NEW agent \in AcceptedEscrows[buyer],
             NEW amount \in Amounts, NEW to_agent \in BOOLEAN, NEW p \in Purchases,
             NEW fee \in FeeOffers, NEW lifetime \in 1..EscrowLifetime,
             escrow_create(buyer, seller, agent, amount, to_agent, p[1], p[2], fee, lifetime)
      PROVE  IInv'
      BY <1>0, <1>2, EscrowCreateStep
<1>3. CASE \E id \in DOMAIN escrows : escrow_release(id)  BY <1>3, EscrowReleaseStep
<1>4. CASE \E id \in DOMAIN escrows : escrow_return(id)  BY <1>4, EscrowReturnStep
<1>5. CASE \E id \in DOMAIN escrows, payer \in Accounts, lifetime \in 1..EscrowLifetime :
             escrow_extend(id, payer, lifetime)
      BY <1>5, EscrowExtendStep
<1>6. CASE \E seller \in Accounts, form \in ListingForms, fee \in PublisherFees :
             listing_create(seller, form, fee)
      BY <1>6, ListingCreateStep
<1>7. CASE \E id \in DOMAIN listings, u \in Updates, fee \in PublisherFees :
             listing_update(id, u, fee)
      BY <1>7, ListingUpdateStep
<1>8. CASE \E id \in DOMAIN listings : listing_delete(id)  BY <1>8, ListingDeleteStep
<1>9. CASE \E id \in DOMAIN listings, reporter \in Accounts : listing_report(id, reporter)
      BY <1>9, ListingReportStep
<1>10. CASE \E missed \in MissedSlots : next_block(missed)  BY <1>10, NextBlockStep
<1>11. CASE UNCHANGED vars
       BY <1>11 DEF vars, IInv, TypeOK, Market, Sound, Balanced, Covered, Solvent, Counted, GivenOut
<1> QED BY <1>1, <1>2, <1>3, <1>4, <1>5, <1>6, <1>7, <1>8, <1>9, <1>10, <1>11 DEF Next

(* In every reachable state the invariant holds. *)
THEOREM AlwaysIInv == Spec => []IInv
BY InitIInv, NextIInv, PTL DEF Spec

(* No sale, escrow, refund or expiry creates or locks away a coin.         *)
THEOREM FundsAreConserved == Spec => []FundsConserved
<1>1. IInv => FundsConserved
  <2> SUFFICES ASSUME IInv PROVE FundsConserved  OBVIOUS
  <2> DEFINE s == SumFunction([a \in Accounts |-> funds.balance[a] + funds.vesting[a]])
  <2>1. funds \in Funds /\ InChain(escrows) \in Nat /\ Owned(funds) + InChain(escrows) = 0  BY Parts
  <2>2. s \in Int  BY <2>1, WealthSum
  <2>3. Owned(funds) = s + funds.fees - funds.supply  BY DEF Owned
  <2>4. funds.fees \in Int /\ funds.supply \in Int  BY <2>1 DEF Funds
  <2> DEFINE fees == funds.fees
             supply == funds.supply
             held == InChain(escrows)
  <2>5. fees \in Int /\ supply \in Int /\ held \in Int /\ (s + fees - supply) + held = 0
        BY <2>1, <2>3, <2>4
  <2> HIDE DEF s, fees, supply, held
  <2>6. supply = s + fees + held  BY <2>2, <2>5
  <2>7. funds.supply = s + funds.fees + InChain(escrows)  BY <2>6 DEF fees, supply, held
  <2> QED BY <2>7 DEF FundsConserved, s
<1> QED BY <1>1, AlwaysIInv, PTL

(* Nobody's balance or vesting balance is ever negative, whoever buys,     *)
(* releases, refunds or pays whom.                                         *)
THEOREM AlwaysSolvent == Spec => []Solvent(funds)
<1>1. IInv => Solvent(funds)  BY Parts
<1> QED BY <1>1, AlwaysIInv, PTL

(* account_object::listings_count is always the number of listings that    *)
(* the publisher hosts, through creation, move, deletion, ban and expiry   *)
(* (listing_object evaluators, clear_expired_listings).                    *)
THEOREM ListingsAreCounted == Spec => []ListingsCounted
<1>1. IInv => ListingsCounted  BY DEF IInv, Counted, Hosted, ListingsCounted
<1> QED BY <1>1, AlwaysIInv, PTL

(* A listing never offers, with what open escrows have reserved, more than *)
(* its seller stands for: no purchase, release, return, update or expiry   *)
(* sells an item twice (transfer, escrow and listing evaluators), and the  *)
(* wrap of quantity in a return (QuantityModulus) does not either.         *)
THEOREM NothingIsOversold == Spec => []NothingOversold
<1>1. IInv => NothingOversold  BY Parts DEF NothingOversold
<1> QED BY <1>1, AlwaysIInv, PTL
=============================================================================
