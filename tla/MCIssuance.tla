----------------------------- MODULE MCIssuance -----------------------------
(* alice is a witness and the founder, wit a witness she referred; bob may be *)
(* registered by wit and referred by alice.  Three workers ask for more than  *)
(* their budget.                                                              *)
EXTENDS Issuance, TLC

CONSTANTS alice, bob, committee, null, wit

MCByName == <<alice, bob, committee, null, wit>>
MCInitialBalance == (alice :> 60) @@ (wit :> 40) @@ (committee :> 0) @@ (null :> 0)
MCReferrer == [a \in Accounts |-> IF a \in {bob, wit} THEN alice ELSE committee]
MCRegistrar == [a \in Accounts |-> IF a = bob THEN wit ELSE committee]

MCGenesisParameters ==
  [witness_pay |-> 3, worker_budget |-> 10, cashback_vesting |-> 8, pay_vesting |-> 4, threshold |-> 4]
(* More pay than the reserve allows, and another vesting period. *)
MCOtherParameters ==
  [witness_pay |-> 40, worker_budget |-> 10, cashback_vesting |-> 4, pay_vesting |-> 0, threshold |-> 4]

MCWorkers ==
  <<[type |-> "vesting", daily_pay |-> 5, begin |-> 0, end |-> 100, vb |-> 1, owner |-> wit, seconds |-> 8],
    [type |-> "refund", daily_pay |-> 3, begin |-> 9, end |-> 100],
    [type |-> "burn", daily_pay |-> 4, begin |-> 0, end |-> 12]>>

MCBrackets ==
  [welcome  |-> <<[accounts |-> 4, sum |-> 10], [accounts |-> 9, sum |-> 5]>>,
   referral |-> <<[accounts |-> 4, sum |-> 6], [accounts |-> 9, sum |-> 3]>>,
   sale     |-> <<[accounts |-> 4, sum |-> 8], [accounts |-> 9, sum |-> 4]>>]
MCBonusLimit == [welcome |-> 12, referral |-> 3, sale |-> 7, founder |-> 6, witness |-> 9]
MCWitnessRates == <<2, 1, 1>>
MCWitnessTimes == <<0, 2>>

Op(type, payer, fee) == [type |-> type, payer |-> payer, fee |-> fee]
MCTransfer(from, to, fee) == Op("transfer", from, fee) @@ [to |-> to, amount |-> 7]
MCCreate == Op("account_create", wit, 0) @@ [name |-> bob, referrer |-> alice]
MCWelcome(a) == Op("welcome_bonus", a, 0) @@ [receiver |-> a]
MCReferral(a) == Op("referral_bonus", a, 0) @@ [referred |-> a, referrer |-> alice]
MCSale(seller, buyer) == Op("sale_bonus", seller, 0) @@ [seller |-> seller, buyer |-> buyer]
MCFounder(a) == Op("founder_bonus", a, 0)
MCWitness(a) == Op("witness_bonus", a, 0) @@ [receiver |-> a]
MCVesting(policy) == Op("vesting_create", alice, 0) @@ [amount |-> 9, policy |-> policy]
MCWithdraw(id) == Op("vesting_withdraw", alice, 0) @@ [id |-> id, amount |-> 1]
MCParameters(p) == Op("parameters", committee, 0) @@ [parameters |-> p]
MCReserve == Op("asset_reserve", wit, 0) @@ [amount |-> 5]

MCContents ==
  {<<>>, <<MCTransfer(alice, wit, 5)>>, <<MCTransfer(wit, alice, 3)>>, <<MCReserve>>,
   <<MCCreate, MCWelcome(bob)>>, <<MCWelcome(wit)>>,
   <<MCReferral(wit)>>, <<MCReferral(bob)>>, <<MCSale(wit, alice)>>,
   <<MCFounder(alice)>>, <<MCFounder(wit), MCFounder(wit)>>,
   <<MCWitness(alice)>>, <<MCWitness(alice), MCWitness(alice)>>, <<MCWitness(wit), MCFounder(wit)>>,
   <<MCVesting([type |-> "linear", seconds |-> 6, begin |-> 5, cliff |-> 2])>>,
   <<MCVesting([type |-> "cdd", seconds |-> 4, start_claim |-> 8])>>,
   <<MCParameters(MCOtherParameters)>>}
  \cup {<<MCWithdraw(id)>> : id \in 2..3}
=============================================================================
