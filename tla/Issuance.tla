------------------------------ MODULE Issuance ------------------------------
(***************************************************************************)
(* Where the coins of the core asset come from and where they wait: the    *)
(* bonuses of OmniBazaar, the budget of witnesses and workers, fees on     *)
(* their way to referrers, and vesting balances.  The state is the part of *)
(* the object database that holds coins; a block applies its operations in *)
(* order and then does the end-of-block work, at maintenance time all of   *)
(* it, as _apply_block does.                                               *)
(***************************************************************************)
EXTENDS Integers, Sequences, FiniteSets, FiniteSetsExt, Functions

CONSTANTS
  ByName,             \* all accounts, existing or not yet, in the order of by_name
  Founder,            \* get_founder_account()
  Witnesses,          \* accounts of witnesses
  ChainAccounts,      \* committee-account, null-account and the other accounts of the chain
  NullAccount,
  Referrer, Registrar,         \* who introduced and who registered each account
  NetworkPercent, ReferrerPercent,
  InitialBalance,     \* the balances of genesis; accounts outside its domain do not exist yet
  MaxSupply,
  InitialTime, BlockInterval, MaintenanceInterval, Day,
  CycleRate, CycleUnit,        \* share of the reserve that may be spent per second
  GenesisParameters,  \* [witness_pay, worker_budget, cashback_vesting, pay_vesting, threshold]
  Workers,            \* the workers, created before the first block, by decreasing stake
  Brackets,           \* for each bonus of users: its sum by number of accounts
  BonusLimit,         \* how many coins each bonus may issue
  FounderRate,        \* coins per second
  WitnessRates, WitnessTimes,  \* coins per second in three intervals, ends of the first two
  Contents,           \* the sequences of operations a block may have
  MissedSlots,        \* how many slots may pass without a block
  MaxBlocks, MaxBusyBlocks     \* bounds of the run: blocks, and blocks with operations

VARIABLES
  db,                 \* the objects that hold coins, a record
  busy_blocks         \* number of blocks with operations so far

vars == <<db, busy_blocks>>

Accounts == Range(ByName)
Bonuses == {"welcome", "referral", "sale", "founder", "witness"}
NoParameters == [witness_pay |-> -1]

Parameters == [witness_pay : Nat, worker_budget : Nat, cashback_vesting : Nat, pay_vesting : Nat,
               threshold : Int]

Policies == [type : {"linear"}, seconds : Nat, begin : Nat, cliff : Nat]
            \cup [type : {"cdd"}, seconds : Nat, start_claim : Nat]

(* The operations of a block that move, create or lock coins, as validate() *)
(* lets them through.                                                      *)
Operations ==
  [type : {"transfer"}, payer : Accounts, fee : Nat, to : Accounts, amount : Nat]
  \cup [type : {"asset_reserve"}, payer : Accounts, fee : Nat, amount : Nat]
  \cup [type : {"account_create"}, payer : Accounts, fee : Nat, name : Accounts, referrer : Accounts]
  \cup [type : {"vesting_create"}, payer : Accounts, fee : Nat, amount : Nat, policy : Policies]
  \cup [type : {"vesting_withdraw"}, payer : Accounts, fee : Nat, id : Nat, amount : Nat]
  \cup [type : {"welcome_bonus", "witness_bonus"}, payer : Accounts, fee : Nat, receiver : Accounts]
  \cup [type : {"referral_bonus"}, payer : Accounts, fee : Nat, referred : Accounts, referrer : Accounts]
  \cup [type : {"sale_bonus"}, payer : Accounts, fee : Nat, seller : Accounts, buyer : Accounts]
  \cup [type : {"founder_bonus"}, payer : Accounts, fee : Nat]
  \cup [type : {"parameters"}, payer : Accounts, fee : Nat, parameters : Parameters]

WorkerFields ==
  [type : {"vesting"}, daily_pay : Nat, begin : Nat, end : Nat, vb : Nat, owner : Accounts, seconds : Nat]
  \cup [type : {"refund", "burn"}, daily_pay : Nat, begin : Nat, end : Nat]

VestingWorkers == {w \in Range(Workers) : w.type = "vesting"}

(* The vesting balances of the workers are the first ones created. *)
ASSUME ConstantsAssumption ==
  /\ ByName \in Seq(Accounts) /\ IsFiniteSet(Accounts)
  /\ InitialBalance \in [DOMAIN InitialBalance -> Nat] /\ DOMAIN InitialBalance \subseteq Accounts
  /\ Witnesses \cup ChainAccounts \cup {Founder, NullAccount} \subseteq DOMAIN InitialBalance
  /\ {Referrer, Registrar} \subseteq [Accounts -> Accounts]
  /\ NetworkPercent \in 0..100 /\ ReferrerPercent \in 0..100
  /\ {BlockInterval, MaintenanceInterval, Day, CycleUnit} \subseteq Nat \ {0}
  /\ MaintenanceInterval % BlockInterval = 0
  /\ {MaxSupply, InitialTime, CycleRate, FounderRate, MaxBlocks, MaxBusyBlocks} \subseteq Nat
  /\ MissedSlots \subseteq Nat
  /\ GenesisParameters \in Parameters
  /\ Workers \in Seq(WorkerFields)
  /\ {w.vb : w \in VestingWorkers} = 1..Cardinality(VestingWorkers)
  /\ \A bonus \in {"welcome", "referral", "sale"} :
       Brackets[bonus] # <<>> /\ Brackets[bonus] \in Seq([accounts : Nat, sum : Nat])
  /\ BonusLimit \in [Bonuses -> Nat]
  /\ WitnessRates \in Nat \X Nat \X Nat /\ WitnessTimes \in Nat \X Nat
  /\ Contents \subseteq Seq(Operations)

-----------------------------------------------------------------------------
(***************************************************************************)
(* Vesting balances.  A linear one releases begin_balance evenly; a        *)
(* coin-days-destroyed (cdd) one earns its balance every second up to      *)
(* vesting_seconds times the balance, and pays with what it has earned.    *)
(* held, vested and withdrawn are history: the coin-seconds the balance    *)
(* really was there, deposits that needed no vesting, and withdrawals.     *)
(***************************************************************************)
CddBalance(owner, amount, seconds, start_claim, earned, now, vested) ==
  [policy |-> "cdd", owner |-> owner, balance |-> amount, seconds |-> seconds,
   begin |-> start_claim, earned |-> earned, updated |-> now,
   held |-> 0, vested |-> vested, withdrawn |-> 0]

LinearBalance(owner, amount, seconds, begin, cliff) ==
  [policy |-> "linear", owner |-> owner, balance |-> amount, seconds |-> seconds,
   begin |-> begin, cliff |-> cliff, begin_balance |-> amount,
   held |-> 0, vested |-> 0, withdrawn |-> 0]

CoinSecondsPerCoin(v) == Max({v.seconds, 1})

compute_coin_seconds_earned(v, now) ==
  Min({v.earned + v.balance * (now - v.updated), v.balance * CoinSecondsPerCoin(v)})

CddAllowed(v, now) ==
  IF now <= v.begin THEN 0
  ELSE compute_coin_seconds_earned(v, now) \div CoinSecondsPerCoin(v)

LinearAllowed(v, now) ==
  LET elapsed == now - v.begin
      total_vested == IF elapsed < v.seconds
                      THEN (v.begin_balance * elapsed) \div v.seconds
                      ELSE v.begin_balance
  IN  IF now <= v.begin \/ elapsed < v.cliff THEN 0
      ELSE total_vested - (v.begin_balance - v.balance)

get_allowed_withdraw(v, now) ==
  IF v.policy = "cdd" THEN CddAllowed(v, now) ELSE LinearAllowed(v, now)

update_coin_seconds_earned(v, now) ==
  [v EXCEPT !.earned = compute_coin_seconds_earned(v, now), !.updated = now]

\* Mutant: the coins come first and earn for the time before they came.
DepositBeforeUpdate(v, now, amount) ==
  update_coin_seconds_earned([v EXCEPT !.balance = @ + amount], now)

(* deposit, of a coin-days-destroyed balance: no other is deposited to. *)
Deposit(v, now, amount) ==
  [update_coin_seconds_earned(v, now) EXCEPT !.balance = @ + amount]

deposit_vested(v, now, amount) ==
  [Deposit(v, now, amount) EXCEPT !.earned = @ + amount * CoinSecondsPerCoin(v),
                                  !.vested = @ + amount]

withdraw(v, now, amount) ==
  LET paid == IF v.policy = "linear" THEN v
              ELSE [update_coin_seconds_earned(v, now)
                      EXCEPT !.earned = @ - amount * CoinSecondsPerCoin(v)]
  IN  [paid EXCEPT !.balance = @ - amount, !.withdrawn = @ + amount]

-----------------------------------------------------------------------------
(***************************************************************************)
(* Balances.  ok turns FALSE where the code throws; the block is then not  *)
(* applied.                                                                *)
(***************************************************************************)
Fail(s) == [s EXCEPT !.ok = FALSE]

Require(s, condition) == IF condition THEN s ELSE Fail(s)

adjust_balance(s, account, delta) ==
  [Require(s, delta = 0 \/ s.balance[account] + delta >= 0)
     EXCEPT !.balance[account] = @ + delta]

Reusable(s, purpose, account, seconds) ==
  LET id == s.vb[purpose][account]
  IN  id # 0 /\ s.vesting[id].seconds = seconds

deposit_lazy_vesting(s, purpose, account, amount, seconds, require_vesting) ==
  LET id == s.vb[purpose][account]
      into == IF Reusable(s, purpose, account, seconds)
              THEN [s EXCEPT !.vesting[id] = IF require_vesting
                                             THEN Deposit(@, s.time, amount)
                                             ELSE deposit_vested(@, s.time, amount)]
              ELSE [s EXCEPT !.vesting = Append(@, CddBalance(account, amount, seconds, 0,
                                   IF require_vesting THEN 0 ELSE amount * seconds, s.time,
                                   IF require_vesting THEN 0 ELSE amount)),
                             !.vb[purpose][account] = Len(s.vesting) + 1]
  IN  IF amount = 0 THEN s ELSE into

\* Mutant: what the chain's own accounts are due stays in the supply.
CashbackForgotten(s, account, amount, require_vesting) ==
  IF account \in ChainAccounts THEN s
  ELSE deposit_lazy_vesting(s, "cashback", account, amount,
                            s.parameters.cashback_vesting, require_vesting)

deposit_cashback(s, account, amount, require_vesting) ==
  IF account \in ChainAccounts THEN [s EXCEPT !.current_supply = @ - amount]
  ELSE deposit_lazy_vesting(s, "cashback", account, amount,
                            s.parameters.cashback_vesting, require_vesting)

deposit_witness_pay(s, witness, amount) ==
  deposit_lazy_vesting(s, "pay", witness, amount, s.parameters.pay_vesting, TRUE)

pay_fee(s, account, fee) ==
  IF fee > s.parameters.threshold
  THEN [s EXCEPT !.pending_fees[account] = @ + fee]
  ELSE [s EXCEPT !.pending_vested_fees[account] = @ + fee]

-----------------------------------------------------------------------------
(***************************************************************************)
(* Bonuses.  Each evaluator checks that its bonus is not depleted, and who *)
(* may have it; the coins are new, and added to current_supply and to the  *)
(* sum the bonus has issued.                                               *)
(***************************************************************************)
(* The sum by the number of accounts: that of the first bracket it is in,  *)
(* or of the last one.                                                     *)
get_bonus_sum(s, bonus) ==
  LET table == Brackets[bonus]
      i == Min({j \in DOMAIN table : Cardinality(s.accounts) <= table[j].accounts \/ j = Len(table)})
  IN  table[i].sum

Available(s, bonus) == s.issued[bonus] < BonusLimit[bonus]

Issue(s, bonus, account, sum) ==
  [adjust_balance(s, account, sum) EXCEPT !.current_supply = @ + sum,
                                          !.issued[bonus] = @ + sum]

welcome_bonus(s, receiver) ==
  [Issue(Require(s, Available(s, "welcome") /\ receiver \notin s.received_welcome_bonus),
         "welcome", receiver, get_bonus_sum(s, "welcome"))
     EXCEPT !.received_welcome_bonus = @ \cup {receiver}]

referral_bonus(s, referred, referrer) ==
  [Issue(Require(s, /\ Available(s, "referral")
                    /\ referred \notin s.sent_referral_bonus
                    /\ referrer = Referrer[referred]
                    /\ referred \in s.received_welcome_bonus),
         "referral", referrer, get_bonus_sum(s, "referral"))
     EXCEPT !.sent_referral_bonus = @ \cup {referred}]

sale_bonus(s, seller, buyer) ==
  [Issue(Require(s, Available(s, "sale") /\ <<seller, buyer>> \notin s.buyers),
         "sale", seller, get_bonus_sum(s, "sale"))
     EXCEPT !.buyers = @ \cup {<<seller, buyer>>}]

FounderSum(s) ==
  Min({FounderRate * BlockInterval, BonusLimit["founder"] - s.issued["founder"]})

founder_bonus(s) ==
  Issue(Require(s, Available(s, "founder")), "founder", Founder, FounderSum(s))

WitnessSum(s) ==
  LET elapsed == s.time - InitialTime
  IN  IF elapsed <= WitnessTimes[1] THEN WitnessRates[1] * BlockInterval
      ELSE IF elapsed <= WitnessTimes[1] + WitnessTimes[2] THEN WitnessRates[2] * BlockInterval
      ELSE Min({WitnessRates[3] * BlockInterval, BonusLimit["witness"] - s.issued["witness"]})

witness_bonus(s, receiver) ==
  Issue(Require(s, Available(s, "witness") /\ receiver \in Witnesses),
        "witness", receiver, WitnessSum(s))

-----------------------------------------------------------------------------
(***************************************************************************)
(* Other operations that move, lock or burn coins, register accounts or    *)
(* change the parameters.                                                  *)
(***************************************************************************)
transfer(s, from, to, amount) ==
  adjust_balance(adjust_balance(s, from, -amount), to, amount)

asset_reserve(s, payer, amount) ==
  [adjust_balance(Require(s, s.current_supply >= amount), payer, -amount)
     EXCEPT !.current_supply = @ - amount]

account_create(s, name) ==
  [Require(s, name \notin s.accounts) EXCEPT !.accounts = @ \cup {name}]

vesting_balance_create(s, creator, amount, policy) ==
  [adjust_balance(s, creator, -amount)
     EXCEPT !.vesting = Append(@,
       IF policy.type = "linear"
       THEN LinearBalance(creator, amount, policy.seconds, policy.begin, policy.cliff)
       ELSE CddBalance(creator, amount, policy.seconds, policy.start_claim, 0, s.time, 0))]

vesting_balance_withdraw(s, owner, id, amount) ==
  IF \/ id \notin DOMAIN s.vesting
     \/ owner # s.vesting[id].owner
     \/ amount > get_allowed_withdraw(s.vesting[id], s.time)
  THEN Fail(s)
  ELSE adjust_balance([s EXCEPT !.vesting[id] = withdraw(@, s.time, amount)], owner, amount)

update_global_parameters(s, parameters) ==
  [s EXCEPT !.pending_parameters = parameters]

Evaluate(s, op) ==
  CASE op.type = "transfer"         -> transfer(s, op.payer, op.to, op.amount)
    [] op.type = "asset_reserve"    -> asset_reserve(s, op.payer, op.amount)
    [] op.type = "account_create"   -> account_create(s, op.name)
    [] op.type = "vesting_create"   -> vesting_balance_create(s, op.payer, op.amount, op.policy)
    [] op.type = "vesting_withdraw" -> vesting_balance_withdraw(s, op.payer, op.id, op.amount)
    [] op.type = "welcome_bonus"    -> welcome_bonus(s, op.receiver)
    [] op.type = "referral_bonus"   -> referral_bonus(s, op.referred, op.referrer)
    [] op.type = "sale_bonus"       -> sale_bonus(s, op.seller, op.buyer)
    [] op.type = "founder_bonus"    -> founder_bonus(s)
    [] op.type = "witness_bonus"    -> witness_bonus(s, op.receiver)
    [] op.type = "parameters"       -> update_global_parameters(s, op.parameters)

(* The accounts an operation names exist; its fee is recorded before and   *)
(* taken after the operation itself.                                       *)
Named(op) ==
  {op[f] : f \in DOMAIN op \cap {"payer", "to", "receiver", "referred", "referrer", "seller", "buyer"}}

apply_operation(s, op) ==
  IF ~s.ok \/ ~(Named(op) \subseteq s.accounts) THEN Fail(s)
  ELSE adjust_balance(Evaluate(pay_fee(s, op.payer, op.fee), op), op.payer, -op.fee)

-----------------------------------------------------------------------------
(***************************************************************************)
(* Maintenance: fees go to the network, to referrers and registrars;       *)
(* matured vesting balances are paid out; pending parameters take effect;  *)
(* and the budget until the next maintenance is taken from the reserve.    *)
(***************************************************************************)
cut_fee(amount, percent) == (amount * percent) \div 100

pay_out_fees(s, account, total, require_vesting) ==
  LET network_cut == cut_fee(total, NetworkPercent)
      referral == total - network_cut
      referrer_cut == cut_fee(referral, ReferrerPercent)
      collected == [s EXCEPT !.accumulated_fees = @ + network_cut]
  IN  deposit_cashback(deposit_cashback(collected, Referrer[account], referrer_cut, require_vesting),
                       Registrar[account], referral - referrer_cut, require_vesting)

process_fees(s, account) ==
  [pay_out_fees(pay_out_fees(s, account, s.pending_fees[account], TRUE),
                account, s.pending_vested_fees[account], FALSE)
     EXCEPT !.pending_fees[account] = 0, !.pending_vested_fees[account] = 0]

(* What update_vested_balances does with one balance. *)
PayVested(s, id) ==
  LET allowed == get_allowed_withdraw(s.vesting[id], s.time)
  IN  IF allowed > 0 THEN vesting_balance_withdraw(s, s.vesting[id].owner, id, allowed) ELSE s

update_vested_balances(s) ==
  LET run[i \in 0..Len(s.vesting)] == IF i = 0 THEN s ELSE PayVested(run[i - 1], i)
  IN  run[Len(s.vesting)]

PayWorker(s, w, pay) ==
  CASE w.type = "refund"  -> [s EXCEPT !.current_supply = @ - pay]
    [] w.type = "burn"    -> adjust_balance(s, NullAccount, pay)
    [] w.type = "vesting" -> [s EXCEPT !.vesting[w.vb] = Deposit(@, s.time, pay)]

(* Workers are paid by decreasing stake while there is a budget; r is the  *)
(* pair of the state and of the budget that is left.                       *)
PayActive(r, w) ==
  LET s == r.state
      pay == Min({r.left, (w.daily_pay * (s.time - s.last_budget_time)) \div Day})
  IN  IF w.begin <= s.time /\ s.time <= w.end /\ r.left > 0
      THEN [state |-> PayWorker(s, w, pay), left |-> r.left - pay]
      ELSE r

pay_workers(s, budget) ==
  LET run[i \in 0..Len(Workers)] ==
        IF i = 0 THEN [state |-> s, left |-> budget] ELSE PayActive(run[i - 1], Workers[i])
  IN  run[Len(Workers)]

(* The share of the reserve, rounded up.  The code computes it as unsigned *)
(* 128-bit number; of a reserve overdrawn by bonuses it is 0 when it       *)
(* rounds to that, and does not fit share_type otherwise (process_budget). *)
total_budget(s) ==
  LET reserve == MaxSupply - s.current_supply + s.accumulated_fees + s.witness_budget
      dt == s.time - s.last_budget_time
      share == (reserve * dt * CycleRate + CycleUnit - 1) \div CycleUnit
  IN  IF s.last_budget_time = 0 \/ dt <= 0 THEN 0
      ELSE IF reserve < 0 THEN share ELSE Min({reserve, share})

\* Mutant: the last, partial slot before the maintenance is not counted.
BlocksToMaintFloor(s) == (s.next_maintenance_time - s.time - 1) \div BlockInterval

blocks_to_maint(s) ==
  (s.next_maintenance_time - s.time + BlockInterval - 1) \div BlockInterval

process_budget(s) ==
  LET available == total_budget(s)
      requested == s.parameters.witness_pay * blocks_to_maint(s)
      witness_budget == Min({requested, available})
      worker_budget == Min({(s.parameters.worker_budget * (s.next_maintenance_time - s.time)) \div Day,
                            available - witness_budget})
      paid == pay_workers(Require(s, available >= 0), worker_budget)
      supply_delta == witness_budget + worker_budget - paid.left
                      - s.accumulated_fees - s.witness_budget
  IN  [paid.state EXCEPT !.current_supply = @ + supply_delta,
                         !.accumulated_fees = 0,
                         !.witness_budget = witness_budget,
                         !.last_budget_time = s.time,
                         !.budget = [requested |-> requested, granted |-> witness_budget]]

next_maintenance_time(s) ==
  IF s.number = 1
  THEN (s.time \div MaintenanceInterval + 1) * MaintenanceInterval
  ELSE s.next_maintenance_time
       + ((s.time - s.next_maintenance_time) \div MaintenanceInterval + 1) * MaintenanceInterval

(* The fees of all accounts, in the order of by_name. *)
process_all_fees(s) ==
  LET run[i \in 0..Len(ByName)] ==
        IF i = 0 THEN s
        ELSE IF ByName[i] \in s.accounts THEN process_fees(run[i - 1], ByName[i]) ELSE run[i - 1]
  IN  run[Len(ByName)]

perform_chain_maintenance(s) ==
  LET fees == process_all_fees(s)
      vested == update_vested_balances(fees)
      renewed == [vested EXCEPT !.parameters = IF vested.pending_parameters = NoParameters THEN @
                                               ELSE vested.pending_parameters,
                                !.pending_parameters = NoParameters,
                                !.next_maintenance_time = next_maintenance_time(vested)]
  IN  process_budget(renewed)

-----------------------------------------------------------------------------
(***************************************************************************)
(* Blocks.                                                                 *)
(***************************************************************************)
CountOf(ops, type) == Cardinality({i \in DOMAIN ops : ops[i].type = type})

\* Mutant: the operations are not counted.
BonusesOfSigner(s, witness, ops) ==
  Available(s, "witness") =>
    \A i \in DOMAIN ops : ops[i].type = "witness_bonus" => ops[i].receiver = witness

(* At most one witness and one founder bonus per block, the former for the *)
(* signing witness, unless the block has depleted the bonus.               *)
BonusesAllowed(s, witness, ops) ==
  /\ Available(s, "witness") =>
       /\ CountOf(ops, "witness_bonus") <= 1
       /\ \A i \in DOMAIN ops : ops[i].type = "witness_bonus" => ops[i].receiver = witness
  /\ Available(s, "founder") => CountOf(ops, "founder_bonus") <= 1

(* Time passes for what the balances hold.  \o <<>> changes nothing; it has  *)
(* TLC keep vesting as a tuple, as it forgets an EXCEPT of a function that   *)
(* it has not evaluated when Append is applied to it.                        *)
update_global_dynamic_data(s, timestamp) ==
  [s EXCEPT !.number = @ + 1, !.time = timestamp,
            !.vesting = [id \in DOMAIN s.vesting |->
                           [s.vesting[id] EXCEPT !.held = @ + s.vesting[id].balance * (timestamp - s.time)]]
                        \o <<>>]

update_signing_witness(s, witness) ==
  LET pay == Min({s.parameters.witness_pay, s.witness_budget})
  IN  deposit_witness_pay([s EXCEPT !.witness_budget = @ - pay], witness, pay)

(* The operations of the block's transactions, in order. *)
apply_transactions(s, ops) ==
  LET run[i \in 0..Len(ops)] == IF i = 0 THEN s ELSE apply_operation(run[i - 1], ops[i])
  IN  run[Len(ops)]

apply_block(witness, missed, ops) ==
  LET applied == apply_transactions(db, ops)
      timestamp == db.time + (missed + 1) * BlockInterval
      paid == update_signing_witness(update_global_dynamic_data(applied, timestamp), witness)
      done == IF db.next_maintenance_time <= timestamp THEN perform_chain_maintenance(paid) ELSE paid
  IN  /\ db.number < MaxBlocks /\ (ops # <<>> => busy_blocks < MaxBusyBlocks)
      /\ applied.ok /\ BonusesAllowed(applied, witness, ops)
      /\ done.ok /\ db' = done
      /\ busy_blocks' = busy_blocks + (IF ops = <<>> THEN 0 ELSE 1)

\* The bound is reached.
Done == db.number = MaxBlocks /\ UNCHANGED vars

Zero == [a \in Accounts |-> 0]

GenesisBalance == [a \in Accounts |-> IF a \in DOMAIN InitialBalance THEN InitialBalance[a] ELSE 0]

(* Genesis: every coin is in a balance; the vesting balances are those of  *)
(* the workers.                                                            *)
Init ==
  /\ db = [ok |-> TRUE, number |-> 0, time |-> InitialTime,
           accounts |-> DOMAIN InitialBalance,
           balance |-> GenesisBalance,
           pending_fees |-> Zero, pending_vested_fees |-> Zero,
           vb |-> [purpose \in {"cashback", "pay"} |-> Zero],
           vesting |-> [id \in 1..Cardinality(VestingWorkers) |->
                          LET w == CHOOSE w \in VestingWorkers : w.vb = id
                          IN  CddBalance(w.owner, 0, w.seconds, 0, 0, InitialTime, 0)],
           current_supply |-> SumFunction(GenesisBalance),
           accumulated_fees |-> 0, witness_budget |-> 0,
           last_budget_time |-> 0, next_maintenance_time |-> 0,
           budget |-> [requested |-> 0, granted |-> 0],
           parameters |-> GenesisParameters, pending_parameters |-> NoParameters,
           issued |-> [bonus \in Bonuses |-> 0],
           received_welcome_bonus |-> {}, sent_referral_bonus |-> {}, buyers |-> {}]
  /\ busy_blocks = 0

Next ==
  \/ \E witness \in Witnesses, missed \in MissedSlots, ops \in Contents :
       apply_block(witness, missed, ops)
  \/ Done

Spec == Init /\ [][Next]_vars

-----------------------------------------------------------------------------
(***************************************************************************)
(* Properties.                                                             *)
(***************************************************************************)

(* Every coin of current_supply is somewhere, and only once: in a balance, *)
(* in a vesting balance, in fees not yet paid out, in the accumulated fees *)
(* of the network or in the budget of the witnesses.  Bonuses, fees cut in *)
(* four with rounding, pay of witnesses and workers, unused budget and     *)
(* coins returned to the reserve never lose or double one                  *)
(* (process_budget's supply_delta, deposit_cashback, verify_asset_supplies *)
(* of the tests).                                                          *)
SupplyAccounted ==
  db.current_supply =
    SumFunction([a \in Accounts |-> db.balance[a] + db.pending_fees[a] + db.pending_vested_fees[a]])
    + SumFunction([id \in DOMAIN db.vesting |-> db.vesting[id].balance])
    + db.accumulated_fees + db.witness_budget

(* When process_budget could grant what it asked for the witnesses, the    *)
(* budget lasts: at every block there is enough left to pay every slot up  *)
(* to and with the next maintenance block in full, whatever slots were     *)
(* missed (blocks_to_maint, update_signing_witness), and when the pay      *)
(* changes at the maintenance.                                             *)
BudgetLasts ==
  db.budget.granted = db.budget.requested =>
    db.witness_budget >=
      db.parameters.witness_pay * ((db.next_maintenance_time - db.time) \div BlockInterval)

(* A vesting balance never allows a negative amount or more than it has    *)
(* (the asserts of vesting_balance_object.cpp), and nobody has ever drawn  *)
(* from a coin-days-destroyed one more than its coins have matured while   *)
(* they were there, through deposits, vested deposits, withdrawals by the  *)
(* owner and by update_vested_balances, and changes of the vesting period. *)
VestingSound ==
  \A id \in DOMAIN db.vesting :
    LET v == db.vesting[id]
    IN  /\ get_allowed_withdraw(v, db.time) \in 0..v.balance
        /\ v.policy = "cdd" =>
             v.withdrawn * CoinSecondsPerCoin(v) <= v.held + v.vested * CoinSecondsPerCoin(v)

(* A block issues at most one portion of the founder bonus and of the      *)
(* witness bonus, unless it depletes the bonus, and the founder bonus ends *)
(* at exactly its limit although portions do not divide it                 *)
(* (_apply_block counts the operations after it has applied them).         *)
OnePortionPerBlock ==
  [][/\ \/ db'.issued["founder"] - db.issued["founder"] <= FounderRate * BlockInterval
        \/ db'.issued["founder"] = BonusLimit["founder"]
     /\ \/ db'.issued["witness"] - db.issued["witness"] <= WitnessSum(db)
        \/ db'.issued["witness"] >= BonusLimit["witness"]
     /\ db'.issued["founder"] <= BonusLimit["founder"]]_vars
=============================================================================
