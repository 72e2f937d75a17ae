--------------------------- MODULE IssuanceProofs ---------------------------
(***************************************************************************)
(* Proofs that every coin of the supply is in one place, that vesting      *)
(* balances release nothing early, that the budget of the witnesses lasts  *)
(* and that a block issues one portion of a bonus, for any accounts,       *)
(* parameters, workers and blocks.  The end of a block and the maintenance *)
(* move the surplus by 0 as the operations do (IssuanceLemmas).            *)
(***************************************************************************)
EXTENDS IssuanceLemmas

(* cut_fee returns no more than it is given. *)
LEMMA CutFee ==
  ASSUME NEW amount \in Nat, NEW percent \in 0..100
  PROVE  cut_fee(amount, percent) \in 0..amount
<1>1. amount * percent \in Nat /\ percent \in Int  BY ProductNat
<1>2. amount * percent <= amount * 100  BY <1>1, ProductMonotonic
<1>3. (amount * percent) \div 100 \in 0..amount  BY <1>1, <1>2, QuotientBound
<1> QED BY <1>3 DEF cut_fee

(* pay_out_fees hands out the whole fee: network, referrer and registrar. *)
LEMMA PayOutMoves ==
  ASSUME NEW s, Steady(s), NEW account \in Accounts, NEW total \in Nat, NEW require_vesting \in BOOLEAN
  PROVE  LET r == pay_out_fees(s, account, total, require_vesting)
         IN  Moves(r, s, total) /\ Keeps(r, s)
<1> DEFINE cut == cut_fee(total, NetworkPercent)
           referral == total - cut
           referrer_cut == cut_fee(referral, ReferrerPercent)
           rest == referral - referrer_cut
           p == [s EXCEPT !.accumulated_fees = @ + cut]
           q == deposit_cashback(p, Referrer[account], referrer_cut, require_vesting)
           r == deposit_cashback(q, Registrar[account], rest, require_vesting)
<1>1. /\ NetworkPercent \in 0..100 /\ ReferrerPercent \in 0..100
      /\ Referrer[account] \in Accounts /\ Registrar[account] \in Accounts
      BY ConstantsAssumption
<1>2. pay_out_fees(s, account, total, require_vesting) = r  BY DEF pay_out_fees
<1>3. cut \in 0..total  BY <1>1, CutFee
<1> HIDE DEF cut
<1>4. cut \in Nat /\ referral \in Nat /\ cut + referral = total  BY <1>3
<1> HIDE DEF referral
<1>5. referrer_cut \in 0..referral  BY <1>1, <1>4, CutFee
<1> HIDE DEF referrer_cut
<1>6. referrer_cut \in Nat /\ rest \in Nat /\ referrer_cut + rest = referral  BY <1>4, <1>5
<1> HIDE DEF rest
<1>7. cut + referrer_cut \in Int /\ (cut + referrer_cut) + rest = total  BY <1>4, <1>6
<1>8. Moves(p, s, cut) /\ Keeps(p, s)  BY <1>4, NetworkMoves
<1> HIDE DEF p
<1>9. Moves(q, p, referrer_cut) /\ Keeps(q, p)  BY <1>1, <1>6, <1>8, CashbackMoves DEF Moves
<1> HIDE DEF q
<1>10. Moves(r, q, rest) /\ Keeps(r, q)  BY <1>1, <1>6, <1>9, CashbackMoves DEF Moves
<1> HIDE DEF r
<1>11. Moves(q, s, cut + referrer_cut)  BY <1>4, <1>6, <1>8, <1>9, MovesTwice
<1>12. Moves(r, s, (cut + referrer_cut) + rest)  BY <1>6, <1>7, <1>10, <1>11, MovesTwice
<1>13. Keeps(r, s)  BY <1>8, <1>9, <1>10 DEF Keeps
<1> QED BY <1>2, <1>7, <1>12, <1>13

(* The fees that were paid out are no longer pending. *)
LEMMA ClearMoves ==
  ASSUME NEW s, Steady(s), NEW a \in Accounts
  PROVE  LET d == s.pending_fees[a] + s.pending_vested_fees[a]
             r == [s EXCEPT !.pending_fees[a] = 0, !.pending_vested_fees[a] = 0]
         IN  d \in Int /\ Moves(r, s, -d)
<1> DEFINE d == s.pending_fees[a] + s.pending_vested_fees[a]
           r == [s EXCEPT !.pending_fees[a] = 0, !.pending_vested_fees[a] = 0]
<1>1. s \in Database  BY DEF Steady
<1>2. /\ s.balance \in BalanceMap /\ s.pending_fees \in FeeMap /\ s.pending_vested_fees \in FeeMap
      /\ s.accumulated_fees \in Int /\ s.current_supply \in Int
      BY <1>1 DEF Database
<1>3. d \in Int /\ -d \in Int  BY <1>2 DEF FeeMap
<1>4. /\ [s.pending_fees EXCEPT ![a] = 0] \in FeeMap
      /\ [s.pending_vested_fees EXCEPT ![a] = 0] \in FeeMap
      BY <1>2 DEF FeeMap
<1>5. /\ r \in Database /\ Same(r, s) /\ r.balance = s.balance
      /\ r.vesting = s.vesting /\ r.vb = s.vb /\ r.issued = s.issued
      /\ r.accumulated_fees = s.accumulated_fees /\ r.current_supply = s.current_supply
      /\ r.pending_fees = [s.pending_fees EXCEPT ![a] = 0]
      /\ r.pending_vested_fees = [s.pending_vested_fees EXCEPT ![a] = 0]
      BY <1>1, <1>4 DEF Database, Same
<1> HIDE DEF r
<1>6. /\ AccountCoins(r)[a] = AccountCoins(s)[a] + (-d)
      /\ AgreeBut(AccountCoins(r), AccountCoins(s), Accounts, a)
      BY <1>2, <1>5 DEF AccountCoins, AgreeBut, BalanceMap, FeeMap
<1> HIDE DEF d
<1>7. SumFunction(AccountCoins(r)) = SumFunction(AccountCoins(s)) + (-d)
      BY <1>1, <1>3, <1>5, <1>6, AccountsChange
<1>8. r.accumulated_fees = s.accumulated_fees + 0 /\ r.current_supply = s.current_supply - 0
      BY <1>2, <1>5
<1>9. Moves(r, s, -d + 0 + 0)  BY <1>3, <1>5, <1>7, <1>8, 0 \in Int, FieldsMove
<1>10. -d + 0 + 0 = -d  BY <1>3
<1> QED BY <1>3, <1>9, <1>10 DEF d, r

(* process_fees: what an account owed has arrived elsewhere. *)
LEMMA FeesMove ==
  ASSUME NEW s, Steady(s), NEW a \in Accounts
  PROVE  Moves(process_fees(s, a), s, 0)
<1> DEFINE x == s.pending_fees[a]
           y == s.pending_vested_fees[a]
           p == pay_out_fees(s, a, x, TRUE)
           q == pay_out_fees(p, a, y, FALSE)
           r == [q EXCEPT !.pending_fees[a] = 0, !.pending_vested_fees[a] = 0]
<1>1. process_fees(s, a) = r  BY DEF process_fees
<1>2. s.pending_fees \in FeeMap /\ s.pending_vested_fees \in FeeMap  BY DEF Steady, Database
<1>3. x \in Nat /\ y \in Nat  BY <1>2 DEF FeeMap
<1> HIDE DEF x, y
<1>4. Moves(p, s, x) /\ Keeps(p, s)  BY <1>3, PayOutMoves
<1> HIDE DEF p
<1>5. Moves(q, p, y) /\ Keeps(q, p)  BY <1>3, <1>4, PayOutMoves DEF Moves
<1> HIDE DEF q
<1>6. q.pending_fees[a] + q.pending_vested_fees[a] = x + y
      BY <1>4, <1>5 DEF Keeps, x, y
<1>7. Moves(r, q, -(x + y))  BY <1>5, <1>6, ClearMoves DEF Moves
<1> HIDE DEF r
<1>8. x + y \in Int /\ -(x + y) \in Int /\ (x + y) + (-(x + y)) = 0  BY <1>3
<1>9. Moves(q, s, x + y)  BY <1>3, <1>4, <1>5, MovesTwice
<1>10. Moves(r, s, (x + y) + (-(x + y)))  BY <1>7, <1>8, <1>9, MovesTwice
<1> QED BY <1>1, <1>8, <1>10

(* An automatic withdrawal. *)
LEMMA PayVestedMoves ==
  ASSUME NEW s, Steady(s), NEW id
  PROVE  Moves(PayVested(s, id), s, 0)
<1> DEFINE v == s.vesting[id]
           allowed == get_allowed_withdraw(v, s.time)
<1>1. \/ PayVested(s, id) = s
      \/ PayVested(s, id) = vesting_balance_withdraw(s, v.owner, id, allowed)
      BY DEF PayVested
<1>2. CASE PayVested(s, id) = s  BY <1>2, MovesNothing
<1>3. CASE PayVested(s, id) = vesting_balance_withdraw(s, v.owner, id, allowed)
  <2>1. CASE id \notin DOMAIN s.vesting
    <3>1. PayVested(s, id) = Require(s, FALSE)
          BY <1>3, <2>1 DEF vesting_balance_withdraw, Require
    <3>2. Moves(Require(s, FALSE), s, 0)  BY FALSE \in BOOLEAN, RequireMoves
    <3> QED BY <3>1, <3>2
  <2>2. CASE id \in DOMAIN s.vesting
    <3>1. s \in Database /\ s.time \in Nat  BY DEF Steady, Database
    <3>2. v \in Balances(s.time)  BY <2>2 DEF Steady, Ripe
    <3>3. v \in Cdd \cup Linear  BY <3>2 DEF Balances
    <3>4. v.owner \in Accounts /\ v.balance \in Nat  BY <3>3 DEF Cdd, Linear
    <3> HIDE DEF v
    <3>5. allowed \in 0..v.balance  BY <3>1, <3>2, Allowance
    <3> HIDE DEF allowed
    <3>6. allowed \in Nat  BY <3>4, <3>5
    <3> QED BY <1>3, <3>4, <3>6, WithdrawMoves
  <2> QED BY <2>1, <2>2
<1> QED BY <1>1, <1>2, <1>3

(* The fees of all accounts. *)
LEMMA AllFeesMove ==
  ASSUME NEW s, Steady(s)
  PROVE  Moves(process_all_fees(s), s, 0)
<1> DEFINE n == Len(ByName)
           base == s
           M == {q \in Database : Moves(q, s, 0)}
           Step(q, i) == IF ByName[i] \in s.accounts THEN process_fees(q, ByName[i]) ELSE q
           step == [p \in (1..n) \X M |-> Step(p[2], p[1])]
           E(g) == g = [i \in 0..n |-> IF i = 0 THEN base ELSE Step(g[i - 1], i)]
           run == CHOOSE g : E(g)
<1>1. n \in Nat /\ \A i \in 1..n : ByName[i] \in Accounts
  <2>1. ByName \in Seq(Accounts)  BY ConstantsAssumption
  <2> QED BY <2>1
<1>2. process_all_fees(s) = run[n]  BY DEF process_all_fees
<1>3. base \in M
      BY MovesNothing DEF Steady
<1>4. ASSUME NEW i \in 1..n, NEW q \in M PROVE Step(q, i) \in M
  <2>1. Moves(q, s, 0) /\ Steady(q)  BY DEF Moves
  <2>2. Moves(process_fees(q, ByName[i]), q, 0)  BY <1>1, <2>1, FeesMove
  <2>3. Moves(Step(q, i), q, 0)  BY <2>1, <2>2, MovesNothing
  <2> HIDE DEF Step
  <2>4. Moves(Step(q, i), s, 0 + 0)  BY <2>1, <2>3, 0 \in Int, MovesTwice
  <2>5. Moves(Step(q, i), s, 0)  BY <2>4
  <2>6. Step(q, i) \in Database  BY <2>5 DEF Moves, Steady
  <2> QED BY <2>5, <2>6
<1> HIDE DEF n, base, M, Step
<1>5. ASSUME NEW i \in 1..n, NEW q \in M PROVE step[<<i, q>>] = Step(q, i)  OBVIOUS
<1> HIDE DEF step
<1>6. StaysIn(step, 1..n, M)  BY <1>4, <1>5 DEF StaysIn
<1>7. PICK g \in [0..n -> M] : RunsBy(g, n, base, step)  BY <1>1, <1>3, <1>6, RunExists
<1>8. E(g)
  <2>1. ASSUME NEW i \in 0..n PROVE g[i] = IF i = 0 THEN base ELSE Step(g[i - 1], i)
    <3>1. CASE i = 0  BY <1>7, <3>1 DEF RunsBy
    <3>2. CASE i # 0
      <4>1. i \in 1..n /\ i - 1 \in 0..n  BY <1>1, <3>2
      <4>2. step[<<i, g[i - 1]>>] = Step(g[i - 1], i)  BY <1>5, <1>7, <4>1
      <4> QED BY <1>7, <3>2, <4>2 DEF RunsBy
    <3> QED BY <3>1, <3>2
  <2> QED BY <1>7, <2>1
<1>9. E(run)  BY <1>8
<1> HIDE DEF run
<1>10. RunsTo(run, n) /\ run[0] = base /\ \A i \in 1..n : run[i] = Step(run[i - 1], i)
  <2>1. 0 \in 0..n /\ \A i \in 1..n : i \in 0..n /\ i # 0  BY <1>1
  <2>2. \A i \in 0..n : run[i] = IF i = 0 THEN base ELSE Step(run[i - 1], i)  BY <1>9
  <2>3. RunsTo(run, n)  BY <1>9 DEF RunsTo
  <2> QED BY <2>1, <2>2, <2>3
<1>11. \A i \in 1..n : run[i - 1] \in M => run[i] \in M  BY <1>4, <1>10
<1>12. run \in [0..n -> M]  BY <1>1, <1>3, <1>10, <1>11, RunStays
<1>13. run[n] \in M  BY <1>1, <1>12
<1> QED BY <1>2, <1>13 DEF M

(* All automatic withdrawals. *)
LEMMA AllVestedMove ==
  ASSUME NEW s, Steady(s)
  PROVE  Moves(update_vested_balances(s), s, 0)
<1> DEFINE n == Len(s.vesting)
           base == s
           M == {q \in Database : Moves(q, s, 0)}
           Step(q, i) == PayVested(q, i)
           step == [p \in (1..n) \X M |-> Step(p[2], p[1])]
           E(g) == g = [i \in 0..n |-> IF i = 0 THEN base ELSE Step(g[i - 1], i)]
           run == CHOOSE g : E(g)
<1>1. n \in Nat  BY VestingType DEF Steady
<1>2. update_vested_balances(s) = run[n]  BY DEF update_vested_balances
<1>3. base \in M
      BY MovesNothing DEF Steady
<1>4. ASSUME NEW i \in 1..n, NEW q \in M PROVE Step(q, i) \in M
  <2>1. Moves(q, s, 0) /\ Steady(q)  BY DEF Moves
  <2>2. Moves(Step(q, i), q, 0)  BY <2>1, PayVestedMoves
  <2> HIDE DEF Step
  <2>3. Moves(Step(q, i), s, 0 + 0)  BY <2>1, <2>2, 0 \in Int, MovesTwice
  <2>4. Moves(Step(q, i), s, 0)  BY <2>3
  <2>5. Step(q, i) \in Database  BY <2>4 DEF Moves, Steady
  <2> QED BY <2>4, <2>5
<1> HIDE DEF n, base, M, Step
<1>5. ASSUME NEW i \in 1..n, NEW q \in M PROVE step[<<i, q>>] = Step(q, i)  OBVIOUS
<1> HIDE DEF step
<1>6. StaysIn(step, 1..n, M)  BY <1>4, <1>5 DEF StaysIn
<1>7. PICK g \in [0..n -> M] : RunsBy(g, n, base, step)  BY <1>1, <1>3, <1>6, RunExists
<1>8. E(g)
  <2>1. ASSUME NEW i \in 0..n PROVE g[i] = IF i = 0 THEN base ELSE Step(g[i - 1], i)
    <3>1. CASE i = 0  BY <1>7, <3>1 DEF RunsBy
    <3>2. CASE i # 0
      <4>1. i \in 1..n /\ i - 1 \in 0..n  BY <1>1, <3>2
      <4>2. step[<<i, g[i - 1]>>] = Step(g[i - 1], i)  BY <1>5, <1>7, <4>1
      <4> QED BY <1>7, <3>2, <4>2 DEF RunsBy
    <3> QED BY <3>1, <3>2
  <2> QED BY <1>7, <2>1
<1>9. E(run)  BY <1>8
<1> HIDE DEF run
<1>10. RunsTo(run, n) /\ run[0] = base /\ \A i \in 1..n : run[i] = Step(run[i - 1], i)
  <2>1. 0 \in 0..n /\ \A i \in 1..n : i \in 0..n /\ i # 0  BY <1>1
  <2>2. \A i \in 0..n : run[i] = IF i = 0 THEN base ELSE Step(run[i - 1], i)  BY <1>9
  <2>3. RunsTo(run, n)  BY <1>9 DEF RunsTo
  <2> QED BY <2>1, <2>2, <2>3
<1>11. \A i \in 1..n : run[i - 1] \in M => run[i] \in M  BY <1>4, <1>10
<1>12. run \in [0..n -> M]  BY <1>1, <1>3, <1>10, <1>11, RunStays
<1>13. run[n] \in M  BY <1>1, <1>12
<1> QED BY <1>2, <1>13 DEF M

(* Paying workers undoes no failure and leaves the fees of the network. *)
Spares(r, s) == (r.ok => s.ok) /\ r.accumulated_fees = s.accumulated_fees

(* A worker is paid: the coins are vested, burned or taken off the supply. *)
LEMMA PayWorkerMoves ==
  ASSUME NEW s, Steady(s), NEW w \in Range(Workers), NEW pay \in Nat
  PROVE  LET r == PayWorker(s, w, pay)
         IN  Moves(r, s, pay) /\ Spares(r, s)
<1> DEFINE r == PayWorker(s, w, pay)
<1>1. w \in WorkerFields
  <2>1. Workers \in Seq(WorkerFields)  BY ConstantsAssumption
  <2>2. \E i \in 1..Len(Workers) : w = Workers[i]  BY <2>1, InRange
  <2> QED BY <2>1, <2>2
<1>2. s \in Database /\ s.time \in Nat /\ NullAccount \in Accounts  
      BY ConstantsAssumption DEF Steady, Database
<1>3. CASE w.type = "refund"
  <2>1. r = [s EXCEPT !.current_supply = @ - pay]  BY <1>3 DEF PayWorker
  <2>2. Spares(r, s)  BY <1>2, <2>1 DEF Database, Spares
  <2>3. Moves([s EXCEPT !.current_supply = @ - pay], s, pay)  BY pay \in Int, SupplyMoves
  <2> QED BY <2>1, <2>2, <2>3
<1>4. CASE w.type = "burn"
  <2>1. r = adjust_balance(s, NullAccount, pay)  BY <1>4 DEF PayWorker
  <2>2. Spares(r, s)  BY <1>2, <2>1 DEF adjust_balance, Require, Fail, Database, Spares
  <2>3. Moves(adjust_balance(s, NullAccount, pay), s, pay)  BY <1>2, pay \in Int, AdjustMoves
  <2> QED BY <2>1, <2>2, <2>3
<1>5. CASE w.type = "vesting"
  <2> DEFINE id == w.vb
             v == s.vesting[id]
             x == Deposit(v, s.time, pay)
  <2>1. r = [s EXCEPT !.vesting[id] = x]  BY <1>5 DEF PayWorker
  <2>2. id \in CddIds(s)  BY <1>5 DEF Steady, Linked, VestingWorkers
  <2>3. id \in DOMAIN s.vesting /\ v.policy = "cdd"  BY <2>2 DEF CddIds
  <2>4. v \in Balances(s.time)  BY <2>3 DEF Steady, Ripe
  <2> HIDE DEF v, r
  <2>5. v \in Cdd /\ FairCdd(v, s.time)  BY <2>3, <2>4, BalanceCases
  <2>6. x \in Cdd /\ FairCdd(x, s.time) /\ SameTerms(x, v) /\ x.balance = v.balance + pay
        BY <1>2, <2>5, Deposited
  <2> HIDE DEF x
  <2>7. x \in Balances(s.time)  BY <2>6 DEF Balances
  <2>8. x.policy = s.vesting[id].policy  BY <2>6 DEF SameTerms, v
  <2> HIDE DEF id
  <2>9. Moves(r, s, x.balance - s.vesting[id].balance)  BY <2>1, <2>3, <2>7, <2>8, PutVesting
  <2>10. x.balance - s.vesting[id].balance = pay
    <3>1. v.balance \in Nat  BY <2>5 DEF Cdd
    <3>2. s.vesting[id] = v  BY DEF v
    <3> QED BY <2>6, <3>1, <3>2
  <2>11. Spares(r, s)  BY <1>2, <2>1 DEF Database, Spares
  <2> QED BY <2>9, <2>10, <2>11 DEF r
<1> QED BY <1>1, <1>3, <1>4, <1>5 DEF WorkerFields

(* The states of the loop of pay_workers that started with a budget. *)
Paying(s, budget) ==
  {x \in [state : Database, left : Nat] :
     /\ x.left <= budget /\ Moves(x.state, s, budget - x.left)
     /\ Spares(x.state, s)}

(* Paying one worker of the budget. *)
LEMMA PayActiveMoves ==
  ASSUME NEW s, Steady(s), s.last_budget_time <= s.time, NEW budget \in Nat, NEW x \in Paying(s, budget),
         NEW w \in Range(Workers)
  PROVE  PayActive(x, w) \in Paying(s, budget)
<1> DEFINE q == x.state
           left == x.left
           due == (w.daily_pay * (q.time - q.last_budget_time)) \div Day
           pay == Min({left, due})
           y == PayWorker(q, w, pay)
           rest == left - pay
<1>1. x \in [state : Database, left : Nat]  BY DEF Paying
<1>2. left <= budget /\ left \in Nat /\ Moves(q, s, budget - left) /\ Spares(q, s)
      BY <1>1 DEF Paying
<1>3. \/ PayActive(x, w) = x
      \/ left > 0 /\ PayActive(x, w) = [state |-> y, left |-> rest]
      BY DEF PayActive
<1>4. CASE PayActive(x, w) = x  BY <1>4
<1>5. CASE left > 0 /\ PayActive(x, w) = [state |-> y, left |-> rest]
  <2>1. w.daily_pay \in Nat /\ Day \in Nat \ {0}
    <3>1. Workers \in Seq(WorkerFields) /\ Day \in Nat \ {0}  BY ConstantsAssumption
    <3>2. \E i \in 1..Len(Workers) : w = Workers[i]  BY <3>1, InRange
    <3>3. w \in WorkerFields  BY <3>1, <3>2
    <3> QED BY <3>1, <3>3 DEF WorkerFields
  <2>2. q.time - q.last_budget_time \in Nat
    <3>1. s.time \in Nat /\ s.last_budget_time \in Nat  BY DEF Steady, Database
    <3> QED BY <1>2, <3>1 DEF Moves, Same
  <2>3. due \in Nat
    <3> DEFINE a == w.daily_pay * (q.time - q.last_budget_time)
    <3>1. a \in Nat  BY <2>1, <2>2, ProductNat
    <3> HIDE DEF a
    <3>2. a <= a * Day  BY <2>1, <3>1
    <3>3. a \div Day \in 0..a  BY <2>1, <3>1, <3>2, QuotientBound
    <3>4. a \div Day \in Nat  BY <3>1, <3>3
    <3> QED BY <3>4 DEF a
  <2> HIDE DEF due, left, q
  <2>4. pay \in Nat /\ pay <= left  BY <1>2, <2>3, MinTwo
  <2> HIDE DEF pay
  <2>5. Moves(y, q, pay) /\ Spares(y, q)  BY <1>2, <2>4, PayWorkerMoves DEF Moves
  <2> HIDE DEF y
  <2>6. /\ rest \in Nat /\ rest <= budget /\ budget - left \in Int /\ pay \in Int
        /\ (budget - left) + pay = budget - rest
        BY <1>2, <2>4
  <2> HIDE DEF rest
  <2>7. Moves(y, s, (budget - left) + pay)  BY <1>2, <2>5, <2>6, MovesTwice
  <2>8. Moves(y, s, budget - rest)  BY <2>6, <2>7
  <2>9. y \in Database  BY <2>8 DEF Moves, Steady
  <2>10. Spares(y, s)  BY <1>2, <2>5 DEF Spares
  <2> QED BY <1>5, <2>6, <2>8, <2>9, <2>10 DEF Paying
<1> QED BY <1>3, <1>4, <1>5

(* pay_workers hands out no more than its budget, and the rest is left. *)
LEMMA WorkersMove ==
  ASSUME NEW s, Steady(s), s.last_budget_time <= s.time, NEW budget \in Nat
  PROVE  pay_workers(s, budget) \in Paying(s, budget)
<1> DEFINE n == Len(Workers)
           base == [state |-> s, left |-> budget]
           M == Paying(s, budget)
           Step(q, i) == PayActive(q, Workers[i])
           step == [p \in (1..n) \X M |-> Step(p[2], p[1])]
           E(g) == g = [i \in 0..n |-> IF i = 0 THEN base ELSE Step(g[i - 1], i)]
           run == CHOOSE g : E(g)
<1>1. n \in Nat /\ \A i \in 1..n : Workers[i] \in Range(Workers)
  <2>1. Workers \in Seq(WorkerFields)  BY ConstantsAssumption
  <2> QED BY <2>1, InRange
<1>2. pay_workers(s, budget) = run[n]  BY DEF pay_workers
<1>3. base \in M
  <2>1. budget - budget = 0 /\ budget <= budget  OBVIOUS
  <2>2. Moves(s, s, 0) /\ Spares(s, s) /\ s \in Database  BY MovesNothing DEF Steady, Spares
  <2> QED BY <2>1, <2>2 DEF Paying
<1>4. ASSUME NEW i \in 1..n, NEW q \in M PROVE Step(q, i) \in M
      BY <1>1, PayActiveMoves
<1> HIDE DEF n, base, M, Step
<1>5. ASSUME NEW i \in 1..n, NEW q \in M PROVE step[<<i, q>>] = Step(q, i)  OBVIOUS
<1> HIDE DEF step
<1>6. StaysIn(step, 1..n, M)  BY <1>4, <1>5 DEF StaysIn
<1>7. PICK g \in [0..n -> M] : RunsBy(g, n, base, step)  BY <1>1, <1>3, <1>6, RunExists
<1>8. E(g)
  <2>1. ASSUME NEW i \in 0..n PROVE g[i] = IF i = 0 THEN base ELSE Step(g[i - 1], i)
    <3>1. CASE i = 0  BY <1>7, <3>1 DEF RunsBy
    <3>2. CASE i # 0
      <4>1. i \in 1..n /\ i - 1 \in 0..n  BY <1>1, <3>2
      <4>2. step[<<i, g[i - 1]>>] = Step(g[i - 1], i)  BY <1>5, <1>7, <4>1
      <4> QED BY <1>7, <3>2, <4>2 DEF RunsBy
    <3> QED BY <3>1, <3>2
  <2> QED BY <1>7, <2>1
<1>9. E(run)  BY <1>8
<1> HIDE DEF run
<1>10. RunsTo(run, n) /\ run[0] = base /\ \A i \in 1..n : run[i] = Step(run[i - 1], i)
  <2>1. 0 \in 0..n /\ \A i \in 1..n : i \in 0..n /\ i # 0  BY <1>1
  <2>2. \A i \in 0..n : run[i] = IF i = 0 THEN base ELSE Step(run[i - 1], i)  BY <1>9
  <2>3. RunsTo(run, n)  BY <1>9 DEF RunsTo
  <2> QED BY <2>1, <2>2, <2>3
<1>11. \A i \in 1..n : run[i - 1] \in M => run[i] \in M  BY <1>4, <1>10
<1>12. run \in [0..n -> M]  BY <1>1, <1>3, <1>10, <1>11, RunStays
<1>13. run[n] \in M  BY <1>1, <1>12
<1> QED BY <1>2, <1>13 DEF M

-----------------------------------------------------------------------------
(* The product of integers is an integer. *)
LEMMA ProductInt ==
  ASSUME NEW a \in Int, NEW b \in Int
  PROVE  a * b \in Int
OBVIOUS

(* The budget is a number. *)
LEMMA TotalBudget ==
  ASSUME NEW s \in Database
  PROVE  total_budget(s) \in Int
<1> DEFINE reserve == MaxSupply - s.current_supply + s.accumulated_fees + s.witness_budget
           dt == s.time - s.last_budget_time
           x == reserve * dt * CycleRate + CycleUnit - 1
           share == x \div CycleUnit
<1>1. /\ s.current_supply \in Int /\ s.accumulated_fees \in Int /\ s.witness_budget \in Int
      /\ s.time \in Int /\ s.last_budget_time \in Int
      BY DEF Database
<1>2. MaxSupply \in Int /\ CycleRate \in Int /\ CycleUnit \in Nat \ {0}  BY ConstantsAssumption
<1>3. \/ total_budget(s) = 0 \/ total_budget(s) = share \/ total_budget(s) = Min({reserve, share})
      BY DEF total_budget
<1>4. reserve \in Int /\ dt \in Int  BY <1>1, <1>2
<1> HIDE DEF reserve, dt
<1>5. reserve * dt \in Int  BY <1>4, ProductInt
<1>6. reserve * dt * CycleRate \in Int  BY <1>2, <1>5, ProductInt
<1>7. x \in Int  BY <1>2, <1>6
<1> HIDE DEF x
<1>8. share \in Int  BY <1>2, <1>7, Quotient
<1> HIDE DEF share
<1>9. Min({reserve, share}) \in Int  BY <1>4, <1>8, MinTwo
<1> QED BY <1>3, <1>8, <1>9

(* blocks_to_maint counts every slot up to the maintenance. *)
LEMMA EverySlot ==
  ASSUME NEW s \in Database, s.time < s.next_maintenance_time
  PROVE  /\ blocks_to_maint(s) \in Nat
         /\ (s.next_maintenance_time - s.time) \div BlockInterval <= blocks_to_maint(s)
         /\ (s.next_maintenance_time - s.time) \div BlockInterval \in Int
<1> DEFINE a == s.next_maintenance_time - s.time
           b == a + BlockInterval - 1
<1>1. s.time \in Nat /\ s.next_maintenance_time \in Nat  BY DEF Database
<1>2. BlockInterval \in Nat \ {0}  BY ConstantsAssumption
<1>3. a \in Nat /\ b \in Nat /\ a <= b  BY <1>1, <1>2
<1>4. blocks_to_maint(s) = b \div BlockInterval  BY DEF blocks_to_maint
<1> HIDE DEF a, b
<1>5. b <= b * BlockInterval  BY <1>2, <1>3
<1>6. b \div BlockInterval \in 0..b  BY <1>2, <1>3, <1>5, QuotientBound
<1>7. a \div BlockInterval <= b \div BlockInterval  BY <1>2, <1>3, QuotientMonotonic
<1>8. a \div BlockInterval \in Int  BY <1>2, <1>3, Quotient
<1> QED BY <1>3, <1>4, <1>6, <1>7, <1>8 DEF a

(* r has a new budget for the slots that s leaves. *)
Budgeted(r, s) ==
  /\ Steady(r) /\ Surplus(r) = Surplus(s) /\ r.issued = s.issued
  /\ r.time = s.time /\ r.number = s.number /\ r.parameters = s.parameters
  /\ r.next_maintenance_time = s.next_maintenance_time /\ r.last_budget_time = s.time
  /\ r.budget.requested = s.parameters.witness_pay * blocks_to_maint(s)
  /\ r.budget.granted = r.witness_budget

(* process_budget: supply_delta accounts for all that it grants and takes  *)
(* back.                                                                   *)
LEMMA BudgetKeepsCoins ==
  ASSUME NEW s, Steady(s), s.last_budget_time <= s.time, s.time < s.next_maintenance_time,
         process_budget(s).ok
  PROVE  Budgeted(process_budget(s), s)
<1> DEFINE available == total_budget(s)
           requested == s.parameters.witness_pay * blocks_to_maint(s)
           granted == Min({requested, available})
           most == (s.parameters.worker_budget * (s.next_maintenance_time - s.time)) \div Day
           worker_budget == Min({most, available - granted})
           p == Require(s, available >= 0)
           paid == pay_workers(p, worker_budget)
           delta == granted + worker_budget - paid.left - s.accumulated_fees - s.witness_budget
           q == paid.state
           r == [q EXCEPT !.current_supply = @ + delta, !.accumulated_fees = 0,
                          !.witness_budget = granted, !.last_budget_time = s.time,
                          !.budget = [requested |-> requested, granted |-> granted]]
<1>1. s \in Database /\ s.time \in Nat /\ s.next_maintenance_time \in Nat
      /\ s.accumulated_fees \in Nat /\ s.witness_budget \in Nat /\ s.parameters \in Parameters
      BY DEF Steady, Database
<1>2. s.parameters.witness_pay \in Nat /\ s.parameters.worker_budget \in Nat
      BY <1>1 DEF Parameters
<1>3. process_budget(s) = r  BY DEF process_budget
<1>4. available \in Int  BY <1>1, TotalBudget
<1>5. requested \in Nat  BY <1>1, <1>2, EverySlot, ProductNat
<1>6. most \in Nat
  <2> DEFINE a == s.parameters.worker_budget * (s.next_maintenance_time - s.time)
  <2>1. Day \in Nat \ {0}  BY ConstantsAssumption
  <2>2. s.next_maintenance_time - s.time \in Nat  BY <1>1
  <2>3. a \in Nat  BY <1>2, <2>2, ProductNat
  <2> HIDE DEF a
  <2>4. a <= a * Day  BY <2>1, <2>3
  <2>5. a \div Day \in 0..a  BY <2>1, <2>3, <2>4, QuotientBound
  <2>6. a \div Day \in Nat  BY <2>3, <2>5
  <2> QED BY <2>6 DEF a
<1> HIDE DEF available, requested, most
<1>7. granted = IF requested <= available THEN requested ELSE available  BY <1>4, <1>5, MinTwo
<1> HIDE DEF granted
<1>8. granted \in Int /\ available - granted \in Nat  BY <1>4, <1>5, <1>7
<1>9. worker_budget \in Nat /\ worker_budget <= available - granted
  <2> DEFINE remaining == available - granted
  <2>1. remaining \in Nat  BY <1>8
  <2>2. worker_budget = Min({most, remaining})  OBVIOUS
  <2> HIDE DEF remaining, worker_budget
  <2>3. worker_budget \in Nat /\ worker_budget <= remaining  BY <1>6, <2>1, <2>2, MinTwo
  <2> QED BY <2>3 DEF remaining
<1> HIDE DEF worker_budget
<1>10. Moves(p, s, 0) /\ (p.ok => available >= 0)
  <2>1. (available >= 0) \in BOOLEAN  OBVIOUS
  <2>2. Moves(p, s, 0)  BY <2>1, RequireMoves
  <2>3. p.ok => available >= 0  BY <1>1 DEF Require, Fail, Database
  <2> QED BY <2>2, <2>3
<1> HIDE DEF p
<1>11. Steady(p) /\ p.last_budget_time <= p.time  BY <1>10 DEF Moves, Same
<1>12. paid \in Paying(p, worker_budget)  BY <1>9, <1>11, WorkersMove
<1> HIDE DEF paid
<1> DEFINE left == paid.left
<1>13. /\ left \in Nat /\ left <= worker_budget /\ q \in Database
       /\ Moves(q, p, worker_budget - left) /\ Spares(q, p)
       BY <1>12 DEF Paying
<1> HIDE DEF q, left
<1>14. Moves(q, s, worker_budget - left)
  <2>1. worker_budget - left \in Int /\ 0 + (worker_budget - left) = worker_budget - left
        BY <1>9, <1>13
  <2>2. Moves(q, s, 0 + (worker_budget - left))  BY <1>10, <1>13, <2>1, 0 \in Int, MovesTwice
  <2> QED BY <2>1, <2>2
<1>15. delta = granted + worker_budget - left - s.accumulated_fees - s.witness_budget  BY DEF left
<1> HIDE DEF delta
<1>16. /\ q.current_supply \in Int /\ q.witness_budget = s.witness_budget
       /\ q.accumulated_fees = s.accumulated_fees
  <2>1. p.accumulated_fees = s.accumulated_fees  BY <1>1 DEF p, Require, Fail, Database
  <2> QED BY <1>13, <1>14, <2>1 DEF Database, Moves, Same, Spares
<1>17. delta \in Int  BY <1>1, <1>8, <1>9, <1>13, <1>15
<1>18. r.ok = q.ok  BY <1>13 DEF Database
<1>19. available >= 0  BY <1>3, <1>10, <1>13, <1>18 DEF Spares
<1>20. granted \in Nat  BY <1>4, <1>5, <1>7, <1>19
<1>21. [requested |-> requested, granted |-> granted] \in Grants  BY <1>5, <1>20 DEF Grants
<1>22. q.current_supply + delta \in Int  BY <1>16, <1>17
<1>23. /\ r \in Database /\ r.balance = q.balance /\ Keeps(r, q)
       /\ r.vesting = q.vesting /\ r.vb = q.vb /\ r.issued = q.issued
       /\ r.time = q.time /\ r.number = q.number /\ r.parameters = q.parameters
       /\ r.next_maintenance_time = q.next_maintenance_time /\ r.last_budget_time = s.time
       /\ r.current_supply = q.current_supply + delta /\ r.accumulated_fees = 0
       /\ r.witness_budget = granted /\ r.budget = [requested |-> requested, granted |-> granted]
       BY <1>1, <1>13, <1>20, <1>21, <1>22 DEF Database, Keeps
<1> HIDE DEF r
<1>24. Steady(r)
  <2>1. Steady(q)  BY <1>14 DEF Moves
  <2>2. Capped(r)  BY <1>23, <2>1 DEF Steady, Capped
  <2> QED BY <1>23, <2>1, <2>2, StaysSteady
<1>25. Surplus(r) = Surplus(s)
  <2> DEFINE a == SumFunction(AccountCoins(q))
             v == SumFunction(VestingCoins(q))
  <2>1. AccountCoins(r) = AccountCoins(q) /\ VestingCoins(r) = VestingCoins(q)
        BY <1>23 DEF AccountCoins, VestingCoins, Keeps
  <2>2. a \in Int /\ v \in Int  BY <1>13, AccountSum, VestingSum
  <2>3. Surplus(r) = a + v + 0 + granted - (q.current_supply + delta)  BY <1>23, <2>1 DEF Surplus
  <2>4. Surplus(q) = a + v + s.accumulated_fees + s.witness_budget - q.current_supply
        BY <1>16 DEF Surplus
  <2>5. Surplus(q) = Surplus(s) + (worker_budget - left)  BY <1>14 DEF Moves
  <2>6. Surplus(s) \in Int  BY <1>1, SurplusInt
  <2> HIDE DEF a, v
  <2> QED BY <1>1, <1>8, <1>9, <1>13, <1>15, <1>16, <2>2, <2>3, <2>4, <2>5, <2>6
<1>26. /\ r.issued = s.issued /\ r.time = s.time /\ r.number = s.number /\ r.parameters = s.parameters
       /\ r.next_maintenance_time = s.next_maintenance_time
       BY <1>14, <1>23 DEF Moves, Same
<1>27. r.budget.requested = requested /\ r.budget.granted = r.witness_budget  BY <1>23
<1>28. r.last_budget_time = s.time  BY <1>23
<1> QED BY <1>3, <1>24, <1>25, <1>26, <1>27, <1>28 DEF Budgeted, requested

(* The next maintenance is after the block. *)
LEMMA MaintenanceAhead ==
  ASSUME NEW s \in Database, s.next_maintenance_time <= s.time
  PROVE  next_maintenance_time(s) \in Nat /\ s.time < next_maintenance_time(s)
<1> DEFINE m == MaintenanceInterval
           t == s.time
           n == s.next_maintenance_time
<1>1. t \in Nat /\ n \in Nat /\ n <= t  BY DEF Database
<1>2. m \in Nat \ {0}  BY ConstantsAssumption
<1> HIDE DEF m, t, n
<1>3. ASSUME NEW a \in Nat PROVE (a \div m + 1) * m \in Nat /\ a < (a \div m + 1) * m
  <2> DEFINE d == a \div m
  <2>1. d \in Int /\ m * d <= a /\ a < m * d + m  BY <1>2, <1>3, Quotient
  <2> HIDE DEF d
  <2>2. m * d \in Int /\ (d + 1) * m = m * d + m  BY <1>2, <2>1
  <2>3. (d + 1) * m \in Nat /\ a < (d + 1) * m  BY <1>2, <1>3, <2>1, <2>2
  <2> QED BY <2>3 DEF d
<1>4. CASE s.number = 1
  <2>1. next_maintenance_time(s) = (t \div m + 1) * m  BY <1>4 DEF next_maintenance_time, m, t
  <2>2. (t \div m + 1) * m \in Nat /\ t < (t \div m + 1) * m  BY <1>1, <1>3
  <2> QED BY <2>1, <2>2 DEF t
<1>5. CASE s.number # 1
  <2> DEFINE x == ((t - n) \div m + 1) * m
  <2>1. next_maintenance_time(s) = n + x  BY <1>5 DEF next_maintenance_time, m, t, n
  <2>2. t - n \in Nat  BY <1>1
  <2>3. x \in Nat /\ t - n < x  BY <1>3, <2>2
  <2> HIDE DEF x
  <2>4. n + x \in Nat /\ t < n + x  BY <1>1, <2>3
  <2> QED BY <2>1, <2>4 DEF t
<1> QED BY <1>4, <1>5

(* What BudgetLasts says of db. *)
Enough(s) ==
  s.budget.granted = s.budget.requested =>
    s.witness_budget >=
      s.parameters.witness_pay * ((s.next_maintenance_time - s.time) \div BlockInterval)

(* A new budget is enough: blocks_to_maint rounds up. *)
LEMMA BudgetEnough ==
  ASSUME NEW s, Steady(s), s.time < s.next_maintenance_time, NEW r, r.time = s.time,
         r.parameters = s.parameters, r.next_maintenance_time = s.next_maintenance_time,
         r.budget.requested = s.parameters.witness_pay * blocks_to_maint(s),
         r.budget.granted = r.witness_budget
  PROVE  Enough(r)
<1> DEFINE floor == (s.next_maintenance_time - s.time) \div BlockInterval
           pay == s.parameters.witness_pay
           blocks == blocks_to_maint(s)
<1>1. s \in Database /\ s.parameters \in Parameters  BY DEF Steady, Database
<1>2. floor \in Int /\ blocks \in Nat /\ floor <= blocks  BY <1>1, EverySlot
<1>3. pay \in Nat  BY <1>1 DEF Parameters
<1> HIDE DEF floor, pay, blocks
<1>4. pay * floor <= pay * blocks  BY <1>2, <1>3, ProductMonotonic
<1>5. pay * floor \in Int /\ pay * blocks \in Int  BY <1>2, <1>3, ProductInt
<1>6. r.budget.granted = r.budget.requested => r.witness_budget >= pay * floor
      BY <1>4, <1>5 DEF pay, blocks
<1> QED BY <1>6 DEF Enough, pay, floor

(* A step that neither moves coins nor lets time pass. *)
LEMMA CoinsStay ==
  ASSUME NEW s, Steady(s), NEW r \in Database, r.balance = s.balance, Keeps(r, s),
         r.vesting = s.vesting, r.vb = s.vb, r.issued = s.issued, r.time = s.time,
         r.accumulated_fees = s.accumulated_fees, r.current_supply = s.current_supply,
         r.witness_budget = s.witness_budget
  PROVE  Steady(r) /\ Surplus(r) = Surplus(s)
<1>1. AccountCoins(r) = AccountCoins(s) /\ VestingCoins(r) = VestingCoins(s)
      BY DEF AccountCoins, VestingCoins, Keeps
<1>2. Surplus(r) = Surplus(s)  BY <1>1 DEF Surplus
<1>3. Capped(r)  BY DEF Steady, Capped
<1>4. Steady(r)  BY <1>3, StaysSteady
<1> QED BY <1>2, <1>4

(* r has the coins of s, and a budget that is enough. *)
Kept(r, s) ==
  /\ Steady(r) /\ Surplus(r) = Surplus(s) /\ r.issued = s.issued
  /\ Enough(r) /\ r.last_budget_time <= r.time

(* perform_chain_maintenance keeps the books and makes a new budget. *)
LEMMA MaintenanceKeepsCoins ==
  ASSUME NEW s, Steady(s), s.last_budget_time <= s.time, s.next_maintenance_time <= s.time,
         perform_chain_maintenance(s).ok
  PROVE  Kept(perform_chain_maintenance(s), s)
<1> DEFINE fees == process_all_fees(s)
           vested == update_vested_balances(fees)
           next == next_maintenance_time(vested)
           parameters == IF vested.pending_parameters = NoParameters THEN vested.parameters
                         ELSE vested.pending_parameters
           renewed == [vested EXCEPT !.parameters = parameters, !.pending_parameters = NoParameters,
                                     !.next_maintenance_time = next]
           r == process_budget(renewed)
<1>1. perform_chain_maintenance(s) = r  BY DEF perform_chain_maintenance
<1>2. Moves(fees, s, 0)  BY AllFeesMove
<1> HIDE DEF fees
<1>3. Moves(vested, fees, 0)  BY <1>2, AllVestedMove DEF Moves
<1> HIDE DEF vested
<1>4. Moves(vested, s, 0 + 0)  BY <1>2, <1>3, 0 \in Int, MovesTwice
<1>5. /\ Steady(vested) /\ Surplus(vested) = Surplus(s) /\ vested.issued = s.issued
      /\ vested.time = s.time /\ vested.last_budget_time = s.last_budget_time
      /\ vested.next_maintenance_time = s.next_maintenance_time
  <2>1. Surplus(s) \in Int  BY SurplusInt DEF Steady
  <2> QED BY <1>4, <2>1 DEF Moves, Same
<1>6. vested \in Database  BY <1>5 DEF Steady
<1>7. next \in Nat /\ vested.time < next  BY <1>5, <1>6, MaintenanceAhead
<1>8. parameters \in Parameters  BY <1>6 DEF Database, PendingParameters
<1> HIDE DEF next, parameters
<1>9. /\ Steady(renewed) /\ Surplus(renewed) = Surplus(vested) /\ renewed.issued = vested.issued
      /\ renewed.time = vested.time /\ renewed.last_budget_time = vested.last_budget_time
      /\ renewed.next_maintenance_time = next
  <2>1. NoParameters \in PendingParameters  BY DEF PendingParameters
  <2>2. /\ renewed \in Database /\ renewed.balance = vested.balance /\ Keeps(renewed, vested)
        /\ renewed.vesting = vested.vesting /\ renewed.vb = vested.vb
        /\ renewed.issued = vested.issued /\ renewed.time = vested.time
        /\ renewed.accumulated_fees = vested.accumulated_fees
        /\ renewed.current_supply = vested.current_supply
        /\ renewed.witness_budget = vested.witness_budget
        /\ renewed.last_budget_time = vested.last_budget_time
        /\ renewed.next_maintenance_time = next
        BY <1>6, <1>7, <1>8, <2>1 DEF Database, Keeps
  <2> HIDE DEF renewed
  <2>3. Steady(renewed) /\ Surplus(renewed) = Surplus(vested)  BY <1>5, <2>2, CoinsStay
  <2> QED BY <2>2, <2>3
<1> HIDE DEF renewed
<1>10. renewed.last_budget_time <= renewed.time /\ renewed.time < renewed.next_maintenance_time
       BY <1>5, <1>7, <1>9
<1>11. Budgeted(r, renewed)  BY <1>1, <1>9, <1>10, BudgetKeepsCoins
<1> HIDE DEF r
<1>12. Enough(r)  BY <1>9, <1>10, <1>11, BudgetEnough DEF Budgeted
<1>13. r.last_budget_time <= r.time
  <2>1. renewed.time \in Nat  BY <1>9 DEF Steady, Database
  <2> QED BY <1>11, <2>1 DEF Budgeted
<1>14. Steady(r) /\ Surplus(r) = Surplus(s) /\ r.issued = s.issued
       BY <1>5, <1>9, <1>11 DEF Budgeted
<1> QED BY <1>1, <1>12, <1>13, <1>14 DEF Kept

-----------------------------------------------------------------------------
(* A sequence is itself with nothing after it. *)
LEMMA ConcatNothing ==
  ASSUME NEW S, NEW q \in Seq(S)
  PROVE  q \o <<>> = q
<1>1. q \o <<>> \in Seq(S) /\ Len(q \o <<>>) = Len(q)  OBVIOUS
<1>2. \A i \in 1..Len(q) : (q \o <<>>)[i] = q[i]  OBVIOUS
<1> QED BY <1>1, <1>2

(* A block takes the dynamic properties to its time. *)
LEMMA TimePasses ==
  ASSUME NEW s, Steady(s), NEW t \in Nat
  PROVE  LET r == update_global_dynamic_data(s, s.time + t)
         IN  /\ Steady(r) /\ Surplus(r) = Surplus(s) /\ r.issued = s.issued /\ r.time = s.time + t
             /\ r.parameters = s.parameters /\ r.witness_budget = s.witness_budget
             /\ r.budget = s.budget /\ r.last_budget_time = s.last_budget_time
             /\ r.next_maintenance_time = s.next_maintenance_time
<1> DEFINE now == s.time
           D == DOMAIN s.vesting
           Aged(id) == [s.vesting[id] EXCEPT !.held = @ + s.vesting[id].balance * t]
           vesting == [id \in D |-> Aged(id)]
           r == update_global_dynamic_data(s, now + t)
<1>1. s \in Database /\ now \in Nat /\ s.number \in Nat  BY DEF Steady, Database
<1>2. now + t \in Nat /\ s.number + 1 \in Nat  BY <1>1
<1>3. r = [s EXCEPT !.number = @ + 1, !.time = now + t, !.vesting = vesting \o <<>>]
  <2> DEFINE d == (s.time + t) - s.time
             Block(x) == [s EXCEPT !.number = @ + 1, !.time = now + t,
                                   !.vesting = [id \in D |->
                                     [s.vesting[id] EXCEPT !.held = @ + s.vesting[id].balance * x]]
                                               \o <<>>]
  <2>1. r = Block(d)  BY DEF update_global_dynamic_data
  <2>2. [s EXCEPT !.number = @ + 1, !.time = now + t, !.vesting = vesting \o <<>>] = Block(t)  OBVIOUS
  <2>3. d = t  BY <1>1
  <2> HIDE DEF r, vesting, d, Block
  <2> QED BY <2>1, <2>2, <2>3
<1>4. ASSUME NEW id \in D
      PROVE  /\ Aged(id) \in Balances(now + t) /\ Aged(id).policy = s.vesting[id].policy
             /\ Aged(id).balance = s.vesting[id].balance
  <2>1. s.vesting[id] \in Balances(now)  BY DEF Steady, Ripe
  <2> QED BY <1>1, <2>1, Held DEF SameTerms
<1> HIDE DEF Aged
<1>5. vesting \in VestingList
  <2>1. D = 1..Len(s.vesting) /\ Len(s.vesting) \in Nat  BY <1>1, VestingType
  <2>2. \A id \in D : Aged(id) \in Cdd \cup Linear  BY <1>4 DEF Balances
  <2> HIDE DEF D
  <2>3. vesting \in [1..Len(s.vesting) -> Cdd \cup Linear]  BY <2>1, <2>2
  <2> QED BY <2>1, <2>3 DEF VestingList
<1>5a. vesting \o <<>> = vesting
  <2> HIDE DEF vesting
  <2> QED BY <1>5, ConcatNothing DEF VestingList
<1>6. DOMAIN vesting = D /\ \A id \in D : vesting[id] = Aged(id)  OBVIOUS
<1> HIDE DEF vesting, r, now, D
<1>7. /\ r \in Database /\ r.balance = s.balance /\ Keeps(r, s) /\ r.vesting = vesting
      /\ r.vb = s.vb /\ r.issued = s.issued /\ r.time = now + t
      /\ r.accumulated_fees = s.accumulated_fees /\ r.current_supply = s.current_supply
      /\ r.witness_budget = s.witness_budget /\ r.parameters = s.parameters
      /\ r.budget = s.budget /\ r.last_budget_time = s.last_budget_time
      /\ r.next_maintenance_time = s.next_maintenance_time
      BY <1>1, <1>2, <1>3, <1>5, <1>5a DEF Database, Keeps
<1>8. AccountCoins(r) = AccountCoins(s) /\ VestingCoins(r) = VestingCoins(s)
      BY <1>4, <1>6, <1>7 DEF AccountCoins, VestingCoins, Keeps, D
<1>9. Surplus(r) = Surplus(s)  BY <1>7, <1>8 DEF Surplus
<1>10. Ripe(r)  BY <1>4, <1>6, <1>7 DEF Ripe
<1>11. CddIds(r) = CddIds(s)  BY <1>4, <1>6, <1>7 DEF CddIds, D
<1>12. Linked(r) /\ Capped(r)  BY <1>7, <1>11 DEF Steady, Linked, Capped
<1> QED BY <1>7, <1>9, <1>10, <1>12 DEF Steady, r, now

(* update_signing_witness moves coins from the budget to the witness. *)
LEMMA WitnessPaid ==
  ASSUME NEW s, Steady(s), NEW witness \in Accounts
  PROVE  LET pay == Min({s.parameters.witness_pay, s.witness_budget})
             r == update_signing_witness(s, witness)
         IN  /\ Steady(r) /\ Surplus(r) = Surplus(s) /\ r.issued = s.issued /\ r.time = s.time
             /\ r.parameters = s.parameters /\ r.witness_budget = s.witness_budget - pay
             /\ r.budget = s.budget /\ r.last_budget_time = s.last_budget_time
             /\ r.next_maintenance_time = s.next_maintenance_time
<1> DEFINE wage == s.parameters.witness_pay
           budget == s.witness_budget
           pay == Min({wage, budget})
           p == [s EXCEPT !.witness_budget = @ - pay]
           seconds == p.parameters.pay_vesting
           r == deposit_lazy_vesting(p, "pay", witness, pay, seconds, TRUE)
<1>1. s \in Database /\ budget \in Nat /\ s.parameters \in Parameters  BY DEF Steady, Database
<1>2. wage \in Nat  BY <1>1 DEF Parameters
<1>3. update_signing_witness(s, witness) = r  BY DEF update_signing_witness, deposit_witness_pay
<1>4. pay \in Nat /\ budget - pay \in Nat
  <2> HIDE DEF wage, budget
  <2> QED BY <1>1, <1>2, MinTwo
<1> HIDE DEF pay
<1>5. /\ p \in Database /\ p.balance = s.balance /\ Keeps(p, s) /\ p.vesting = s.vesting
      /\ p.vb = s.vb /\ p.issued = s.issued /\ p.time = s.time
      /\ p.accumulated_fees = s.accumulated_fees /\ p.current_supply = s.current_supply
      /\ p.witness_budget = budget - pay /\ p.parameters = s.parameters
      /\ p.budget = s.budget /\ p.last_budget_time = s.last_budget_time
      /\ p.next_maintenance_time = s.next_maintenance_time
      BY <1>1, <1>4 DEF Database, Keeps
<1> HIDE DEF p
<1>6. Steady(p)
  <2>1. Capped(p)  BY <1>5 DEF Steady, Capped
  <2> QED BY <1>5, <2>1, StaysSteady
<1>7. Surplus(p) = Surplus(s) - pay
  <2>1. AccountCoins(p) = AccountCoins(s) /\ VestingCoins(p) = VestingCoins(s)
        BY <1>5 DEF AccountCoins, VestingCoins, Keeps
  <2>2. SumFunction(AccountCoins(s)) \in Int /\ SumFunction(VestingCoins(s)) \in Int
        BY <1>1, AccountSum, VestingSum
  <2>3. s.accumulated_fees \in Int /\ s.current_supply \in Int  BY <1>1 DEF Database
  <2> QED BY <1>1, <1>4, <1>5, <2>1, <2>2, <2>3 DEF Surplus
<1>8. seconds \in Nat  BY <1>1, <1>5 DEF Parameters
<1> HIDE DEF seconds
<1>9. Moves(r, p, pay)
  <2>1. "pay" \in Purposes  BY DEF Purposes
  <2> QED BY <1>4, <1>6, <1>8, <2>1, LazyMoves
<1> HIDE DEF r
<1>10. Surplus(r) = Surplus(s)
  <2>1. Surplus(s) \in Int  BY <1>1, SurplusInt
  <2> QED BY <1>4, <1>7, <1>9, <2>1 DEF Moves
<1> QED BY <1>3, <1>5, <1>9, <1>10 DEF Moves, Same, pay

(* Enough for the slots of length i up to n stays enough when the block of *)
(* the last of k slots from t is paid for.                                 *)
LEMMA EnoughLeft ==
  ASSUME NEW n \in Nat, NEW t \in Nat, NEW i \in Nat \ {0}, NEW k \in Nat \ {0}, t + k * i < n,
         NEW wage \in Nat, NEW budget \in Nat, budget >= wage * ((n - t) \div i)
  PROVE  budget - Min({wage, budget}) >= wage * ((n - (t + k * i)) \div i)
<1> DEFINE a == n - t
           b == n - (t + k * i)
           q == a \div i
           d == b \div i
<1>1. k * i \in Nat /\ i <= k * i
  <2>1. 1 <= k /\ k - 1 \in Nat  OBVIOUS
  <2>2. (k - 1) * i \in Nat  BY <2>1, ProductNat
  <2>3. k * i = (k - 1) * i + i  OBVIOUS
  <2> QED BY <2>2, <2>3
<1>2. a \in Nat /\ b \in Nat /\ b + i <= a  BY <1>1
<1> HIDE DEF a, b
<1>3. q \in Int /\ a < i * q + i /\ d \in Int /\ i * d <= b /\ b < i * d + i  BY <1>2, Quotient
<1> HIDE DEF q, d
<1>4. i * d < i * q /\ i * d + i > 0
  <2>1. i * d \in Int /\ i * q \in Int  BY <1>3, ProductInt
  <2> QED BY <1>2, <1>3, <2>1
<1>5. d < q
  <2>1. SUFFICES ASSUME q <= d PROVE FALSE  BY <1>3
  <2>2. i * q <= i * d  BY <1>3, <2>1, ProductMonotonic
  <2>3. i * d \in Int /\ i * q \in Int  BY <1>3, ProductInt
  <2> QED BY <1>4, <2>2, <2>3
<1>6. 0 <= d
  <2>1. SUFFICES ASSUME d <= -1 PROVE FALSE  BY <1>3
  <2>2. i * d <= i * (-1)  BY <1>3, <2>1, -1 \in Int, ProductMonotonic
  <2>3. i * (-1) = -i /\ i * d \in Int  BY <1>3, ProductInt
  <2> QED BY <1>4, <2>2, <2>3
<1>7. d + 1 <= q /\ 1 <= d + 1 /\ d + 1 \in Int  BY <1>3, <1>5, <1>6
<1>8. wage * (d + 1) <= wage * q  BY <1>3, <1>7, ProductMonotonic
<1>9. wage * (d + 1) = wage * d + wage /\ wage * d \in Nat /\ wage * q \in Int
  <2>1. wage * d \in Nat /\ wage * q \in Int  BY <1>3, <1>6, ProductNat, ProductInt
  <2>2. wage * (d + 1) = wage * d + wage  BY <1>3
  <2> QED BY <2>1, <2>2
<1>10. budget >= wage * q  BY DEF q, a
<1>11. wage <= budget /\ budget - wage >= wage * d  BY <1>8, <1>9, <1>10
<1>12. Min({wage, budget}) = wage  BY <1>11, MinTwo
<1> QED BY <1>11, <1>12 DEF d, b

-----------------------------------------------------------------------------
(***************************************************************************)
(* The inductive invariant.  SupplyAccounted needs that the budget was     *)
(* never made in the future, or workers would be paid negative amounts;    *)
(* VestingSound needs what a vesting balance may still earn as well as     *)
(* what it has earned, and that pay and cashback go to balances of the     *)
(* policy that is asked for (Ripe and Linked of Steady).                   *)
(***************************************************************************)
IInv == Steady(db) /\ Surplus(db) = 0 /\ Enough(db) /\ db.last_budget_time <= db.time

(* A block that is applied to s after its operations. *)
EndOfBlock(applied, timestamp, witness) ==
  LET paid == update_signing_witness(update_global_dynamic_data(applied, timestamp), witness)
  IN  IF applied.next_maintenance_time <= timestamp THEN perform_chain_maintenance(paid) ELSE paid

(* What comes after the operations of a block keeps the books. *)
LEMMA EndOfBlockKeepsCoins ==
  ASSUME NEW s, Steady(s), Enough(s), s.last_budget_time <= s.time, NEW witness \in Accounts,
         NEW k \in Nat \ {0}, EndOfBlock(s, s.time + k * BlockInterval, witness).ok
  PROVE  Kept(EndOfBlock(s, s.time + k * BlockInterval, witness), s)
<1> DEFINE t == k * BlockInterval
           now == s.time + t
           q == update_global_dynamic_data(s, now)
           paid == update_signing_witness(q, witness)
           r == EndOfBlock(s, now, witness)
           pay == Min({s.parameters.witness_pay, s.witness_budget})
<1>1. /\ s.time \in Nat /\ s.last_budget_time \in Nat /\ s.next_maintenance_time \in Nat
      /\ s.witness_budget \in Nat /\ s.parameters \in Parameters
      BY DEF Steady, Database
<1>2. BlockInterval \in Nat \ {0}  BY ConstantsAssumption
<1>3. t \in Nat  BY <1>2, ProductNat
<1>4. r = IF s.next_maintenance_time <= now THEN perform_chain_maintenance(paid) ELSE paid
      BY DEF EndOfBlock
<1> HIDE DEF t, r
<1>5. /\ Steady(q) /\ Surplus(q) = Surplus(s) /\ q.issued = s.issued /\ q.time = now
      /\ q.parameters = s.parameters /\ q.witness_budget = s.witness_budget
      /\ q.budget = s.budget /\ q.last_budget_time = s.last_budget_time
      /\ q.next_maintenance_time = s.next_maintenance_time
      BY <1>3, TimePasses
<1> HIDE DEF q
<1>6. /\ Steady(paid) /\ Surplus(paid) = Surplus(s) /\ paid.issued = s.issued /\ paid.time = now
      /\ paid.parameters = s.parameters /\ paid.witness_budget = s.witness_budget - pay
      /\ paid.budget = s.budget /\ paid.last_budget_time = s.last_budget_time
      /\ paid.next_maintenance_time = s.next_maintenance_time
  <2>1. /\ Steady(paid) /\ Surplus(paid) = Surplus(q) /\ paid.issued = q.issued /\ paid.time = q.time
        /\ paid.parameters = q.parameters
        /\ paid.witness_budget = q.witness_budget - Min({q.parameters.witness_pay, q.witness_budget})
        /\ paid.budget = q.budget /\ paid.last_budget_time = q.last_budget_time
        /\ paid.next_maintenance_time = q.next_maintenance_time
        BY <1>5, WitnessPaid
  <2> HIDE DEF paid
  <2> QED BY <1>5, <2>1
<1> HIDE DEF paid, pay
<1>7. paid.last_budget_time <= paid.time
  <2>1. paid.last_budget_time = s.last_budget_time /\ paid.time = s.time + t  BY <1>6
  <2> QED BY <1>1, <1>3, <2>1
<1>8. r.ok  BY DEF r, t
<1>9. CASE s.next_maintenance_time <= now
  <2>1. r = perform_chain_maintenance(paid)  BY <1>4, <1>9
  <2>2. paid.next_maintenance_time <= paid.time  BY <1>6, <1>9
  <2>3. Kept(r, paid)  BY <1>6, <1>7, <1>8, <2>1, <2>2, MaintenanceKeepsCoins
  <2>4. Kept(r, s)  BY <1>6, <2>3 DEF Kept
  <2> QED BY <2>4 DEF r, t
<1>10. CASE ~(s.next_maintenance_time <= now)
  <2> DEFINE n == s.next_maintenance_time
             wage == s.parameters.witness_pay
             budget == s.witness_budget
  <2>1. r = paid  BY <1>4, <1>10
  <2>2. n \in Nat /\ wage \in Nat /\ budget \in Nat  BY <1>1 DEF Parameters
  <2>3. Enough(r)
    <3>1. SUFFICES ASSUME s.budget.granted = s.budget.requested
                   PROVE  budget - pay >= wage * ((n - now) \div BlockInterval)
          BY <1>6, <2>1 DEF Enough
    <3>2. budget >= wage * ((n - s.time) \div BlockInterval)  BY <3>1 DEF Enough
    <3>3. s.time + k * BlockInterval < n  BY <1>1, <1>3, <1>10 DEF t
    <3> DEFINE start == s.time
    <3>4. start \in Nat  BY <1>1
    <3> HIDE DEF n, wage, budget, start
    <3>5. budget - Min({wage, budget}) >= wage * ((n - (start + k * BlockInterval)) \div BlockInterval)
          BY <1>2, <2>2, <3>2, <3>3, <3>4, EnoughLeft DEF start
    <3> QED BY <3>5 DEF wage, budget, start, t, pay
  <2>4. Kept(r, s)  BY <1>6, <1>7, <2>1, <2>3 DEF Kept
  <2> QED BY <2>4 DEF r, t
<1> QED BY <1>9, <1>10

(* A block keeps the invariant. *)
LEMMA BlockKeepsCoins ==
  ASSUME IInv, NEW witness \in Witnesses, NEW missed \in MissedSlots, NEW ops \in Contents,
         apply_block(witness, missed, ops)
  PROVE  /\ IInv' /\ ops \in Seq(Operations)
         /\ db'.issued = apply_transactions(db, ops).issued
         /\ BonusesAllowed(apply_transactions(db, ops), witness, ops)
<1> DEFINE applied == apply_transactions(db, ops)
           k == missed + 1
           timestamp == db.time + k * BlockInterval
           done == EndOfBlock(applied, timestamp, witness)
<1>1. ops \in Seq(Operations) /\ missed \in Nat /\ witness \in Accounts  BY ConstantsAssumption
<1>2. k \in Nat \ {0}  BY <1>1
<1>3. Underway(applied, db)  BY <1>1, TransactionsUnderway DEF IInv
<1>4. /\ Steady(applied) /\ Surplus(applied) = 0 /\ applied.time = db.time
      /\ applied.last_budget_time <= applied.time
      /\ applied.next_maintenance_time = db.next_maintenance_time
      BY <1>3 DEF Underway, Same, IInv
<1>5. Enough(applied)  BY <1>3 DEF Underway, Same, IInv, Enough
<1>6. done.ok /\ db' = done /\ BonusesAllowed(applied, witness, ops)
      BY <1>4 DEF apply_block, EndOfBlock
<1> HIDE DEF applied, k
<1>7. Kept(done, applied)  BY <1>1, <1>2, <1>4, <1>5, <1>6, EndOfBlockKeepsCoins
<1> HIDE DEF done
<1>8. IInv'
  <2>1. /\ Steady(db') /\ Surplus(db') = 0 /\ Enough(db') /\ db'.last_budget_time <= db'.time
        BY <1>4, <1>6, <1>7 DEF Kept
  <2> QED BY <2>1 DEF IInv
<1> QED BY <1>1, <1>6, <1>7, <1>8 DEF applied, Kept

-----------------------------------------------------------------------------
(* The vesting balances of the workers are numbered from 1 on. *)
LEMMA WorkersCounted ==
  /\ Cardinality(VestingWorkers) \in Nat
  /\ \A w \in VestingWorkers : /\ w.owner \in Accounts /\ w.seconds \in Nat
                               /\ w.vb \in 1..Cardinality(VestingWorkers)
  /\ \A id \in 1..Cardinality(VestingWorkers) : \E w \in VestingWorkers : w.vb = id
<1> DEFINE n == Len(Workers)
<1>1. Workers \in Seq(WorkerFields)  BY ConstantsAssumption
<1>2. n \in Nat /\ Workers \in [1..n -> WorkerFields]  BY <1>1
<1>3. \A w : w \in Range(Workers) <=> \E i \in 1..n : w = Workers[i]  BY <1>1, InRange
<1>4. IsFiniteSet(Range(Workers))
  <2>1. Workers \in Surjection(1..n, Range(Workers))
    <3>1. Workers \in [1..n -> Range(Workers)]  BY <1>2, <1>3
    <3> QED BY <1>3, <3>1 DEF Surjection
  <2>2. IsFiniteSet(1..n)  BY <1>2, FS_Interval
  <2> HIDE DEF n
  <2> QED BY <2>1, <2>2, FS_Surjection
<1>5. VestingWorkers \in SUBSET Range(Workers)  BY DEF VestingWorkers
<1>6. Cardinality(VestingWorkers) \in Nat  BY <1>4, <1>5, FS_Subset, FS_CardinalityType
<1>7. {w.vb : w \in VestingWorkers} = 1..Cardinality(VestingWorkers)  BY ConstantsAssumption
<1>8. ASSUME NEW w \in VestingWorkers PROVE w.owner \in Accounts /\ w.seconds \in Nat
  <2>1. w \in WorkerFields /\ w.type = "vesting"  BY <1>2, <1>3 DEF VestingWorkers
  <2> QED BY <2>1 DEF WorkerFields
<1> QED BY <1>6, <1>7, <1>8

(* At genesis every coin is in a balance. *)
LEMMA GenesisCounted ==
  ASSUME Init
  PROVE  IInv
<1> DEFINE n == Cardinality(VestingWorkers)
           Chosen(id) == CHOOSE w \in VestingWorkers : w.vb = id
           New(id) == CddBalance(Chosen(id).owner, 0, Chosen(id).seconds, 0, 0, InitialTime, 0)
           vesting == [id \in 1..n |-> New(id)]
<1>1. /\ db.ok = TRUE /\ db.number = 0 /\ db.time = InitialTime /\ db.accounts = DOMAIN InitialBalance
      /\ db.balance = GenesisBalance /\ db.pending_fees = Zero /\ db.pending_vested_fees = Zero
      /\ db.vb = [purpose \in {"cashback", "pay"} |-> Zero] /\ db.vesting = vesting
      /\ db.current_supply = SumFunction(GenesisBalance) /\ db.accumulated_fees = 0
      /\ db.witness_budget = 0 /\ db.last_budget_time = 0 /\ db.next_maintenance_time = 0
      /\ db.budget = [requested |-> 0, granted |-> 0] /\ db.parameters = GenesisParameters
      /\ db.issued = [bonus \in Bonuses |-> 0]
      BY DEF Init
<1>2. InitialTime \in Nat /\ BlockInterval \in Nat \ {0} /\ GenesisParameters \in Parameters
      BY ConstantsAssumption
<1>3. n \in Nat  BY WorkersCounted
<1>4. ASSUME NEW id \in 1..n
      PROVE  New(id) \in Balances(InitialTime) /\ New(id).policy = "cdd" /\ New(id).balance = 0
  <2> DEFINE w == Chosen(id)
             r == New(id)
  <2>1. w \in VestingWorkers  BY WorkersCounted
  <2> HIDE DEF w
  <2>2. w.owner \in Accounts /\ w.seconds \in Nat  BY <2>1, WorkersCounted
  <2>3. /\ r \in Cdd /\ r.policy = "cdd" /\ r.balance = 0 /\ r.updated = InitialTime /\ r.held = 0
        /\ r.withdrawn = 0 /\ r.vested = 0 /\ r.earned = 0 /\ r.seconds \in Nat
        BY <1>2, <2>2 DEF CddBalance, Cdd, w
  <2> HIDE DEF r
  <2>4. r.vested \in {0, r.balance} /\ r.earned = r.vested * r.seconds  BY <2>3
  <2>5. FairCdd(r, InitialTime)  BY <1>2, <2>3, <2>4, NewCdd
  <2>6. r \in Balances(InitialTime)  BY <2>3, <2>5 DEF Balances
  <2> QED BY <2>3, <2>6 DEF r
<1> HIDE DEF n, New
<1>5. DOMAIN vesting = 1..n /\ \A id \in 1..n : vesting[id] = New(id)  OBVIOUS
<1>6. vesting \in VestingList
  <2>1. \A id \in 1..n : New(id) \in Cdd \cup Linear  BY <1>4 DEF Balances
  <2>2. vesting \in [1..n -> Cdd \cup Linear]  BY <2>1
  <2> QED BY <1>3, <2>2 DEF VestingList
<1> HIDE DEF vesting
<1>7. GenesisBalance \in FeeMap /\ GenesisBalance \in BalanceMap /\ Zero \in FeeMap
  <2>1. InitialBalance \in [DOMAIN InitialBalance -> Nat]  BY ConstantsAssumption
  <2> QED BY <2>1 DEF GenesisBalance, Zero, FeeMap, BalanceMap
<1>8. db \in Database
  <2>1. db.vb \in LinkMap  BY <1>1, <1>7 DEF LinkMap, Purposes
  <2>2. SumFunction(GenesisBalance) \in Int
    <3>1. IsFiniteSet(Accounts)  BY ConstantsAssumption
    <3>2. DOMAIN GenesisBalance = Accounts /\ \A a \in Accounts : GenesisBalance[a] \in Int
          BY <1>7 DEF BalanceMap
    <3>3. IntFunction(GenesisBalance)  BY <3>1, <3>2 DEF IntFunction, IntOn
    <3> QED BY <3>3, SumFunctionInt
  <2>3. DOMAIN InitialBalance \in AccountSets /\ {} \in AccountSets /\ {} \in SalePairs
        BY ConstantsAssumption DEF AccountSets, SalePairs
  <2>4. [requested |-> 0, granted |-> 0] \in Grants  BY DEF Grants
  <2>5. [bonus \in Bonuses |-> 0] \in BonusSums  BY DEF BonusSums
  <2>6. NoParameters \in PendingParameters  BY DEF PendingParameters
  <2>7. [purpose \in {"cashback", "pay"} |-> Zero] \in LinkMap  BY <1>1, <2>1
  <2> DEFINE links == [purpose \in {"cashback", "pay"} |-> Zero]
             sums == [bonus \in Bonuses |-> 0]
             grants == [requested |-> 0, granted |-> 0]
             supply == SumFunction(GenesisBalance)
  <2>8. db = [ok |-> TRUE, number |-> 0, time |-> InitialTime, accounts |-> DOMAIN InitialBalance,
              balance |-> GenesisBalance, pending_fees |-> Zero, pending_vested_fees |-> Zero,
              vb |-> links, vesting |-> vesting, current_supply |-> supply,
              accumulated_fees |-> 0, witness_budget |-> 0, last_budget_time |-> 0,
              next_maintenance_time |-> 0, budget |-> grants, parameters |-> GenesisParameters,
              pending_parameters |-> NoParameters, issued |-> sums,
              received_welcome_bonus |-> {}, sent_referral_bonus |-> {}, buyers |-> {}]
        BY DEF Init, vesting, n, New
  <2> HIDE DEF links, sums, grants, supply
  <2> QED BY <1>2, <1>6, <1>7, <2>2, <2>3, <2>4, <2>5, <2>6, <2>7, <2>8
          DEF Database, links, sums, grants, supply
<1>9. Ripe(db)
  <2>1. db.vesting = vesting /\ db.time = InitialTime  BY <1>1
  <2> QED BY <1>4, <1>5, <2>1 DEF Ripe
<1>10. Linked(db)
  <2>1. \A purpose \in Purposes, a \in Accounts : db.vb[purpose][a] = 0
    <3>1. db.vb = [purpose \in {"cashback", "pay"} |-> Zero]  BY <1>1
    <3> QED BY <3>1 DEF Purposes, Zero
  <2>2. CddIds(db) = 1..n
    <3>1. db.vesting = vesting  BY <1>1
    <3> QED BY <1>4, <1>5, <3>1 DEF CddIds
  <2>3. \A w \in VestingWorkers : w.vb \in 1..n  BY WorkersCounted DEF n
  <2> QED BY <2>1, <2>2, <2>3 DEF Linked
<1>11. Capped(db)
  <2>1. BonusLimit["founder"] \in Nat /\ "founder" \in Bonuses  BY ConstantsAssumption DEF Bonuses
  <2>2. db.issued = [bonus \in Bonuses |-> 0]  BY <1>1
  <2> QED BY <2>1, <2>2 DEF Capped
<1>12. Surplus(db) = 0
  <2>1. AccountCoins(db) = GenesisBalance
    <3>1. ASSUME NEW a \in Accounts
          PROVE  db.balance[a] + db.pending_fees[a] + db.pending_vested_fees[a] = GenesisBalance[a]
      <4>1. db.balance = GenesisBalance /\ db.pending_fees = Zero /\ db.pending_vested_fees = Zero
            BY <1>1
      <4> QED BY <1>7, <4>1 DEF Zero, BalanceMap
    <3> QED BY <1>7, <3>1 DEF AccountCoins, BalanceMap
  <2>2. SumFunction(VestingCoins(db)) = 0
    <3> DEFINE f == VestingCoins(db)
               D == DOMAIN db.vesting
    <3>1. IsFiniteSet(D) /\ SumFunction(f) = SumFunctionOnSet(f, D)  BY <1>8, VestingSum
    <3>2. \A id \in D : f[id] = 0
      <4>1. db.vesting = vesting  BY <1>1
      <4> QED BY <1>4, <1>5, <4>1 DEF VestingCoins
    <3> HIDE DEF f, D
    <3>3. SumFunctionOnSet(f, D) = 0  BY <3>1, <3>2, SumZero
    <3> QED BY <3>1, <3>3 DEF f
  <2>3. SumFunction(AccountCoins(db)) \in Int  BY <1>8, AccountSum
  <2>4. db.current_supply = SumFunction(GenesisBalance) /\ db.accumulated_fees = 0 /\ db.witness_budget = 0
        BY <1>1
  <2> QED BY <2>1, <2>2, <2>3, <2>4 DEF Surplus
<1>13. Enough(db)
  <2> DEFINE a == 0 - InitialTime
             q == a \div BlockInterval
             pay == GenesisParameters.witness_pay
  <2>1. pay \in Nat  BY <1>2 DEF Parameters
  <2>2. a \in Int /\ a <= 0  BY <1>2
  <2> HIDE DEF a
  <2>3. q \in Int /\ BlockInterval * q <= a  BY <1>2, <2>2, Quotient
  <2> HIDE DEF q, pay
  <2>4. q <= 0
    <3>1. SUFFICES ASSUME 1 <= q PROVE FALSE  BY <2>3
    <3>2. BlockInterval * 1 <= BlockInterval * q  BY <1>2, <2>3, <3>1, 1 \in Int, ProductMonotonic
    <3>3. BlockInterval * q \in Int  BY <1>2, <2>3, ProductInt
    <3> QED BY <1>2, <2>2, <2>3, <3>2, <3>3
  <2>5. pay * q <= pay * 0  BY <2>1, <2>3, <2>4, 0 \in Int, ProductMonotonic
  <2>6. pay * q <= 0  BY <2>1, <2>5
  <2>7. pay * q \in Int  BY <2>1, <2>3, ProductInt
  <2>8. 0 >= pay * q  BY <2>6, <2>7
  <2>9. /\ db.witness_budget = 0 /\ db.parameters = GenesisParameters /\ db.time = InitialTime
        /\ db.next_maintenance_time = 0
        BY <1>1
  <2> QED BY <2>8, <2>9 DEF Enough, pay, q, a
<1>14. Steady(db)  BY <1>8, <1>9, <1>10, <1>11 DEF Steady
<1>15. db.last_budget_time = 0 /\ db.time = InitialTime  BY <1>1
<1> QED BY <1>2, <1>12, <1>13, <1>14, <1>15 DEF IInv

(* The invariant is inductive: it holds at genesis and every block that    *)
(* _apply_block applies, with or without maintenance, keeps it.            *)
THEOREM Invariant == Spec => []IInv
<1>1. Init => IInv  BY GenesisCounted
<1>2. IInv /\ [Next]_vars => IInv'
  <2> SUFFICES ASSUME IInv, [Next]_vars PROVE IInv'  OBVIOUS
  <2>1. CASE \E witness \in Witnesses, missed \in MissedSlots, ops \in Contents :
               apply_block(witness, missed, ops)
        BY <2>1, BlockKeepsCoins
  <2>2. CASE Done  BY <2>2 DEF Done, vars, IInv
  <2>3. CASE UNCHANGED vars  BY <2>3 DEF vars, IInv
  <2> QED BY <2>1, <2>2, <2>3 DEF Next
<1> QED BY <1>1, <1>2, PTL DEF Spec

(* SupplyAccounted, for any accounts, parameters, workers, bonuses and     *)
(* blocks: the bonuses' evaluators, the split of fees at maintenance,      *)
(* process_budget and the pay of witnesses and workers neither lose a coin *)
(* of current_supply nor count one twice.                                  *)
THEOREM SupplyIsAccounted == Spec => []SupplyAccounted
<1>1. IInv => SupplyAccounted
  <2> SUFFICES ASSUME IInv PROVE SupplyAccounted  OBVIOUS
  <2>1. db \in Database /\ Surplus(db) = 0  BY DEF IInv, Steady
  <2>2. SumFunction(AccountCoins(db)) \in Int /\ SumFunction(VestingCoins(db)) \in Int
        BY <2>1, AccountSum, VestingSum
  <2>3. db.accumulated_fees \in Int /\ db.witness_budget \in Int /\ db.current_supply \in Int
        BY <2>1 DEF Database
  <2>4. db.current_supply = SumFunction(AccountCoins(db)) + SumFunction(VestingCoins(db))
                            + db.accumulated_fees + db.witness_budget
    <3> DEFINE a == SumFunction(AccountCoins(db))
               v == SumFunction(VestingCoins(db))
               fees == db.accumulated_fees
               budget == db.witness_budget
               supply == db.current_supply
    <3>1. a + v + fees + budget - supply = 0  BY <2>1 DEF Surplus
    <3>2. a \in Int /\ v \in Int /\ fees \in Int /\ budget \in Int /\ supply \in Int  BY <2>2, <2>3
    <3> HIDE DEF a, v, fees, budget, supply
    <3>3. supply = a + v + fees + budget  BY <3>1, <3>2
    <3> QED BY <3>3 DEF a, v, fees, budget, supply
  <2> QED BY <2>4 DEF SupplyAccounted, AccountCoins, VestingCoins
<1> QED BY <1>1, Invariant, PTL

(* VestingSound, for any vesting balances: get_allowed_withdraw stays      *)
(* between 0 and the balance, and nobody has drawn more than has matured,  *)
(* whatever is deposited and withdrawn and however the periods change.     *)
THEOREM VestingIsSound == Spec => []VestingSound
<1>1. IInv => VestingSound
  <2> SUFFICES ASSUME IInv, NEW id \in DOMAIN db.vesting
               PROVE  LET v == db.vesting[id]
                      IN  /\ get_allowed_withdraw(v, db.time) \in 0..v.balance
                          /\ v.policy = "cdd" =>
                               v.withdrawn * CoinSecondsPerCoin(v)
                                 <= v.held + v.vested * CoinSecondsPerCoin(v)
      BY DEF VestingSound
  <2>1. db.time \in Nat /\ db.vesting[id] \in Balances(db.time)  BY DEF IInv, Steady, Ripe, Database
  <2> QED BY <2>1, BalanceSound
<1> QED BY <1>1, Invariant, PTL

(* BudgetLasts, for any intervals and parameters: what process_budget      *)
(* granted in full pays update_signing_witness for every slot up to the    *)
(* next maintenance, since blocks_to_maint rounds up.                      *)
THEOREM BudgetDoesLast == Spec => []BudgetLasts
<1>1. IInv => BudgetLasts  BY DEF IInv, Enough, BudgetLasts
<1> QED BY <1>1, Invariant, PTL

(* What one block may issue of the founder and of the witness bonus. *)
OnePortionStep ==
  /\ \/ db'.issued["founder"] - db.issued["founder"] <= FounderRate * BlockInterval
     \/ db'.issued["founder"] = BonusLimit["founder"]
  /\ \/ db'.issued["witness"] - db.issued["witness"] <= WitnessSum(db)
     \/ db'.issued["witness"] >= BonusLimit["witness"]
  /\ db'.issued["founder"] <= BonusLimit["founder"]

(* A block issues one portion of each bonus. *)
LEMMA BlockIssuesOnePortion ==
  ASSUME IInv, NEW witness \in Witnesses, NEW missed \in MissedSlots, NEW ops \in Contents,
         apply_block(witness, missed, ops)
  PROVE  OnePortionStep
<1> DEFINE applied == apply_transactions(db, ops)
<1>1. /\ ops \in Seq(Operations) /\ db'.issued = applied.issued
      /\ BonusesAllowed(applied, witness, ops)
      BY BlockKeepsCoins
<1>2. Steady(db) /\ Steady(applied)  BY <1>1, TransactionsUnderway DEF IInv, Underway
<1>3. /\ db.issued \in BonusSums /\ applied.issued \in BonusSums /\ BonusLimit \in [Bonuses -> Nat]
      /\ "founder" \in Bonuses /\ "witness" \in Bonuses
      BY <1>2, ConstantsAssumption DEF Steady, Database, Bonuses
<1> HIDE DEF applied
<1>4. applied.issued["founder"] <= BonusLimit["founder"]  BY <1>2 DEF Steady, Capped
<1>5. \/ applied.issued["founder"] - db.issued["founder"] <= FounderRate * BlockInterval
      \/ applied.issued["founder"] = BonusLimit["founder"]
  <2>1. CASE Available(applied, "founder")
    <3>1. CountOf(ops, OperationOf("founder")) <= 1  BY <1>1, <2>1 DEF BonusesAllowed, OperationOf
    <3>2. applied.issued["founder"] \in {db.issued["founder"], db.issued["founder"] + Portion(db, "founder")}
          BY <1>1, <1>2, <3>1, OnePortion DEF applied
    <3>3. Portion(db, "founder") = FounderSum(db)  BY DEF Portion
    <3>4. FounderSum(db) \in Nat /\ FounderSum(db) <= FounderRate * BlockInterval
          BY <1>2, FounderEvaluated
    <3>5. FounderRate \in Nat /\ BlockInterval \in Nat  BY ConstantsAssumption
    <3>6. db.issued["founder"] \in Int /\ FounderRate * BlockInterval \in Nat
          BY <1>3, <3>5, ProductNat DEF BonusSums
    <3> QED BY <3>2, <3>3, <3>4, <3>6
  <2>2. CASE ~Available(applied, "founder")
    <3>1. applied.issued["founder"] \in Int /\ BonusLimit["founder"] \in Int  BY <1>3 DEF BonusSums
    <3> QED BY <1>4, <2>2, <3>1 DEF Available
  <2> QED BY <2>1, <2>2
<1>6. \/ applied.issued["witness"] - db.issued["witness"] <= WitnessSum(db)
      \/ applied.issued["witness"] >= BonusLimit["witness"]
  <2>1. CASE Available(applied, "witness")
    <3>1. CountOf(ops, OperationOf("witness")) <= 1  BY <1>1, <2>1 DEF BonusesAllowed, OperationOf
    <3>2. applied.issued["witness"] \in {db.issued["witness"], db.issued["witness"] + Portion(db, "witness")}
          BY <1>1, <1>2, <3>1, OnePortion DEF applied
    <3>3. Portion(db, "witness") = WitnessSum(db)  BY DEF Portion
    <3>4. /\ WitnessSum(db) \in Int /\ db.issued["witness"] \in Int /\ BonusLimit["witness"] \in Nat
          /\ WitnessSum(db) >= 0 \/ db.issued["witness"] >= BonusLimit["witness"]
          BY <1>2, WitnessPortion
    <3> QED BY <3>2, <3>3, <3>4
  <2>2. CASE ~Available(applied, "witness")
    <3>1. applied.issued["witness"] \in Int /\ BonusLimit["witness"] \in Int  BY <1>3 DEF BonusSums
    <3> QED BY <2>2, <3>1 DEF Available
  <2> QED BY <2>1, <2>2
<1> QED BY <1>1, <1>4, <1>5, <1>6 DEF OnePortionStep

(* OnePortionPerBlock, for any rates, limits and blocks: _apply_block      *)
(* counts the bonus operations after it has applied them, and it is enough.*)
THEOREM OnePortionIssued == Spec => OnePortionPerBlock
<1>1. IInv /\ [Next]_vars => [OnePortionStep]_vars
  <2> SUFFICES ASSUME IInv, [Next]_vars PROVE [OnePortionStep]_vars  OBVIOUS
  <2>1. CASE \E witness \in Witnesses, missed \in MissedSlots, ops \in Contents :
               apply_block(witness, missed, ops)
        BY <2>1, BlockIssuesOnePortion
  <2>2. CASE Done  BY <2>2 DEF Done
  <2>3. CASE UNCHANGED vars  BY <2>3
  <2> QED BY <2>1, <2>2, <2>3 DEF Next
<1> QED BY <1>1, Invariant, PTL DEF Spec, OnePortionPerBlock, OnePortionStep
=============================================================================
