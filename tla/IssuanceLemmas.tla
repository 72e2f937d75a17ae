---------------------------- MODULE IssuanceLemmas ----------------------------
(***************************************************************************)
(* Lemmas about vesting balances and about the operations of module        *)
(* Issuance.  Surplus is what the places of coins hold beyond              *)
(* current_supply; each operator has a lemma that says by how much it      *)
(* moves the surplus (Moves), and an operation as a whole moves it by 0    *)
(* (Evaluated).                                                            *)
(***************************************************************************)
EXTENDS Issuance, FoldTheorems

(* Integer division by a positive number. *)
LEMMA Quotient ==
  ASSUME NEW a \in Int, NEW c \in Nat \ {0}
  PROVE  a \div c \in Int /\ c * (a \div c) <= a /\ a < c * (a \div c) + c
OBVIOUS

(* It is monotonic. *)
LEMMA QuotientMonotonic ==
  ASSUME NEW a \in Int, NEW b \in Int, a <= b, NEW c \in Nat \ {0}
  PROVE  a \div c <= b \div c
BY Quotient

(* It is bounded by b if the dividend is bounded by b times the divisor. *)
LEMMA QuotientBound ==
  ASSUME NEW a \in Nat, NEW b \in Nat, NEW c \in Nat \ {0}, a <= b * c
  PROVE  a \div c \in 0..b
BY Quotient

(* What it returns, multiplied again, is there. *)
LEMMA QuotientProduct ==
  ASSUME NEW a \in Nat, NEW b \in Nat, NEW c \in Nat \ {0}, b <= a \div c
  PROVE  b * c <= a
BY Quotient

(* The product of naturals is a natural. *)
LEMMA ProductNat ==
  ASSUME NEW a \in Nat, NEW b \in Nat
  PROVE  a * b \in Nat
OBVIOUS

(* Min of two numbers. *)
LEMMA MinTwo ==
  ASSUME NEW a \in Int, NEW b \in Int
  PROVE  Min({a, b}) = IF a <= b THEN a ELSE b
BY DEF Min

(* Max of two numbers. *)
LEMMA MaxTwo ==
  ASSUME NEW a \in Int, NEW b \in Int
  PROVE  Max({a, b}) = IF a >= b THEN a ELSE b
BY DEF Max

-----------------------------------------------------------------------------
(* A coin-days-destroyed vesting balance. *)
Cdd ==
  [policy : {"cdd"}, owner : Accounts, balance : Nat, seconds : Nat, begin : Nat, earned : Nat,
   updated : Nat, held : Nat, vested : Nat, withdrawn : Nat]

(* A linear vesting balance. *)
Linear ==
  [policy : {"linear"}, owner : Accounts, balance : Nat, seconds : Nat, begin : Nat, cliff : Nat,
   begin_balance : Nat, held : Nat, vested : Nat, withdrawn : Nat]

(* A balance b that has earned e coin-seconds, dt seconds ago, has no more *)
(* than all its coins have matured; and with the w coins withdrawn, of c   *)
(* coin-seconds each, no more was earned than the h coin-seconds it was    *)
(* held for and the x coins that came vested.                              *)
Fair(e, b, dt, w, h, x, c) == e <= b * c /\ e + b * dt + w * c <= h + x * c

(* Bringing earnings up to date (update_coin_seconds_earned) is fair. *)
LEMMA FairUpdate ==
  ASSUME NEW e \in Nat, NEW b \in Nat, NEW dt \in Nat, NEW w \in Nat, NEW h \in Nat, NEW x \in Nat,
         NEW c \in Nat \ {0}, Fair(e, b, dt, w, h, x, c)
  PROVE  LET m == Min({e + b * dt, b * c})
         IN  m \in Nat /\ Fair(m, b, 0, w, h, x, c)
<1>1. b * dt \in Nat /\ b * c \in Nat /\ w * c \in Nat /\ x * c \in Nat  BY ProductNat
<1>2. LET m == Min({e + b * dt, b * c})
      IN  m \in Nat /\ m <= e + b * dt /\ m <= b * c
      BY <1>1, MinTwo
<1>3. b * 0 = 0  OBVIOUS
<1> QED BY <1>1, <1>2, <1>3 DEF Fair

(* So is a deposit: new coins have earned nothing. *)
LEMMA FairDeposit ==
  ASSUME NEW e \in Nat, NEW b \in Nat, NEW w \in Nat, NEW h \in Nat, NEW x \in Nat,
         NEW c \in Nat \ {0}, Fair(e, b, 0, w, h, x, c), NEW a \in Nat
  PROVE  Fair(e, b + a, 0, w, h, x, c)
<1>1. a * c \in Nat /\ b * c \in Nat /\ (b + a) * c = b * c + a * c  BY ProductNat
<1>2. b * 0 = 0 /\ (b + a) * 0 = 0  OBVIOUS
<1> QED BY <1>1, <1>2 DEF Fair

(* So is a deposit of a coins that need no vesting. *)
LEMMA FairVested ==
  ASSUME NEW e \in Nat, NEW b \in Nat, NEW w \in Nat, NEW h \in Nat, NEW x \in Nat,
         NEW c \in Nat \ {0}, Fair(e, b, 0, w, h, x, c), NEW a \in Nat
  PROVE  e + a * c \in Nat /\ Fair(e + a * c, b + a, 0, w, h, x + a, c)
<1>1. /\ a * c \in Nat /\ b * c \in Nat /\ w * c \in Nat /\ x * c \in Nat
      /\ (b + a) * c = b * c + a * c /\ (x + a) * c = x * c + a * c
      BY ProductNat
<1>2. b * 0 = 0 /\ (b + a) * 0 = 0  OBVIOUS
<1> QED BY <1>1, <1>2 DEF Fair

(* So is a withdrawal of coins that have matured; it is covered. *)
LEMMA FairWithdraw ==
  ASSUME NEW e \in Nat, NEW b \in Nat, NEW w \in Nat, NEW h \in Nat, NEW x \in Nat,
         NEW c \in Nat \ {0}, Fair(e, b, 0, w, h, x, c), NEW a \in Nat, a <= e \div c
  PROVE  e - a * c \in Nat /\ b - a \in Nat /\ Fair(e - a * c, b - a, 0, w + a, h, x, c)
<1>1. a * c <= e  BY QuotientProduct
<1>2. e <= b * c  BY DEF Fair
<1>3. e \div c \in 0..b  BY <1>2, QuotientBound
<1>4. a <= b  BY <1>3
<1>5. /\ a * c \in Nat /\ b * c \in Nat /\ w * c \in Nat /\ x * c \in Nat
      /\ (b - a) * c = b * c - a * c /\ (w + a) * c = w * c + a * c
      BY ProductNat
<1>6. b * 0 = 0 /\ (b - a) * 0 = 0  OBVIOUS
<1> QED BY <1>1, <1>4, <1>5, <1>6 DEF Fair

(* So is holding the coins for t more seconds. *)
LEMMA FairHold ==
  ASSUME NEW e \in Nat, NEW b \in Nat, NEW dt \in Nat, NEW w \in Nat, NEW h \in Nat, NEW x \in Nat,
         NEW c \in Nat \ {0}, Fair(e, b, dt, w, h, x, c), NEW t \in Nat
  PROVE  h + b * t \in Nat /\ Fair(e, b, dt + t, w, h + b * t, x, c)
<1>1. /\ b * dt \in Nat /\ b * t \in Nat /\ b * c \in Nat /\ w * c \in Nat /\ x * c \in Nat
      /\ b * (dt + t) = b * dt + b * t
      BY ProductNat
<1> QED BY <1>1 DEF Fair

(* What a coin-second-earning balance was owed when. *)
FairCdd(v, now) ==
  /\ v.updated <= now
  /\ Fair(v.earned, v.balance, now - v.updated, v.withdrawn, v.held, v.vested, CoinSecondsPerCoin(v))

(* What has vested of a linear balance. *)
VestedBy(v, now) ==
  IF now <= v.begin \/ now - v.begin < v.cliff THEN 0
  ELSE IF now - v.begin < v.seconds THEN (v.begin_balance * (now - v.begin)) \div v.seconds
       ELSE v.begin_balance

(* No more has left a linear balance than has vested of it. *)
FairLinear(v, now) ==
  v.balance <= v.begin_balance /\ v.begin_balance - v.balance <= VestedBy(v, now)

(* A coin costs at least one coin-second and no less than the period. *)
LEMMA PerCoin ==
  ASSUME NEW v \in Cdd
  PROVE  CoinSecondsPerCoin(v) \in Nat \ {0} /\ v.seconds <= CoinSecondsPerCoin(v)
<1>1. v.seconds \in Nat  BY DEF Cdd
<1> QED BY <1>1, MaxTwo DEF CoinSecondsPerCoin

(* v and u are alike but for what vesting changes. *)
SameTerms(u, v) == u.owner = v.owner /\ u.policy = v.policy /\ u.seconds = v.seconds

(* update_coin_seconds_earned keeps a balance fair and its coins in place. *)
LEMMA Updated ==
  ASSUME NEW now \in Nat, NEW v \in Cdd, FairCdd(v, now)
  PROVE  LET u == update_coin_seconds_earned(v, now)
         IN  /\ u \in Cdd /\ SameTerms(u, v) /\ CoinSecondsPerCoin(u) = CoinSecondsPerCoin(v)
             /\ u.updated = now /\ u.balance = v.balance
             /\ u.earned = compute_coin_seconds_earned(v, now)
             /\ Fair(u.earned, u.balance, 0, u.withdrawn, u.held, u.vested, CoinSecondsPerCoin(v))
<1> DEFINE c == CoinSecondsPerCoin(v)
           e == compute_coin_seconds_earned(v, now)
           u == update_coin_seconds_earned(v, now)
<1>1. /\ v.earned \in Nat /\ v.balance \in Nat /\ v.updated \in Nat /\ v.withdrawn \in Nat
      /\ v.held \in Nat /\ v.vested \in Nat
      BY DEF Cdd
<1>2. c \in Nat \ {0}  BY PerCoin
<1>3. now - v.updated \in Nat  BY <1>1 DEF FairCdd
<1>4. Fair(v.earned, v.balance, now - v.updated, v.withdrawn, v.held, v.vested, c)  BY DEF FairCdd
<1>5. e = Min({v.earned + v.balance * (now - v.updated), v.balance * c})
      BY DEF compute_coin_seconds_earned
<1> HIDE DEF c, e
<1>6. e \in Nat /\ Fair(e, v.balance, 0, v.withdrawn, v.held, v.vested, c)
      BY <1>1, <1>2, <1>3, <1>4, <1>5, FairUpdate
<1>7. u = [v EXCEPT !.earned = e, !.updated = now]  BY DEF update_coin_seconds_earned, e
<1> HIDE DEF u
<1>8. /\ u \in Cdd /\ SameTerms(u, v) /\ u.updated = now /\ u.earned = e /\ u.balance = v.balance
      /\ u.withdrawn = v.withdrawn /\ u.held = v.held /\ u.vested = v.vested
      BY <1>6, <1>7 DEF Cdd, SameTerms
<1>9. CoinSecondsPerCoin(u) = c  BY <1>8 DEF c, CoinSecondsPerCoin, SameTerms
<1> QED BY <1>6, <1>8, <1>9 DEF u, e, c

(* deposit adds the amount and keeps the balance fair. *)
LEMMA Deposited ==
  ASSUME NEW now \in Nat, NEW v \in Cdd, FairCdd(v, now), NEW amount \in Nat
  PROVE  LET r == Deposit(v, now, amount)
         IN  /\ r \in Cdd /\ SameTerms(r, v) /\ r.balance = v.balance + amount
             /\ FairCdd(r, now)
<1> DEFINE c == CoinSecondsPerCoin(v)
           u == update_coin_seconds_earned(v, now)
           r == Deposit(v, now, amount)
<1>1. /\ u \in Cdd /\ SameTerms(u, v) /\ CoinSecondsPerCoin(u) = c
      /\ u.updated = now /\ u.balance = v.balance
      /\ Fair(u.earned, u.balance, 0, u.withdrawn, u.held, u.vested, c)
      BY Updated
<1>2. c \in Nat \ {0}  BY PerCoin
<1>3. r = [u EXCEPT !.balance = @ + amount]  BY DEF Deposit
<1> HIDE DEF u, r, c
<1>4. /\ u.earned \in Nat /\ u.balance \in Nat /\ u.withdrawn \in Nat
      /\ u.held \in Nat /\ u.vested \in Nat
      BY <1>1 DEF Cdd
<1>5. u.balance + amount \in Nat  BY <1>4
<1>6. /\ r \in Cdd /\ SameTerms(r, u) /\ r.balance = u.balance + amount /\ r.updated = now
      /\ r.earned = u.earned /\ r.withdrawn = u.withdrawn /\ r.held = u.held /\ r.vested = u.vested
      BY <1>1, <1>3, <1>5 DEF Cdd, SameTerms
<1>7. CoinSecondsPerCoin(r) = c  BY <1>1, <1>6 DEF CoinSecondsPerCoin, SameTerms
<1>8. Fair(u.earned, u.balance + amount, 0, u.withdrawn, u.held, u.vested, c)
      BY <1>1, <1>2, <1>4, FairDeposit
<1>9. now - now = 0 /\ now <= now  OBVIOUS
<1>10. FairCdd(r, now)  BY <1>6, <1>7, <1>8, <1>9 DEF FairCdd
<1> QED BY <1>1, <1>6, <1>10 DEF SameTerms, r

(* deposit_vested adds the amount and keeps the balance fair. *)
LEMMA DepositedVested ==
  ASSUME NEW now \in Nat, NEW v \in Cdd, FairCdd(v, now), NEW amount \in Nat
  PROVE  LET r == deposit_vested(v, now, amount)
         IN  /\ r \in Cdd /\ SameTerms(r, v) /\ r.balance = v.balance + amount
             /\ FairCdd(r, now)
<1> DEFINE c == CoinSecondsPerCoin(v)
           u == update_coin_seconds_earned(v, now)
           r == deposit_vested(v, now, amount)
<1>1. /\ u \in Cdd /\ SameTerms(u, v) /\ CoinSecondsPerCoin(u) = c
      /\ u.updated = now /\ u.balance = v.balance
      /\ Fair(u.earned, u.balance, 0, u.withdrawn, u.held, u.vested, c)
      BY Updated
<1>2. c \in Nat \ {0}  BY PerCoin
<1>3. r = [[u EXCEPT !.balance = @ + amount] EXCEPT !.earned = @ + amount * c, !.vested = @ + amount]
      BY DEF Deposit, deposit_vested
<1> HIDE DEF u, r, c
<1>4. /\ u.earned \in Nat /\ u.balance \in Nat /\ u.withdrawn \in Nat
      /\ u.held \in Nat /\ u.vested \in Nat
      BY <1>1 DEF Cdd
<1>5. u.balance + amount \in Nat /\ u.vested + amount \in Nat  BY <1>4
<1>6. /\ u.earned + amount * c \in Nat
      /\ Fair(u.earned + amount * c, u.balance + amount, 0, u.withdrawn, u.held, u.vested + amount, c)
      BY <1>1, <1>2, <1>4, FairVested
<1>7. /\ r \in Cdd /\ SameTerms(r, u) /\ r.balance = u.balance + amount /\ r.updated = now
      /\ r.earned = u.earned + amount * c /\ r.withdrawn = u.withdrawn /\ r.held = u.held
      /\ r.vested = u.vested + amount
      BY <1>1, <1>3, <1>5, <1>6 DEF Cdd, SameTerms
<1>8. CoinSecondsPerCoin(r) = c  BY <1>1, <1>7 DEF CoinSecondsPerCoin, SameTerms
<1>9. now - now = 0 /\ now <= now  OBVIOUS
<1>10. FairCdd(r, now)  BY <1>6, <1>7, <1>8, <1>9 DEF FairCdd
<1> QED BY <1>1, <1>7, <1>10 DEF SameTerms, r

(* Multiplication by a natural keeps the order. *)
LEMMA ProductMonotonic ==
  ASSUME NEW a \in Int, NEW b \in Int, a <= b, NEW c \in Nat
  PROVE  c * a <= c * b
OBVIOUS

(* Between nothing and the whole of a linear balance has vested. *)
LEMMA VestedByBound ==
  ASSUME NEW v \in Linear, NEW now \in Nat
  PROVE  VestedBy(v, now) \in 0..v.begin_balance
<1>1. v.begin_balance \in Nat /\ v.begin \in Nat /\ v.seconds \in Nat /\ v.cliff \in Nat
      BY DEF Linear
<1> DEFINE t == now - v.begin
<1>2. CASE now > v.begin /\ t >= v.cliff /\ t < v.seconds
  <2>1. t \in Nat /\ v.seconds \in Nat \ {0} /\ t <= v.seconds  BY <1>1, <1>2
  <2> HIDE DEF t
  <2>2. v.begin_balance * t \in Nat /\ v.begin_balance * t <= v.begin_balance * v.seconds
        BY <1>1, <2>1, ProductNat, ProductMonotonic
  <2>3. (v.begin_balance * t) \div v.seconds \in 0..v.begin_balance
        BY <1>1, <2>1, <2>2, QuotientBound
  <2> QED BY <1>1, <1>2, <2>3 DEF VestedBy, t
<1>3. CASE ~(now > v.begin /\ t >= v.cliff /\ t < v.seconds)  BY <1>1, <1>3 DEF VestedBy
<1> QED BY <1>2, <1>3

(* What has vested of a linear balance stays vested. *)
LEMMA VestedByGrows ==
  ASSUME NEW v \in Linear, NEW now \in Nat, NEW later \in Nat, now <= later
  PROVE  VestedBy(v, now) <= VestedBy(v, later)
<1>1. v.begin_balance \in Nat /\ v.begin \in Nat /\ v.seconds \in Nat /\ v.cliff \in Nat
      BY DEF Linear
<1>2. VestedBy(v, now) \in 0..v.begin_balance /\ VestedBy(v, later) \in 0..v.begin_balance
      BY VestedByBound
<1> DEFINE t == now - v.begin
           u == later - v.begin
<1>3. CASE now > v.begin /\ t >= v.cliff /\ u < v.seconds
  <2>1. t \in Nat /\ u \in Nat /\ t <= u /\ v.seconds \in Nat \ {0} /\ t < v.seconds
        /\ later > v.begin /\ u >= v.cliff
        BY <1>1, <1>3
  <2>2. VestedBy(v, now) = (v.begin_balance * t) \div v.seconds
        BY <1>1, <1>3, <2>1 DEF VestedBy
  <2>3. VestedBy(v, later) = (v.begin_balance * u) \div v.seconds
        BY <1>1, <1>3, <2>1 DEF VestedBy
  <2> HIDE DEF t, u
  <2>4. /\ v.begin_balance * t \in Nat /\ v.begin_balance * u \in Nat
        /\ v.begin_balance * t <= v.begin_balance * u
        BY <1>1, <2>1, ProductNat, ProductMonotonic
  <2> QED BY <2>1, <2>2, <2>3, <2>4, QuotientMonotonic
<1>4. CASE now > v.begin /\ t >= v.cliff /\ u >= v.seconds
  <2>1. VestedBy(v, later) = v.begin_balance  BY <1>1, <1>4 DEF VestedBy
  <2> QED BY <1>1, <1>2, <2>1
<1>5. CASE ~(now > v.begin /\ t >= v.cliff)
  <2>1. VestedBy(v, now) = 0  BY <1>1, <1>5 DEF VestedBy
  <2> QED BY <1>1, <1>2, <2>1
<1>6. u < v.seconds \/ u >= v.seconds  BY <1>1
<1> QED BY <1>3, <1>4, <1>5, <1>6

(* linear_vesting_policy allows what has vested and not been drawn, and it *)
(* is there.                                                               *)
LEMMA LinearAllowance ==
  ASSUME NEW v \in Linear, NEW now \in Nat, FairLinear(v, now)
  PROVE  /\ LinearAllowed(v, now) = VestedBy(v, now) - (v.begin_balance - v.balance)
         /\ LinearAllowed(v, now) \in 0..v.balance
<1>1. /\ v.begin_balance \in Nat /\ v.begin \in Nat /\ v.seconds \in Nat /\ v.cliff \in Nat
      /\ v.balance \in Nat
      BY DEF Linear
<1>2. VestedBy(v, now) \in 0..v.begin_balance  BY VestedByBound
<1>3. v.balance <= v.begin_balance /\ v.begin_balance - v.balance <= VestedBy(v, now)
      BY DEF FairLinear
<1> DEFINE t == now - v.begin
<1>4. CASE now <= v.begin \/ t < v.cliff
  <2>1. VestedBy(v, now) = 0 /\ LinearAllowed(v, now) = 0  BY <1>4 DEF VestedBy, LinearAllowed
  <2> QED BY <1>1, <1>3, <2>1
<1>5. CASE ~(now <= v.begin \/ t < v.cliff)
  <2>1. LinearAllowed(v, now) = VestedBy(v, now) - (v.begin_balance - v.balance)
        BY <1>5 DEF VestedBy, LinearAllowed
  <2> QED BY <1>1, <1>2, <1>3, <2>1
<1> QED BY <1>4, <1>5

(* The balances that are sound at a time. *)
Balances(now) == {v \in Cdd : FairCdd(v, now)} \cup {v \in Linear : FairLinear(v, now)}

(* The two policies. *)
LEMMA BalanceCases ==
  ASSUME NEW now, NEW v \in Balances(now)
  PROVE  \/ v \in Cdd /\ v.policy = "cdd" /\ FairCdd(v, now)
         \/ v \in Linear /\ v.policy = "linear" /\ FairLinear(v, now)
<1>1. ASSUME v \in Cdd PROVE v.policy = "cdd"  BY <1>1 DEF Cdd
<1>2. ASSUME v \in Linear PROVE v.policy = "linear"  BY <1>2 DEF Linear
<1> QED BY <1>1, <1>2 DEF Balances

(* cdd_vesting_policy allows what has matured, and it is there. *)
LEMMA CddAllowance ==
  ASSUME NEW now \in Nat, NEW v \in Cdd, FairCdd(v, now)
  PROVE  /\ CddAllowed(v, now) \in 0..v.balance
         /\ CddAllowed(v, now) <= compute_coin_seconds_earned(v, now) \div CoinSecondsPerCoin(v)
<1> DEFINE c == CoinSecondsPerCoin(v)
           e == compute_coin_seconds_earned(v, now)
           u == update_coin_seconds_earned(v, now)
<1>1. /\ u \in Cdd /\ u.balance = v.balance /\ u.earned = e
      /\ Fair(u.earned, u.balance, 0, u.withdrawn, u.held, u.vested, c)
      BY Updated
<1>2. c \in Nat \ {0}  BY PerCoin
<1>3. v.balance \in Nat  BY DEF Cdd
<1>4. CddAllowed(v, now) = IF now <= v.begin THEN 0 ELSE e \div c  BY DEF CddAllowed
<1> HIDE DEF c, e, u
<1>5. e \in Nat /\ e <= v.balance * c  BY <1>1 DEF Fair, Cdd
<1>6. e \div c \in 0..v.balance  BY <1>2, <1>3, <1>5, QuotientBound
<1> QED BY <1>3, <1>4, <1>6 DEF c, e

(* get_allowed_withdraw never exceeds the balance, for either policy. *)
LEMMA Allowance ==
  ASSUME NEW now \in Nat, NEW v \in Balances(now)
  PROVE  get_allowed_withdraw(v, now) \in 0..v.balance
<1>1. CASE v \in Cdd /\ v.policy = "cdd" /\ FairCdd(v, now)
      BY <1>1, CddAllowance DEF get_allowed_withdraw
<1>2. CASE v \in Linear /\ v.policy = "linear" /\ FairLinear(v, now)
      BY <1>2, LinearAllowance DEF get_allowed_withdraw
<1> QED BY <1>1, <1>2, BalanceCases

(* withdraw takes the amount and keeps a coin-days balance fair. *)
LEMMA WithdrawnCdd ==
  ASSUME NEW now \in Nat, NEW v \in Cdd, FairCdd(v, now), v.policy = "cdd",
         NEW amount \in Nat, amount <= get_allowed_withdraw(v, now)
  PROVE  LET r == withdraw(v, now, amount)
         IN  /\ r \in Cdd /\ SameTerms(r, v) /\ r.balance = v.balance - amount
             /\ FairCdd(r, now)
<1> DEFINE c == CoinSecondsPerCoin(v)
           e == compute_coin_seconds_earned(v, now)
           u == update_coin_seconds_earned(v, now)
           r == withdraw(v, now, amount)
<1>1. /\ u \in Cdd /\ SameTerms(u, v) /\ CoinSecondsPerCoin(u) = c
      /\ u.updated = now /\ u.balance = v.balance /\ u.earned = e
      /\ Fair(u.earned, u.balance, 0, u.withdrawn, u.held, u.vested, c)
      BY Updated
<1>2. c \in Nat \ {0}  BY PerCoin
<1>3. r = [[u EXCEPT !.earned = @ - amount * c] EXCEPT !.balance = @ - amount, !.withdrawn = @ + amount]
      BY DEF withdraw
<1>4. get_allowed_withdraw(v, now) \in Int /\ get_allowed_withdraw(v, now) <= e \div c
      BY CddAllowance DEF get_allowed_withdraw, Cdd
<1> HIDE DEF u, r, c, e
<1>5. /\ u.earned \in Nat /\ u.balance \in Nat /\ u.withdrawn \in Nat
      /\ u.held \in Nat /\ u.vested \in Nat
      BY <1>1 DEF Cdd
<1>6. e \in Int /\ e \div c \in Int  BY <1>1, <1>2, <1>5, Quotient
<1>7. amount <= u.earned \div c  BY <1>1, <1>4, <1>6
<1>8. /\ u.earned - amount * c \in Nat /\ u.balance - amount \in Nat
      /\ Fair(u.earned - amount * c, u.balance - amount, 0, u.withdrawn + amount, u.held, u.vested, c)
      BY <1>1, <1>2, <1>5, <1>7, FairWithdraw
<1>9. u.withdrawn + amount \in Nat  BY <1>5
<1>10. /\ r \in Cdd /\ SameTerms(r, u) /\ r.balance = u.balance - amount /\ r.updated = now
       /\ r.earned = u.earned - amount * c /\ r.withdrawn = u.withdrawn + amount
       /\ r.held = u.held /\ r.vested = u.vested
       BY <1>1, <1>3, <1>8, <1>9 DEF Cdd, SameTerms
<1>11. CoinSecondsPerCoin(r) = c  BY <1>1, <1>10 DEF CoinSecondsPerCoin, SameTerms
<1>12. now - now = 0 /\ now <= now  OBVIOUS
<1>13. FairCdd(r, now)  BY <1>8, <1>10, <1>11, <1>12 DEF FairCdd
<1> QED BY <1>1, <1>10, <1>13 DEF SameTerms, r

(* withdraw takes the amount and keeps a linear balance fair. *)
LEMMA WithdrawnLinear ==
  ASSUME NEW now \in Nat, NEW v \in Linear, FairLinear(v, now), v.policy = "linear",
         NEW amount \in Nat, amount <= get_allowed_withdraw(v, now)
  PROVE  LET r == withdraw(v, now, amount)
         IN  /\ r \in Linear /\ SameTerms(r, v) /\ r.balance = v.balance - amount
             /\ FairLinear(r, now)
<1> DEFINE r == withdraw(v, now, amount)
<1>1. v.begin_balance \in Nat /\ v.balance \in Nat /\ v.withdrawn \in Nat  BY DEF Linear
<1>2. VestedBy(v, now) \in 0..v.begin_balance  BY VestedByBound
<1>3. /\ get_allowed_withdraw(v, now) = VestedBy(v, now) - (v.begin_balance - v.balance)
      /\ get_allowed_withdraw(v, now) \in 0..v.balance
      BY LinearAllowance DEF get_allowed_withdraw
<1>4. v.balance <= v.begin_balance  BY DEF FairLinear
<1>5. r = [v EXCEPT !.balance = @ - amount, !.withdrawn = @ + amount]  BY DEF withdraw
<1> HIDE DEF r
<1>6. v.balance - amount \in Nat /\ v.withdrawn + amount \in Nat  BY <1>1, <1>3
<1>7. /\ r \in Linear /\ SameTerms(r, v) /\ r.balance = v.balance - amount
      /\ r.begin_balance = v.begin_balance /\ r.begin = v.begin /\ r.cliff = v.cliff
      BY <1>5, <1>6 DEF Linear, SameTerms
<1>8. VestedBy(r, now) = VestedBy(v, now)  BY <1>7 DEF VestedBy, SameTerms
<1>9. FairLinear(r, now)  BY <1>1, <1>2, <1>3, <1>4, <1>7, <1>8 DEF FairLinear
<1> QED BY <1>7, <1>9 DEF r

(* withdraw takes the amount and keeps any balance fair. *)
LEMMA Withdrawn ==
  ASSUME NEW now \in Nat, NEW v \in Balances(now),
         NEW amount \in Nat, amount <= get_allowed_withdraw(v, now)
  PROVE  LET r == withdraw(v, now, amount)
         IN  r \in Balances(now) /\ SameTerms(r, v) /\ r.balance = v.balance - amount
<1>1. CASE v \in Cdd /\ v.policy = "cdd" /\ FairCdd(v, now)
      BY <1>1, WithdrawnCdd DEF Balances
<1>2. CASE v \in Linear /\ v.policy = "linear" /\ FairLinear(v, now)
      BY <1>2, WithdrawnLinear DEF Balances
<1> QED BY <1>1, <1>2, BalanceCases

(* Time passes. *)
LEMMA Held ==
  ASSUME NEW now \in Nat, NEW v \in Balances(now), NEW t \in Nat
  PROVE  LET r == [v EXCEPT !.held = @ + v.balance * t]
         IN  r \in Balances(now + t) /\ SameTerms(r, v) /\ r.balance = v.balance
<1> DEFINE r == [v EXCEPT !.held = @ + v.balance * t]
           later == now + t
<1>0. later \in Nat /\ now <= later  OBVIOUS
<1>1. CASE v \in Cdd /\ v.policy = "cdd" /\ FairCdd(v, now)
  <2> DEFINE c == CoinSecondsPerCoin(v)
  <2>1. /\ v.earned \in Nat /\ v.balance \in Nat /\ v.updated \in Nat /\ v.withdrawn \in Nat
        /\ v.held \in Nat /\ v.vested \in Nat
        BY <1>1 DEF Cdd
  <2>2. c \in Nat \ {0}  BY <1>1, PerCoin
  <2>3. /\ v.updated <= now
        /\ Fair(v.earned, v.balance, now - v.updated, v.withdrawn, v.held, v.vested, c)
        BY <1>1 DEF FairCdd
  <2>4. now - v.updated \in Nat /\ later - v.updated = (now - v.updated) + t /\ v.updated <= later
        BY <2>1, <2>3
  <2> HIDE DEF c, later
  <2>5. /\ v.held + v.balance * t \in Nat
        /\ Fair(v.earned, v.balance, (now - v.updated) + t, v.withdrawn, v.held + v.balance * t, v.vested, c)
        BY <2>1, <2>2, <2>3, <2>4, FairHold
  <2>6. /\ r \in Cdd /\ SameTerms(r, v) /\ r.balance = v.balance /\ r.updated = v.updated
        /\ r.earned = v.earned /\ r.withdrawn = v.withdrawn /\ r.held = v.held + v.balance * t
        /\ r.vested = v.vested
        BY <1>1, <2>5 DEF Cdd, SameTerms
  <2> HIDE DEF r
  <2>7. CoinSecondsPerCoin(r) = c  BY <2>6 DEF CoinSecondsPerCoin, SameTerms, c
  <2>8. FairCdd(r, later)  BY <2>4, <2>5, <2>6, <2>7 DEF FairCdd
  <2> QED BY <2>6, <2>8 DEF Balances, r, later
<1>2. CASE v \in Linear /\ v.policy = "linear" /\ FairLinear(v, now)
  <2>1. v.balance \in Nat /\ v.held \in Nat /\ v.begin_balance \in Nat  BY <1>2 DEF Linear
  <2>2. v.balance * t \in Nat  BY <2>1, ProductNat
  <2>3. v.held + v.balance * t \in Nat  BY <2>1, <2>2
  <2>4. /\ r \in Linear /\ SameTerms(r, v) /\ r.balance = v.balance
        /\ r.begin_balance = v.begin_balance /\ r.begin = v.begin /\ r.cliff = v.cliff
        BY <1>2, <2>3 DEF Linear, SameTerms
  <2> HIDE DEF r, later
  <2>5. VestedBy(r, later) = VestedBy(v, later)  BY <2>4 DEF VestedBy, SameTerms
  <2>6. VestedBy(v, now) <= VestedBy(v, later)  BY <1>0, <1>2, VestedByGrows
  <2>7. VestedBy(v, now) \in Int /\ VestedBy(v, later) \in Int  BY <1>0, <1>2, <2>1, VestedByBound
  <2>8. FairLinear(r, later)  BY <1>2, <2>1, <2>4, <2>5, <2>6, <2>7 DEF FairLinear
  <2> QED BY <2>4, <2>8 DEF Balances, r, later
<1> QED BY <1>1, <1>2, BalanceCases

(* A coin-days balance is fair when it is made, vested or not. *)
LEMMA NewCdd ==
  ASSUME NEW now \in Nat, NEW r \in Cdd, r.updated = now, r.held = 0, r.withdrawn = 0,
         r.vested \in {0, r.balance}, r.earned = r.vested * r.seconds
  PROVE  FairCdd(r, now)
<1> DEFINE c == CoinSecondsPerCoin(r)
           x == r.vested
           amount == r.balance
           seconds == r.seconds
<1>1. x \in Nat /\ amount \in Nat /\ seconds \in Nat /\ x <= amount  BY DEF Cdd
<1>2. x * seconds \in Nat /\ r.earned = x * seconds  BY <1>1, ProductNat
<1>4. c \in Nat \ {0} /\ seconds <= c  BY PerCoin
<1> HIDE DEF c, x, amount, seconds
<1>5. x * seconds <= x * c /\ x * c <= amount * c
  <2>1. x * seconds <= x * c  BY <1>1, <1>4, ProductMonotonic
  <2>2. c * x <= c * amount  BY <1>1, <1>4, ProductMonotonic
  <2> QED BY <1>1, <1>4, <2>1, <2>2
<1>6. now - now = 0 /\ now <= now /\ amount * 0 = 0 /\ 0 * c = 0 /\ x * c \in Nat /\ amount * c \in Nat
      BY <1>1, <1>4, ProductNat
<1>7. Fair(x * seconds, amount, 0, 0, 0, x, c)  BY <1>2, <1>5, <1>6 DEF Fair
<1> QED BY <1>2, <1>6, <1>7 DEF FairCdd, c, x, amount

(* So is a linear balance. *)
LEMMA NewLinear ==
  ASSUME NEW now \in Nat, NEW r \in Linear, r.balance = r.begin_balance
  PROVE  FairLinear(r, now)
<1>1. VestedBy(r, now) \in 0..r.begin_balance  BY VestedByBound
<1>2. r.begin_balance \in Nat  BY DEF Linear
<1> QED BY <1>1, <1>2 DEF FairLinear

(* What VestingSound says of a balance. *)
LEMMA BalanceSound ==
  ASSUME NEW now \in Nat, NEW v \in Balances(now)
  PROVE  /\ get_allowed_withdraw(v, now) \in 0..v.balance
         /\ v.policy = "cdd" =>
              v.withdrawn * CoinSecondsPerCoin(v) <= v.held + v.vested * CoinSecondsPerCoin(v)
<1>1. get_allowed_withdraw(v, now) \in 0..v.balance  BY Allowance
<1>2. ASSUME v.policy = "cdd"
      PROVE v.withdrawn * CoinSecondsPerCoin(v) <= v.held + v.vested * CoinSecondsPerCoin(v)
  <2> DEFINE c == CoinSecondsPerCoin(v)
  <2>1. v \in Cdd /\ FairCdd(v, now)  BY <1>2, BalanceCases
  <2>2. /\ v.earned \in Nat /\ v.balance \in Nat /\ v.updated \in Nat /\ v.withdrawn \in Nat
        /\ v.held \in Nat /\ v.vested \in Nat
        BY <2>1 DEF Cdd
  <2>3. c \in Nat \ {0}  BY <2>1, PerCoin
  <2>4. now - v.updated \in Nat  BY <2>1, <2>2 DEF FairCdd
  <2>5. Fair(v.earned, v.balance, now - v.updated, v.withdrawn, v.held, v.vested, c)
        BY <2>1 DEF FairCdd
  <2> HIDE DEF c
  <2>6. v.balance * (now - v.updated) \in Nat /\ v.withdrawn * c \in Nat /\ v.vested * c \in Nat
        BY <2>2, <2>3, <2>4, ProductNat
  <2>7. v.withdrawn * c <= v.held + v.vested * c  BY <2>2, <2>5, <2>6 DEF Fair
  <2> QED BY <2>7 DEF c
<1> QED BY <1>1, <1>2

-----------------------------------------------------------------------------
(* What a lazily made vesting balance is for. *)
Purposes == {"cashback", "pay"}

(* The types of the fields of db. *)
BalanceMap == [Accounts -> Int]
(* Sets of values of single fields, named so that the provers keep them    *)
(* apart.                                                                  *)
FeeMap == [Accounts -> Nat]
LinkMap == [Purposes -> FeeMap]
VestingList == Seq(Cdd \cup Linear)
Grants == [requested : Int, granted : Int]
PendingParameters == Parameters \cup {NoParameters}
BonusSums == [Bonuses -> Int]
AccountSets == SUBSET Accounts
SalePairs == SUBSET (Accounts \X Accounts)

(* The records that db may be, also while a block is applied. *)
Database ==
  [ok : BOOLEAN, number : Nat, time : Nat, accounts : AccountSets, balance : BalanceMap,
   pending_fees : FeeMap, pending_vested_fees : FeeMap, vb : LinkMap, vesting : VestingList,
   current_supply : Int, accumulated_fees : Nat, witness_budget : Nat, last_budget_time : Nat,
   next_maintenance_time : Nat, budget : Grants, parameters : Parameters,
   pending_parameters : PendingParameters, issued : BonusSums, received_welcome_bonus : AccountSets,
   sent_referral_bonus : AccountSets, buyers : SalePairs]

(* The coins of each account, and of each vesting balance. *)
AccountCoins(s) ==
  [a \in Accounts |-> s.balance[a] + s.pending_fees[a] + s.pending_vested_fees[a]]
(* The coins in each vesting balance. *)
VestingCoins(s) == [id \in DOMAIN s.vesting |-> s.vesting[id].balance]

(* The coins that are somewhere less those of current_supply. *)
Surplus(s) ==
  SumFunction(AccountCoins(s)) + SumFunction(VestingCoins(s)) + s.accumulated_fees
  + s.witness_budget - s.current_supply

(* The coins of the accounts have a sum. *)
LEMMA AccountSum ==
  ASSUME NEW s \in Database
  PROVE  LET f == AccountCoins(s)
         IN  /\ IsFiniteSet(Accounts) /\ DOMAIN f = Accounts /\ IntOn(f, Accounts)
             /\ SumFunction(f) = SumFunctionOnSet(f, Accounts) /\ SumFunction(f) \in Int
<1> DEFINE f == AccountCoins(s)
<1>1. IsFiniteSet(Accounts)  BY ConstantsAssumption
<1>2. s.balance \in BalanceMap /\ s.pending_fees \in FeeMap /\ s.pending_vested_fees \in FeeMap
      BY DEF Database
<1>3. DOMAIN f = Accounts /\ IntOn(f, Accounts)
      BY <1>2 DEF AccountCoins, IntOn, BalanceMap, FeeMap
<1> HIDE DEF f
<1>4. SumFunctionOnSet(f, Accounts) \in Int  BY <1>1, <1>3, SumInt
<1>5. SumFunction(f) = SumFunctionOnSet(f, Accounts)  BY <1>3 DEF SumFunction
<1> QED BY <1>1, <1>3, <1>4, <1>5 DEF f

(* It changes by d when one account's coins do. *)
LEMMA AccountsChange ==
  ASSUME NEW s \in Database, NEW r \in Database, NEW a \in Accounts, NEW d \in Int,
         AccountCoins(r)[a] = AccountCoins(s)[a] + d,
         AgreeBut(AccountCoins(r), AccountCoins(s), Accounts, a)
  PROVE  SumFunction(AccountCoins(r)) = SumFunction(AccountCoins(s)) + d
<1> DEFINE f == AccountCoins(s)
           e == AccountCoins(r)
<1>1. /\ IsFiniteSet(Accounts) /\ IntOn(f, Accounts)
      /\ SumFunction(f) = SumFunctionOnSet(f, Accounts) /\ SumFunction(f) \in Int
      BY AccountSum
<1>2. SumFunction(e) = SumFunctionOnSet(e, Accounts)  BY AccountSum
<1> HIDE DEF f, e
<1>3. f[a] \in Int /\ e[a] = f[a] + d /\ e[a] \in Int  BY <1>1 DEF IntOn, f, e
<1>4. AgreeBut(e, f, Accounts, a)  BY DEF f, e
<1>5. SumFunctionOnSet(e, Accounts) = SumFunctionOnSet(f, Accounts) - f[a] + e[a]
      BY <1>1, <1>3, <1>4, SumChange
<1>6. SumFunction(e) = SumFunction(f) + d  BY <1>1, <1>2, <1>3, <1>5
<1> QED BY <1>6 DEF f, e

(* The vesting balances are a sequence. *)
LEMMA VestingType ==
  ASSUME NEW s \in Database
  PROVE  /\ s.vesting \in VestingList /\ DOMAIN s.vesting = 1..Len(s.vesting) /\ Len(s.vesting) \in Nat
         /\ \A id \in DOMAIN s.vesting : /\ s.vesting[id] \in Cdd \cup Linear
                                         /\ s.vesting[id].balance \in Nat
<1>1. s.vesting \in VestingList  BY DEF Database
<1>2. ASSUME NEW v \in Cdd \cup Linear PROVE v.balance \in Nat  BY DEF Cdd, Linear
<1>3. DOMAIN s.vesting = 1..Len(s.vesting) /\ Len(s.vesting) \in Nat  BY <1>1 DEF VestingList
<1>4. ASSUME NEW id \in DOMAIN s.vesting PROVE s.vesting[id] \in Cdd \cup Linear
      BY <1>1 DEF VestingList
<1> QED BY <1>1, <1>2, <1>3, <1>4

(* Their coins have a sum. *)
LEMMA VestingSum ==
  ASSUME NEW s \in Database
  PROVE  LET f == VestingCoins(s)
         IN  /\ IsFiniteSet(DOMAIN s.vesting) /\ DOMAIN f = DOMAIN s.vesting /\ IntFunction(f)
             /\ SumFunction(f) = SumFunctionOnSet(f, DOMAIN s.vesting) /\ SumFunction(f) \in Int
<1> DEFINE f == VestingCoins(s)
           D == DOMAIN s.vesting
<1>1. IsFiniteSet(D)
  <2>1. D = 1..Len(s.vesting) /\ Len(s.vesting) \in Nat  BY VestingType
  <2> HIDE DEF D
  <2> QED BY <2>1, FS_Interval
<1>2. \A id \in D : s.vesting[id].balance \in Int  BY VestingType
<1>3. DOMAIN f = D /\ \A id \in D : f[id] = s.vesting[id].balance  BY DEF VestingCoins
<1> HIDE DEF f, D
<1>4. IntOn(f, D)  BY <1>2, <1>3 DEF IntOn
<1>5. IntFunction(f)  BY <1>1, <1>3, <1>4 DEF IntFunction
<1>6. SumFunction(f) = SumFunctionOnSet(f, D)  BY <1>3 DEF SumFunction
<1>7. SumFunction(f) \in Int  BY <1>5, SumFunctionInt
<1> QED BY <1>1, <1>3, <1>5, <1>6, <1>7 DEF f, D

(* The surplus is a number. *)
LEMMA SurplusInt ==
  ASSUME NEW s \in Database
  PROVE  Surplus(s) \in Int
<1>1. s.accumulated_fees \in Int /\ s.witness_budget \in Int /\ s.current_supply \in Int
      BY DEF Database
<1> QED BY <1>1, AccountSum, VestingSum DEF Surplus

(* The sum changes with the one balance that is replaced. *)
LEMMA VestingChange ==
  ASSUME NEW s \in Database, NEW r \in Database, NEW id \in DOMAIN s.vesting, NEW x \in Cdd \cup Linear,
         r.vesting = [s.vesting EXCEPT ![id] = x]
  PROVE  SumFunction(VestingCoins(r)) = SumFunction(VestingCoins(s)) - s.vesting[id].balance + x.balance
<1> DEFINE f == VestingCoins(s)
           e == VestingCoins(r)
           D == DOMAIN s.vesting
<1>1. IsFiniteSet(D) /\ DOMAIN f = D /\ IntFunction(f) /\ SumFunction(f) = SumFunctionOnSet(f, D)
      BY VestingSum
<1>2. DOMAIN r.vesting = D  OBVIOUS
<1>3. SumFunction(e) = SumFunctionOnSet(e, D)  BY <1>2, VestingSum
<1>4. f[id] = s.vesting[id].balance /\ e[id] = x.balance /\ \A i \in D : i # id => e[i] = f[i]
      BY <1>2 DEF VestingCoins
<1>5. x.balance \in Int  BY DEF Cdd, Linear
<1> HIDE DEF f, e, D
<1>6. IntOn(f, D)  BY <1>1 DEF IntFunction
<1>7. AgreeBut(e, f, D, id)  BY <1>4 DEF AgreeBut
<1>8. SumFunctionOnSet(e, D) = SumFunctionOnSet(f, D) - f[id] + e[id]
  <2>1. id \in D  BY DEF D
  <2> QED BY <1>1, <1>4, <1>5, <1>6, <1>7, <2>1, SumChange
<1> QED BY <1>1, <1>3, <1>4, <1>8 DEF f, e

(* And grows by a balance that is added. *)
LEMMA VestingAppend ==
  ASSUME NEW s \in Database, NEW r \in Database, NEW x \in Cdd \cup Linear,
         r.vesting = Append(s.vesting, x)
  PROVE  SumFunction(VestingCoins(r)) = SumFunction(VestingCoins(s)) + x.balance
<1> DEFINE f == VestingCoins(s)
           e == VestingCoins(r)
           D == DOMAIN s.vesting
           n == Len(s.vesting) + 1
<1>1. s.vesting \in Seq(Cdd \cup Linear) /\ D = 1..Len(s.vesting) /\ Len(s.vesting) \in Nat
      BY VestingType DEF VestingList
<1>2. /\ DOMAIN r.vesting = D \cup {n} /\ n \notin D /\ r.vesting[n] = x
      /\ \A id \in D : r.vesting[id] = s.vesting[id]
      BY <1>1
<1>3. DOMAIN f = D /\ DOMAIN e = D \cup {n} /\ e[n] = x.balance /\ \A id \in D : f[id] = e[id]
      BY <1>2 DEF VestingCoins
<1>4. IntFunction(e)  BY VestingSum
<1> HIDE DEF f, e, D, n
<1>5. DOMAIN f = DOMAIN e \ {n} /\ Agree(f, e, DOMAIN f) /\ n \in DOMAIN e
      BY <1>2, <1>3 DEF Agree
<1>6. SumFunction(e) = SumFunction(f) + e[n]  BY <1>4, <1>5, SumFunctionWithout
<1> QED BY <1>3, <1>6 DEF f, e

-----------------------------------------------------------------------------
(* The coin-days-destroyed balances. *)
CddIds(s) == {id \in DOMAIN s.vesting : s.vesting[id].policy = "cdd"}

(* The vesting balance where cashback, pay of witnesses or pay of a worker *)
(* is deposited is a coin-days-destroyed one.                              *)
Linked(s) ==
  /\ \A purpose \in Purposes, a \in Accounts : s.vb[purpose][a] \in {0} \cup CddIds(s)
  /\ \A w \in VestingWorkers : w.vb \in CddIds(s)

(* Every vesting balance is sound. *)
Ripe(s) == \A id \in DOMAIN s.vesting : s.vesting[id] \in Balances(s.time)

(* The founder bonus is within its limit. *)
Capped(s) == s.issued["founder"] <= BonusLimit["founder"]

(* What every step of the application of a block preserves. *)
Steady(s) == s \in Database /\ Ripe(s) /\ Linked(s) /\ Capped(s)

(* What neither an operation nor a payment changes. *)
Same(r, s) ==
  /\ r.time = s.time /\ r.number = s.number /\ r.parameters = s.parameters
  /\ r.last_budget_time = s.last_budget_time
  /\ r.next_maintenance_time = s.next_maintenance_time
  /\ r.witness_budget = s.witness_budget /\ r.budget = s.budget

(* A step from s to r that brings d coins from outside. *)
Moves(r, s, d) == Steady(r) /\ Surplus(r) = Surplus(s) + d /\ Same(r, s) /\ r.issued = s.issued

(* Fees that wait for maintenance are left alone. *)
Keeps(r, s) == r.pending_fees = s.pending_fees /\ r.pending_vested_fees = s.pending_vested_fees

(* Moves add up. *)
LEMMA MovesTwice ==
  ASSUME NEW s, Steady(s), NEW r, NEW d \in Int, Moves(r, s, d), NEW q, NEW e \in Int, Moves(q, r, e)
  PROVE  Moves(q, s, d + e)
<1>1. Surplus(s) \in Int  BY SurplusInt DEF Steady
<1>2. Surplus(q) = Surplus(s) + (d + e)  BY <1>1 DEF Moves
<1> QED BY <1>2 DEF Moves, Same

(* Nothing moves when nothing changes. *)
LEMMA MovesNothing ==
  ASSUME NEW s, Steady(s)
  PROVE  Moves(s, s, 0) /\ Keeps(s, s)
<1>1. Surplus(s) \in Int  BY SurplusInt DEF Steady
<1> QED BY <1>1 DEF Moves, Same, Keeps

(* A change that leaves time and vesting balances alone leaves them in     *)
(* order.                                                                  *)
LEMMA StaysSteady ==
  ASSUME NEW s, Steady(s), NEW r \in Database, r.time = s.time, r.vesting = s.vesting, r.vb = s.vb,
         Capped(r)
  PROVE  Steady(r)
BY DEF Steady, Ripe, Linked, CddIds

(* adjust_balance changes one balance. *)
LEMMA AdjustFields ==
  ASSUME NEW s \in Database, NEW a \in Accounts, NEW d \in Int
  PROVE  LET r == adjust_balance(s, a, d)
         IN  /\ r \in Database /\ Same(r, s) /\ r.balance = [s.balance EXCEPT ![a] = @ + d]
             /\ r.vesting = s.vesting /\ r.vb = s.vb /\ r.issued = s.issued
             /\ r.accumulated_fees = s.accumulated_fees /\ r.current_supply = s.current_supply
             /\ Keeps(r, s)
<1>1. s.balance \in BalanceMap  BY DEF Database
<1>2. [s.balance EXCEPT ![a] = @ + d] \in BalanceMap  BY <1>1 DEF BalanceMap
<1> QED BY <1>2 DEF adjust_balance, Require, Fail, Database, Same, Keeps

(* A step that leaves the vesting balances alone: x coins come to the      *)
(* accounts, y to the network, and z leave current_supply.                 *)
LEMMA FieldsMove ==
  ASSUME NEW s, Steady(s), NEW r \in Database, Same(r, s), r.vesting = s.vesting, r.vb = s.vb,
         r.issued = s.issued, NEW x \in Int, NEW y \in Int, NEW z \in Int,
         SumFunction(AccountCoins(r)) = SumFunction(AccountCoins(s)) + x,
         r.accumulated_fees = s.accumulated_fees + y, r.current_supply = s.current_supply - z
  PROVE  Moves(r, s, x + y + z)
<1>1. s \in Database  BY DEF Steady
<1>2. s.accumulated_fees \in Int /\ s.witness_budget \in Int /\ s.current_supply \in Int
      BY <1>1 DEF Database
<1>3. VestingCoins(r) = VestingCoins(s)  BY DEF VestingCoins
<1>4. SumFunction(AccountCoins(s)) \in Int /\ SumFunction(VestingCoins(s)) \in Int
      BY <1>1, AccountSum, VestingSum
<1>5. Surplus(r) = Surplus(s) + (x + y + z)  BY <1>2, <1>3, <1>4 DEF Surplus, Same
<1>6. Steady(r)
  <2>1. Capped(r)  BY DEF Steady, Capped
  <2> QED BY <2>1, StaysSteady DEF Same
<1> QED BY <1>5, <1>6 DEF Moves

(* adjust_balance adds d coins. *)
LEMMA AdjustMoves ==
  ASSUME NEW s, Steady(s), NEW a \in Accounts, NEW d \in Int
  PROVE  LET r == adjust_balance(s, a, d)
         IN  Moves(r, s, d) /\ Keeps(r, s)
<1> DEFINE r == adjust_balance(s, a, d)
<1>1. s \in Database  BY DEF Steady
<1>2. /\ r \in Database /\ Same(r, s) /\ r.balance = [s.balance EXCEPT ![a] = @ + d]
      /\ r.vesting = s.vesting /\ r.vb = s.vb /\ r.issued = s.issued
      /\ r.accumulated_fees = s.accumulated_fees /\ r.current_supply = s.current_supply
      /\ Keeps(r, s)
      BY <1>1, AdjustFields
<1> HIDE DEF r
<1>3. /\ s.balance \in BalanceMap /\ s.pending_fees \in FeeMap /\ s.pending_vested_fees \in FeeMap
      /\ s.accumulated_fees \in Int /\ s.current_supply \in Int
      BY <1>1 DEF Database
<1>4. /\ AccountCoins(r)[a] = AccountCoins(s)[a] + d
      /\ AgreeBut(AccountCoins(r), AccountCoins(s), Accounts, a)
      BY <1>2, <1>3 DEF AccountCoins, AgreeBut, Keeps, BalanceMap, FeeMap
<1>5. SumFunction(AccountCoins(r)) = SumFunction(AccountCoins(s)) + d
      BY <1>1, <1>2, <1>4, AccountsChange
<1>6. r.accumulated_fees = s.accumulated_fees + 0 /\ r.current_supply = s.current_supply - 0
      BY <1>2, <1>3
<1>7. Moves(r, s, d + 0 + 0)  BY <1>2, <1>5, <1>6, 0 \in Int, FieldsMove
<1>8. d + 0 + 0 = d  OBVIOUS
<1> QED BY <1>2, <1>7, <1>8 DEF r

(* A check moves nothing, whether it holds or not. *)
LEMMA RequireMoves ==
  ASSUME NEW s, Steady(s), NEW condition \in BOOLEAN
  PROVE  LET r == Require(s, condition)
         IN  Moves(r, s, 0) /\ Keeps(r, s)
<1> DEFINE r == Fail(s)
<1>1. s \in Database  BY DEF Steady
<1>2. /\ r \in Database /\ Same(r, s) /\ r.balance = s.balance
      /\ r.vesting = s.vesting /\ r.vb = s.vb /\ r.issued = s.issued
      /\ r.accumulated_fees = s.accumulated_fees /\ r.current_supply = s.current_supply
      /\ Keeps(r, s)
      BY <1>1 DEF Fail, Database, Same, Keeps
<1> HIDE DEF r
<1>3. AccountCoins(r) = AccountCoins(s) /\ VestingCoins(r) = VestingCoins(s)
      BY <1>2 DEF AccountCoins, VestingCoins, Keeps
<1>4. Surplus(r) = Surplus(s) /\ Surplus(s) \in Int  BY <1>1, <1>2, <1>3, SurplusInt DEF Surplus, Same
<1>5. Steady(r)
  <2>1. Capped(r)  BY <1>2 DEF Steady, Capped
  <2> QED BY <1>2, <2>1, StaysSteady DEF Same
<1>6. Moves(r, s, 0)  BY <1>2, <1>4, <1>5 DEF Moves
<1> QED BY <1>2, <1>6, MovesNothing DEF Require, r

(* Taking d off current_supply leaves d coins over. *)
LEMMA SupplyMoves ==
  ASSUME NEW s, Steady(s), NEW d \in Int
  PROVE  LET r == [s EXCEPT !.current_supply = @ - d]
         IN  Moves(r, s, d) /\ Keeps(r, s)
<1> DEFINE r == [s EXCEPT !.current_supply = @ - d]
<1>1. s \in Database  BY DEF Steady
<1>2. s.accumulated_fees \in Int /\ s.current_supply \in Int  BY <1>1 DEF Database
<1>3. /\ r \in Database /\ Same(r, s) /\ r.balance = s.balance
      /\ r.vesting = s.vesting /\ r.vb = s.vb /\ r.issued = s.issued
      /\ r.accumulated_fees = s.accumulated_fees /\ r.current_supply = s.current_supply - d
      /\ Keeps(r, s)
      BY <1>1, <1>2 DEF Database, Same, Keeps
<1> HIDE DEF r
<1>4. AccountCoins(r) = AccountCoins(s) /\ SumFunction(AccountCoins(s)) \in Int
      BY <1>1, <1>3, AccountSum DEF AccountCoins, Keeps
<1>5. /\ SumFunction(AccountCoins(r)) = SumFunction(AccountCoins(s)) + 0
      /\ r.accumulated_fees = s.accumulated_fees + 0
      BY <1>2, <1>3, <1>4
<1>6. Moves(r, s, 0 + 0 + d)  BY <1>3, <1>5, 0 \in Int, FieldsMove
<1>7. 0 + 0 + d = d  OBVIOUS
<1> QED BY <1>3, <1>6, <1>7 DEF r

(* So does adding d to accumulated_fees. *)
LEMMA NetworkMoves ==
  ASSUME NEW s, Steady(s), NEW d \in Nat
  PROVE  LET r == [s EXCEPT !.accumulated_fees = @ + d]
         IN  Moves(r, s, d) /\ Keeps(r, s)
<1> DEFINE r == [s EXCEPT !.accumulated_fees = @ + d]
<1>1. s \in Database  BY DEF Steady
<1>2. s.accumulated_fees \in Nat /\ s.current_supply \in Int  BY <1>1 DEF Database
<1>3. s.accumulated_fees + d \in Nat  BY <1>2
<1>4. /\ r \in Database /\ Same(r, s) /\ r.balance = s.balance
      /\ r.vesting = s.vesting /\ r.vb = s.vb /\ r.issued = s.issued
      /\ r.accumulated_fees = s.accumulated_fees + d /\ r.current_supply = s.current_supply
      /\ Keeps(r, s)
      BY <1>1, <1>3 DEF Database, Same, Keeps
<1> HIDE DEF r
<1>5. AccountCoins(r) = AccountCoins(s) /\ SumFunction(AccountCoins(s)) \in Int
      BY <1>1, <1>4, AccountSum DEF AccountCoins, Keeps
<1>6. /\ SumFunction(AccountCoins(r)) = SumFunction(AccountCoins(s)) + 0
      /\ r.current_supply = s.current_supply - 0
      BY <1>2, <1>4, <1>5
<1>7. Moves(r, s, 0 + d + 0)  BY <1>4, <1>6, 0 \in Int, FieldsMove
<1>8. 0 + d + 0 = d  OBVIOUS
<1> QED BY <1>4, <1>7, <1>8 DEF r

(* pay_fee records a fee before it is taken from the payer. *)
LEMMA PayFeeMoves ==
  ASSUME NEW s, Steady(s), NEW a \in Accounts, NEW fee \in Nat
  PROVE  Moves(pay_fee(s, a, fee), s, fee)
<1> DEFINE r == pay_fee(s, a, fee)
<1>1. s \in Database  BY DEF Steady
<1>2. /\ s.balance \in BalanceMap /\ s.pending_fees \in FeeMap /\ s.pending_vested_fees \in FeeMap
      /\ s.accumulated_fees \in Int /\ s.current_supply \in Int
      BY <1>1 DEF Database
<1>3. /\ [s.pending_fees EXCEPT ![a] = @ + fee] \in FeeMap
      /\ [s.pending_vested_fees EXCEPT ![a] = @ + fee] \in FeeMap
      BY <1>2 DEF FeeMap
<1>4. /\ r \in Database /\ Same(r, s) /\ r.balance = s.balance
      /\ r.vesting = s.vesting /\ r.vb = s.vb /\ r.issued = s.issued
      /\ r.accumulated_fees = s.accumulated_fees /\ r.current_supply = s.current_supply
      /\ \/ /\ r.pending_fees = [s.pending_fees EXCEPT ![a] = @ + fee]
            /\ r.pending_vested_fees = s.pending_vested_fees
         \/ /\ r.pending_fees = s.pending_fees
            /\ r.pending_vested_fees = [s.pending_vested_fees EXCEPT ![a] = @ + fee]
      BY <1>1, <1>3 DEF pay_fee, Database, Same
<1> HIDE DEF r
<1>5. /\ AccountCoins(r)[a] = AccountCoins(s)[a] + fee
      /\ AgreeBut(AccountCoins(r), AccountCoins(s), Accounts, a)
      BY <1>2, <1>4 DEF AccountCoins, AgreeBut, BalanceMap, FeeMap
<1>6. SumFunction(AccountCoins(r)) = SumFunction(AccountCoins(s)) + fee
      BY <1>1, <1>4, <1>5, AccountsChange
<1>7. r.accumulated_fees = s.accumulated_fees + 0 /\ r.current_supply = s.current_supply - 0
      BY <1>2, <1>4
<1>8. Moves(r, s, fee + 0 + 0)  BY <1>4, <1>6, <1>7, 0 \in Int, fee \in Int, FieldsMove
<1>9. fee + 0 + 0 = fee  OBVIOUS
<1> QED BY <1>8, <1>9 DEF r

(* Replacing a vesting balance by another of the same policy. *)
LEMMA PutVesting ==
  ASSUME NEW s, Steady(s), NEW id \in DOMAIN s.vesting, NEW x \in Balances(s.time),
         x.policy = s.vesting[id].policy
  PROVE  LET r == [s EXCEPT !.vesting[id] = x]
         IN  Moves(r, s, x.balance - s.vesting[id].balance) /\ Keeps(r, s)
<1> DEFINE r == [s EXCEPT !.vesting[id] = x]
<1>1. s \in Database  BY DEF Steady
<1>2. /\ s.vesting \in Seq(Cdd \cup Linear) /\ DOMAIN s.vesting = 1..Len(s.vesting)
      /\ Len(s.vesting) \in Nat /\ s.vesting[id].balance \in Nat
      BY <1>1, VestingType DEF VestingList
<1>3. x \in Cdd \cup Linear  BY DEF Balances
<1>4. [s.vesting EXCEPT ![id] = x] \in VestingList  BY <1>2, <1>3 DEF VestingList
<1>5. /\ r \in Database /\ Same(r, s) /\ r.balance = s.balance
      /\ r.vesting = [s.vesting EXCEPT ![id] = x] /\ r.vb = s.vb /\ r.issued = s.issued
      /\ r.accumulated_fees = s.accumulated_fees /\ r.current_supply = s.current_supply
      /\ Keeps(r, s)
      BY <1>1, <1>4 DEF Database, Same, Keeps
<1> HIDE DEF r
<1>6. AccountCoins(r) = AccountCoins(s)  BY <1>5 DEF AccountCoins, Keeps
<1>7. SumFunction(VestingCoins(r)) = SumFunction(VestingCoins(s)) - s.vesting[id].balance + x.balance
      BY <1>1, <1>3, <1>5, VestingChange
<1>8. /\ s.accumulated_fees \in Int /\ s.witness_budget \in Int /\ s.current_supply \in Int
      /\ x.balance \in Int
      BY <1>1, <1>3 DEF Database, Cdd, Linear
<1>9. SumFunction(AccountCoins(s)) \in Int /\ SumFunction(VestingCoins(s)) \in Int
      BY <1>1, AccountSum, VestingSum
<1>10. Surplus(r) = Surplus(s) + (x.balance - s.vesting[id].balance)
  <2> DEFINE old == s.vesting[id].balance
             new == x.balance
  <2>1. old \in Int /\ new \in Int  BY <1>2, <1>8
  <2>2. SumFunction(VestingCoins(r)) = SumFunction(VestingCoins(s)) - old + new  BY <1>7
  <2> HIDE DEF old, new
  <2>3. Surplus(r) = Surplus(s) + (new - old)
        BY <1>5, <1>6, <1>8, <1>9, <2>1, <2>2 DEF Surplus, Same
  <2> QED BY <2>3 DEF old, new
<1>11. /\ DOMAIN r.vesting = DOMAIN s.vesting
       /\ \A i \in DOMAIN s.vesting : r.vesting[i] = IF i = id THEN x ELSE s.vesting[i]
       BY <1>5
<1>12. Ripe(r)  BY <1>5, <1>11 DEF Steady, Ripe, Same
<1>13. CddIds(r) = CddIds(s)  BY <1>11 DEF CddIds
<1>14. Linked(r)  BY <1>5, <1>13 DEF Steady, Linked
<1>15. Capped(r)  BY <1>5 DEF Steady, Capped
<1> QED BY <1>5, <1>10, <1>12, <1>14, <1>15 DEF Moves, Steady, r

(* A vesting balance is created, and perhaps linked to. *)
LEMMA AddVesting ==
  ASSUME NEW s, Steady(s), NEW x \in Balances(s.time), NEW vb \in LinkMap, NEW r,
         r = [s EXCEPT !.vesting = Append(s.vesting, x), !.vb = vb],
         \A purpose \in Purposes, a \in Accounts :
           \/ vb[purpose][a] = s.vb[purpose][a]
           \/ vb[purpose][a] = Len(s.vesting) + 1 /\ x.policy = "cdd"
  PROVE  Moves(r, s, x.balance) /\ Keeps(r, s)
<1>1. s \in Database  BY DEF Steady
<1>2. /\ s.vesting \in Seq(Cdd \cup Linear) /\ DOMAIN s.vesting = 1..Len(s.vesting)
      /\ Len(s.vesting) \in Nat
      BY <1>1, VestingType DEF VestingList
<1>3. x \in Cdd \cup Linear  BY DEF Balances
<1>4. Append(s.vesting, x) \in VestingList  BY <1>2, <1>3 DEF VestingList
<1>5. /\ r \in Database /\ Same(r, s) /\ r.balance = s.balance
      /\ r.vesting = Append(s.vesting, x) /\ r.vb = vb /\ r.issued = s.issued
      /\ r.accumulated_fees = s.accumulated_fees /\ r.current_supply = s.current_supply
      /\ Keeps(r, s)
      BY <1>1, <1>4 DEF Database, Same, Keeps
<1>6. AccountCoins(r) = AccountCoins(s)  BY <1>5 DEF AccountCoins, Keeps
<1>7. SumFunction(VestingCoins(r)) = SumFunction(VestingCoins(s)) + x.balance
      BY <1>1, <1>3, <1>5, VestingAppend
<1>8. /\ s.accumulated_fees \in Int /\ s.witness_budget \in Int /\ s.current_supply \in Int
      /\ x.balance \in Int
      BY <1>1, <1>3 DEF Database, Cdd, Linear
<1>9. SumFunction(AccountCoins(s)) \in Int /\ SumFunction(VestingCoins(s)) \in Int
      BY <1>1, AccountSum, VestingSum
<1>10. Surplus(r) = Surplus(s) + x.balance
  <2>1. /\ r.accumulated_fees = s.accumulated_fees /\ r.witness_budget = s.witness_budget
        /\ r.current_supply = s.current_supply
        BY <1>5 DEF Same
  <2> QED BY <1>6, <1>7, <1>8, <1>9, <2>1 DEF Surplus
<1> DEFINE n == Len(s.vesting) + 1
<1>11. /\ DOMAIN r.vesting = DOMAIN s.vesting \cup {n} /\ r.vesting[n] = x
       /\ \A i \in DOMAIN s.vesting : r.vesting[i] = s.vesting[i]
       BY <1>2, <1>5
<1> HIDE DEF n
<1>12. Ripe(r)  BY <1>5, <1>11 DEF Steady, Ripe, Same
<1>13. CddIds(s) \subseteq CddIds(r) /\ (x.policy = "cdd" => n \in CddIds(r))  BY <1>11 DEF CddIds
<1>14. Linked(r)
  <2>1. ASSUME NEW purpose \in Purposes, NEW a \in Accounts PROVE r.vb[purpose][a] \in {0} \cup CddIds(r)
        BY <1>5, <1>13 DEF Steady, Linked, n
  <2>2. \A w \in VestingWorkers : w.vb \in CddIds(r)  BY <1>13 DEF Steady, Linked
  <2> QED BY <2>1, <2>2 DEF Linked
<1>15. Capped(r)  BY <1>5 DEF Steady, Capped
<1> QED BY <1>5, <1>10, <1>12, <1>14, <1>15 DEF Moves, Steady

(* deposit_lazy_vesting adds the amount, to an old balance or to a new     *)
(* one.                                                                    *)
LEMMA LazyMoves ==
  ASSUME NEW s, Steady(s), NEW purpose \in Purposes, NEW account \in Accounts, NEW amount \in Nat,
         NEW seconds \in Nat, NEW require_vesting \in BOOLEAN
  PROVE  LET r == deposit_lazy_vesting(s, purpose, account, amount, seconds, require_vesting)
         IN  Moves(r, s, amount) /\ Keeps(r, s)
<1> DEFINE r == deposit_lazy_vesting(s, purpose, account, amount, seconds, require_vesting)
           id == s.vb[purpose][account]
           v == s.vesting[id]
<1>1. s \in Database  BY DEF Steady
<1>2. s.time \in Nat /\ s.vb \in LinkMap  BY <1>1 DEF Database
<1>3. CASE amount = 0
  <2>1. r = s  BY <1>3 DEF deposit_lazy_vesting
  <2> QED BY <1>3, <2>1, MovesNothing
<1>4. CASE amount # 0 /\ Reusable(s, purpose, account, seconds)
  <2> DEFINE x == IF require_vesting THEN Deposit(v, s.time, amount)
                                     ELSE deposit_vested(v, s.time, amount)
  <2>1. id \in CddIds(s)  BY <1>4 DEF Reusable, Steady, Linked
  <2>2. id \in DOMAIN s.vesting /\ v.policy = "cdd"  BY <2>1 DEF CddIds
  <2>3. v \in Balances(s.time)  BY <2>2 DEF Steady, Ripe
  <2> HIDE DEF v
  <2>4. v \in Cdd /\ FairCdd(v, s.time)  BY <2>2, <2>3, BalanceCases
  <2>5. x \in Cdd /\ FairCdd(x, s.time) /\ SameTerms(x, v) /\ x.balance = v.balance + amount
        BY <1>2, <2>4, Deposited, DepositedVested
  <2>6. r = [s EXCEPT !.vesting[id] = x]  BY <1>4 DEF deposit_lazy_vesting, v
  <2> HIDE DEF x, r
  <2>7. x \in Balances(s.time)  BY <2>5 DEF Balances
  <2>8. x.policy = s.vesting[id].policy  BY <2>5 DEF SameTerms, v
  <2> HIDE DEF id
  <2>9. Moves(r, s, x.balance - s.vesting[id].balance) /\ Keeps(r, s)
        BY <2>2, <2>6, <2>7, <2>8, PutVesting
  <2>10. x.balance - s.vesting[id].balance = amount
    <3>1. v.balance \in Nat  BY <2>4 DEF Cdd
    <3>2. s.vesting[id] = v  BY DEF v
    <3> QED BY <2>5, <3>1, <3>2
  <2> QED BY <2>9, <2>10 DEF r
<1>5. CASE amount # 0 /\ ~Reusable(s, purpose, account, seconds)
  <2> DEFINE free == IF require_vesting THEN 0 ELSE amount
             earned == IF require_vesting THEN 0 ELSE amount * seconds
             x == CddBalance(account, amount, seconds, 0, earned, s.time, free)
             vb == [s.vb EXCEPT ![purpose][account] = Len(s.vesting) + 1]
  <2>1. free \in {0, amount} /\ 0 \in Nat  OBVIOUS
  <2>2. earned = free * seconds  OBVIOUS
  <2>3. r = [s EXCEPT !.vesting = Append(s.vesting, x), !.vb = vb]
        BY <1>5 DEF deposit_lazy_vesting
  <2> HIDE DEF free, earned, r
  <2>4. x \in Cdd /\ FairCdd(x, s.time) /\ x.policy = "cdd" /\ x.balance = amount
    <3>1. free \in Nat /\ earned \in Nat  BY <2>1, <2>2, ProductNat
    <3>2. /\ x \in Cdd /\ x.policy = "cdd" /\ x.balance = amount /\ x.seconds = seconds
          /\ x.updated = s.time /\ x.held = 0 /\ x.withdrawn = 0 /\ x.vested = free /\ x.earned = earned
          BY <1>2, <3>1 DEF CddBalance, Cdd
    <3> HIDE DEF x
    <3> QED BY <1>2, <2>1, <2>2, <3>2, NewCdd
  <2> HIDE DEF x
  <2>5. x \in Balances(s.time)  BY <2>4 DEF Balances
  <2>6. Len(s.vesting) + 1 \in Nat  BY <1>1, VestingType
  <2>7. vb \in LinkMap  BY <1>2, <2>6 DEF LinkMap, FeeMap
  <2>8. \A p \in Purposes, a \in Accounts :
           \/ vb[p][a] = s.vb[p][a]
           \/ vb[p][a] = Len(s.vesting) + 1 /\ x.policy = "cdd"
        BY <1>2, <2>4 DEF LinkMap, FeeMap
  <2> HIDE DEF vb
  <2>9. Moves(r, s, x.balance) /\ Keeps(r, s)  BY <2>3, <2>5, <2>7, <2>8, AddVesting
  <2> QED BY <2>4, <2>9 DEF r
<1> QED BY <1>3, <1>4, <1>5

(* deposit_cashback adds the amount, wherever it sends it. *)
LEMMA CashbackMoves ==
  ASSUME NEW s, Steady(s), NEW account \in Accounts, NEW amount \in Nat, NEW require_vesting \in BOOLEAN
  PROVE  LET r == deposit_cashback(s, account, amount, require_vesting)
         IN  Moves(r, s, amount) /\ Keeps(r, s)
<1>1. s.parameters \in Parameters  BY DEF Steady, Database
<1>2. s.parameters.cashback_vesting \in Nat  BY <1>1 DEF Parameters
<1>3. "cashback" \in Purposes  BY DEF Purposes
<1>4. CASE account \in ChainAccounts  BY <1>4, SupplyMoves DEF deposit_cashback
<1>5. CASE account \notin ChainAccounts  BY <1>2, <1>3, <1>5, LazyMoves DEF deposit_cashback
<1> QED BY <1>4, <1>5

(* vesting_balance_withdraw moves coins from the vesting balance to its    *)
(* owner.                                                                  *)
LEMMA WithdrawMoves ==
  ASSUME NEW s, Steady(s), NEW owner \in Accounts, NEW id, NEW amount \in Nat
  PROVE  LET r == vesting_balance_withdraw(s, owner, id, amount)
         IN  Moves(r, s, 0) /\ Keeps(r, s)
<1> DEFINE r == vesting_balance_withdraw(s, owner, id, amount)
           v == s.vesting[id]
           x == withdraw(v, s.time, amount)
           q == [s EXCEPT !.vesting[id] = x]
<1>1. CASE \/ id \notin DOMAIN s.vesting
           \/ owner # s.vesting[id].owner
           \/ amount > get_allowed_withdraw(s.vesting[id], s.time)
  <2>1. r = Fail(s)  BY <1>1 DEF vesting_balance_withdraw
  <2>2. Fail(s) = Require(s, FALSE)  BY DEF Require
  <2> QED BY <2>1, <2>2, RequireMoves
<1>2. CASE ~(\/ id \notin DOMAIN s.vesting
             \/ owner # s.vesting[id].owner
             \/ amount > get_allowed_withdraw(s.vesting[id], s.time))
  <2>1. id \in DOMAIN s.vesting /\ v \in Balances(s.time)  BY <1>2 DEF Steady, Ripe
  <2>2. s.time \in Nat  BY DEF Steady, Database
  <2>3. r = adjust_balance(q, owner, amount)  BY <1>2 DEF vesting_balance_withdraw
  <2>4. v.balance \in Nat  BY <2>1, VestingType DEF Steady
  <2>5. amount <= get_allowed_withdraw(v, s.time)
    <3>1. get_allowed_withdraw(v, s.time) \in 0..v.balance  BY <2>1, <2>2, Allowance
    <3> QED BY <1>2, <2>4, <3>1
  <2> HIDE DEF v, r
  <2>6. x \in Balances(s.time) /\ SameTerms(x, v) /\ x.balance = v.balance - amount
        BY <2>1, <2>2, <2>5, Withdrawn
  <2>7. x.policy = s.vesting[id].policy  BY <2>6 DEF SameTerms, v
  <2> HIDE DEF x
  <2>8. Moves(q, s, x.balance - s.vesting[id].balance) /\ Keeps(q, s)
        BY <2>1, <2>6, <2>7, PutVesting
  <2> HIDE DEF q
  <2>9. x.balance - s.vesting[id].balance = -amount  BY <2>4, <2>6 DEF v
  <2>10. Moves(q, s, -amount) /\ Steady(q)  BY <2>8, <2>9 DEF Moves
  <2>11. Moves(r, q, amount) /\ Keeps(r, q)  BY <2>3, <2>10, AdjustMoves
  <2>12. -amount \in Int /\ -amount + amount = 0  OBVIOUS
  <2>13. Moves(r, s, -amount + amount)  BY <2>10, <2>11, <2>12, MovesTwice
  <2>14. Keeps(r, s)  BY <2>8, <2>11 DEF Keeps
  <2> QED BY <2>12, <2>13, <2>14 DEF r
<1> QED BY <1>1, <1>2

-----------------------------------------------------------------------------
(* r differs from s in records of what was done at most. *)
Noted(r, s) ==
  /\ r \in Database /\ Same(r, s) /\ Keeps(r, s) /\ r.balance = s.balance
  /\ r.vesting = s.vesting /\ r.vb = s.vb /\ r.issued = s.issued
  /\ r.accumulated_fees = s.accumulated_fees /\ r.current_supply = s.current_supply

(* Records of what was done hold no coins. *)
LEMMA NoteMoves ==
  ASSUME NEW s, Steady(s), NEW r, Noted(r, s)
  PROVE  Moves(r, s, 0)
<1>1. s \in Database  BY DEF Steady
<1>2. s.accumulated_fees \in Int /\ s.current_supply \in Int  BY <1>1 DEF Database
<1>3. AccountCoins(r) = AccountCoins(s) /\ SumFunction(AccountCoins(s)) \in Int
      BY <1>1, AccountSum DEF AccountCoins, Keeps, Noted
<1>4. /\ SumFunction(AccountCoins(r)) = SumFunction(AccountCoins(s)) + 0
      /\ r.accumulated_fees = s.accumulated_fees + 0 /\ r.current_supply = s.current_supply - 0
      BY <1>2, <1>3 DEF Noted
<1>5. Moves(r, s, 0 + 0 + 0)  BY <1>4, 0 \in Int, FieldsMove DEF Noted
<1> QED BY <1>5

(* What an operation does: it keeps every coin, and may issue one portion. *)
Evaluated(r, s, type) ==
  /\ Steady(r) /\ Surplus(r) = Surplus(s) /\ Same(r, s)
  /\ \/ r.issued["founder"] = s.issued["founder"]
     \/ type = "founder_bonus" /\ r.issued["founder"] = s.issued["founder"] + FounderSum(s)
  /\ \/ r.issued["witness"] = s.issued["witness"]
     \/ type = "witness_bonus" /\ r.issued["witness"] = s.issued["witness"] + WitnessSum(s)

(* New coins of a bonus. *)
Granted(r, s, bonus, sum) ==
  /\ Steady(r) /\ Surplus(r) = Surplus(s) /\ Same(r, s)
  /\ r.issued = [s.issued EXCEPT ![bonus] = @ + sum]

(* An operation that moves no coins in or out of the books is evaluated    *)
(* well.                                                                   *)
LEMMA MovesEvaluated ==
  ASSUME NEW s, Steady(s), NEW r, Moves(r, s, 0), NEW type
  PROVE  Evaluated(r, s, type)
<1>1. Surplus(s) \in Int  BY SurplusInt DEF Steady
<1> QED BY <1>1 DEF Moves, Evaluated

(* Issue grants a bonus: balance and supply grow by the same sum. *)
LEMMA IssueGrants ==
  ASSUME NEW s, Steady(s), NEW bonus \in Bonuses, NEW account \in Accounts, NEW sum \in Int,
         bonus = "founder" => s.issued[bonus] + sum <= BonusLimit[bonus]
  PROVE  Granted(Issue(s, bonus, account, sum), s, bonus, sum)
<1> DEFINE q == adjust_balance(s, account, sum)
           r == Issue(s, bonus, account, sum)
<1>1. r = [q EXCEPT !.current_supply = @ + sum, !.issued[bonus] = @ + sum]  BY DEF Issue
<1>2. Moves(q, s, sum) /\ Keeps(q, s)  BY AdjustMoves
<1> HIDE DEF q, r
<1>3. q \in Database /\ s \in Database  BY <1>2 DEF Moves, Steady
<1>4. /\ q.issued \in BonusSums /\ q.accumulated_fees \in Int /\ q.current_supply \in Int
      /\ q.witness_budget \in Int
      BY <1>3 DEF Database
<1>5. [q.issued EXCEPT ![bonus] = @ + sum] \in BonusSums /\ q.current_supply + sum \in Int
      BY <1>4 DEF BonusSums
<1>6. /\ r \in Database /\ Same(r, q) /\ Keeps(r, q) /\ r.balance = q.balance
      /\ r.vesting = q.vesting /\ r.vb = q.vb /\ r.issued = [q.issued EXCEPT ![bonus] = @ + sum]
      /\ r.accumulated_fees = q.accumulated_fees /\ r.current_supply = q.current_supply + sum
      BY <1>1, <1>3, <1>5 DEF Database, Same, Keeps
<1>7. AccountCoins(r) = AccountCoins(q) /\ VestingCoins(r) = VestingCoins(q)
      BY <1>6 DEF AccountCoins, VestingCoins, Keeps
<1>8. /\ SumFunction(AccountCoins(q)) \in Int /\ SumFunction(VestingCoins(q)) \in Int
      /\ Surplus(s) \in Int
      BY <1>3, AccountSum, VestingSum, SurplusInt
<1>9. Surplus(r) = Surplus(q) - sum  BY <1>4, <1>6, <1>7, <1>8 DEF Surplus, Same
<1>10. Surplus(r) = Surplus(s)  BY <1>2, <1>8, <1>9 DEF Moves
<1>11. q.issued = s.issued /\ r.issued = [s.issued EXCEPT ![bonus] = @ + sum]
       BY <1>2, <1>6 DEF Moves
<1>12. Capped(r)
  <2>1. CASE bonus = "founder"  BY <1>4, <1>11, <2>1 DEF Capped, BonusSums
  <2>2. CASE bonus # "founder"  BY <1>4, <1>11, <2>2 DEF Capped, BonusSums, Steady
  <2> QED BY <2>1, <2>2
<1>13. Steady(r)  BY <1>2, <1>6, <1>12, StaysSteady DEF Moves, Same
<1>14. Same(r, s)  BY <1>2, <1>6 DEF Moves, Same
<1> QED BY <1>10, <1>11, <1>13, <1>14 DEF Granted, r

(* The record after a bonus. *)
LEMMA IssueInDatabase ==
  ASSUME NEW s, Steady(s), NEW condition \in BOOLEAN, NEW bonus \in Bonuses, NEW account \in Accounts,
         NEW sum \in Int, bonus = "founder" => s.issued[bonus] + sum <= BonusLimit[bonus]
  PROVE  Issue(Require(s, condition), bonus, account, sum) \in Database
<1> DEFINE p == Require(s, condition)
<1>1. Moves(p, s, 0)  BY RequireMoves
<1> HIDE DEF p
<1>2. Steady(p) /\ p.issued = s.issued  BY <1>1 DEF Moves
<1>3. Granted(Issue(p, bonus, account, sum), p, bonus, sum)  BY <1>2, IssueGrants
<1> QED BY <1>3 DEF Granted, Steady, p

(* A bonus after its checks, with a record that it was given. *)
LEMMA BonusEvaluated ==
  ASSUME NEW s, Steady(s), NEW condition \in BOOLEAN, NEW bonus \in Bonuses, NEW account \in Accounts,
         NEW sum \in Int, NEW r, NEW type,
         bonus = "founder" => type = "founder_bonus" /\ sum = FounderSum(s),
         bonus = "witness" => type = "witness_bonus" /\ sum = WitnessSum(s),
         bonus = "founder" => s.issued[bonus] + sum <= BonusLimit[bonus],
         Noted(r, Issue(Require(s, condition), bonus, account, sum))
  PROVE  Evaluated(r, s, type)
<1> DEFINE p == Require(s, condition)
           q == Issue(p, bonus, account, sum)
<1>1. Moves(p, s, 0)  BY RequireMoves
<1> HIDE DEF p
<1>2. Steady(p) /\ p.issued = s.issued  BY <1>1 DEF Moves
<1>3. Granted(q, p, bonus, sum)  BY <1>2, IssueGrants
<1>4. Noted(r, q)  BY DEF p
<1> HIDE DEF q
<1>5. Moves(r, q, 0)  BY <1>3, <1>4, NoteMoves DEF Granted
<1>6. Surplus(s) \in Int /\ s.issued \in BonusSums  BY SurplusInt DEF Steady, Database
<1>7. Surplus(r) = Surplus(s)  BY <1>1, <1>3, <1>5, <1>6 DEF Moves, Granted
<1>8. Same(r, s)  BY <1>1, <1>3, <1>5 DEF Moves, Granted, Same
<1>9. r.issued = [s.issued EXCEPT ![bonus] = @ + sum]  BY <1>2, <1>3, <1>5 DEF Moves, Granted
<1>10. /\ r.issued["founder"] = IF bonus = "founder" THEN s.issued["founder"] + sum ELSE s.issued["founder"]
       /\ r.issued["witness"] = IF bonus = "witness" THEN s.issued["witness"] + sum ELSE s.issued["witness"]
       BY <1>6, <1>9 DEF BonusSums, Bonuses
<1> QED BY <1>5, <1>7, <1>8, <1>10 DEF Moves, Evaluated

(* The brackets of bonuses hold naturals. *)
LEMMA BonusSum ==
  ASSUME NEW s, NEW bonus \in {"welcome", "referral", "sale"}
  PROVE  get_bonus_sum(s, bonus) \in Nat
<1> DEFINE table == Brackets[bonus]
           S == {j \in DOMAIN table : Cardinality(s.accounts) <= table[j].accounts \/ j = Len(table)}
           R == [accounts : Nat, sum : Nat]
<1>1. table # <<>> /\ table \in Seq(R)  BY ConstantsAssumption
<1> HIDE DEF table, R
<1>2. DOMAIN table = 1..Len(table) /\ Len(table) \in DOMAIN table  BY <1>1
<1>3. S \in SUBSET Nat /\ S # {}  BY <1>2
<1>4. Min(S) \in S  BY <1>3, MinIn
<1>5. table[Min(S)].sum \in Nat
  <2>1. Min(S) \in DOMAIN table  BY <1>4
  <2> HIDE DEF S
  <2>2. table[Min(S)] \in R  BY <1>1, <1>2, <2>1
  <2> QED BY <2>2 DEF R
<1> QED BY <1>5 DEF get_bonus_sum, table

(* welcome_bonus_evaluator. *)
LEMMA WelcomeEvaluated ==
  ASSUME NEW s, Steady(s), NEW receiver \in Accounts
  PROVE  Evaluated(welcome_bonus(s, receiver), s, "welcome_bonus")
<1> DEFINE condition == Available(s, "welcome") /\ receiver \notin s.received_welcome_bonus
           sum == get_bonus_sum(s, "welcome")
           q == Issue(Require(s, condition), "welcome", receiver, sum)
           r == welcome_bonus(s, receiver)
<1>1. r = [q EXCEPT !.received_welcome_bonus = @ \cup {receiver}]  BY DEF welcome_bonus
<1>2. condition \in BOOLEAN /\ sum \in Int /\ "welcome" \in Bonuses  BY BonusSum DEF Bonuses
<1> HIDE DEF condition, sum, r
<1>3. q \in Database  BY <1>2, IssueInDatabase
<1> HIDE DEF q
<1>4. Noted(r, q)
  <2>1. q.received_welcome_bonus \in AccountSets  BY <1>3 DEF Database
  <2>2. q.received_welcome_bonus \cup {receiver} \in AccountSets  BY <2>1 DEF AccountSets
  <2> QED BY <1>1, <1>3, <2>2 DEF Database, Same, Keeps, Noted
<1>5. Evaluated(r, s, "welcome_bonus")  BY <1>2, <1>4, BonusEvaluated DEF q
<1> QED BY <1>5 DEF r

(* referral_bonus_evaluator. *)
LEMMA ReferralEvaluated ==
  ASSUME NEW s, Steady(s), NEW referred \in Accounts, NEW referrer \in Accounts
  PROVE  Evaluated(referral_bonus(s, referred, referrer), s, "referral_bonus")
<1> DEFINE condition == /\ Available(s, "referral") /\ referred \notin s.sent_referral_bonus
                        /\ referrer = Referrer[referred] /\ referred \in s.received_welcome_bonus
           sum == get_bonus_sum(s, "referral")
           q == Issue(Require(s, condition), "referral", referrer, sum)
           r == referral_bonus(s, referred, referrer)
<1>1. r = [q EXCEPT !.sent_referral_bonus = @ \cup {referred}]  BY DEF referral_bonus
<1>2. condition \in BOOLEAN /\ sum \in Int /\ "referral" \in Bonuses  BY BonusSum DEF Bonuses
<1> HIDE DEF condition, sum, r
<1>3. q \in Database  BY <1>2, IssueInDatabase
<1> HIDE DEF q
<1>4. Noted(r, q)
  <2>1. q.sent_referral_bonus \in AccountSets  BY <1>3 DEF Database
  <2>2. q.sent_referral_bonus \cup {referred} \in AccountSets  BY <2>1 DEF AccountSets
  <2> QED BY <1>1, <1>3, <2>2 DEF Database, Same, Keeps, Noted
<1>5. Evaluated(r, s, "referral_bonus")  BY <1>2, <1>4, BonusEvaluated DEF q
<1> QED BY <1>5 DEF r

(* sale_bonus_evaluator. *)
LEMMA SaleEvaluated ==
  ASSUME NEW s, Steady(s), NEW seller \in Accounts, NEW buyer \in Accounts
  PROVE  Evaluated(sale_bonus(s, seller, buyer), s, "sale_bonus")
<1> DEFINE condition == Available(s, "sale") /\ <<seller, buyer>> \notin s.buyers
           sum == get_bonus_sum(s, "sale")
           q == Issue(Require(s, condition), "sale", seller, sum)
           r == sale_bonus(s, seller, buyer)
<1>1. r = [q EXCEPT !.buyers = @ \cup {<<seller, buyer>>}]  BY DEF sale_bonus
<1>2. condition \in BOOLEAN /\ sum \in Int /\ "sale" \in Bonuses  BY BonusSum DEF Bonuses
<1> HIDE DEF condition, sum, r
<1>3. q \in Database  BY <1>2, IssueInDatabase
<1> HIDE DEF q
<1>4. Noted(r, q)
  <2>1. q.buyers \in SalePairs  BY <1>3 DEF Database
  <2>2. q.buyers \cup {<<seller, buyer>>} \in SalePairs  BY <2>1 DEF SalePairs
  <2> QED BY <1>1, <1>3, <2>2 DEF Database, Same, Keeps, Noted
<1>5. Evaluated(r, s, "sale_bonus")  BY <1>2, <1>4, BonusEvaluated DEF q
<1> QED BY <1>5 DEF r

(* founder_bonus_evaluator, and what its portion is at most. *)
LEMMA FounderEvaluated ==
  ASSUME NEW s, Steady(s)
  PROVE  /\ Evaluated(founder_bonus(s), s, "founder_bonus")
         /\ FounderSum(s) \in Nat /\ FounderSum(s) <= FounderRate * BlockInterval
<1> DEFINE condition == Available(s, "founder")
           sum == FounderSum(s)
           q == Issue(Require(s, condition), "founder", Founder, sum)
           portion == FounderRate * BlockInterval
           left == BonusLimit["founder"] - s.issued["founder"]
<1>1. /\ FounderRate \in Nat /\ BlockInterval \in Nat /\ BonusLimit \in [Bonuses -> Nat]
      /\ Founder \in Accounts
      BY ConstantsAssumption
<1>2. s.issued \in BonusSums  BY DEF Steady, Database
<1>3. /\ s.issued["founder"] \in Int /\ BonusLimit["founder"] \in Nat /\ "founder" \in Bonuses
      /\ s.issued["founder"] <= BonusLimit["founder"]
      BY <1>1, <1>2 DEF BonusSums, Bonuses, Steady, Capped
<1>4. portion \in Nat /\ left \in Nat  BY <1>1, <1>3, ProductNat
<1>5. sum = Min({portion, left})  BY DEF FounderSum
<1> HIDE DEF portion, sum
<1>6. sum \in Nat /\ sum <= portion /\ sum <= left  BY <1>4, <1>5, MinTwo
<1>7. s.issued["founder"] + sum <= BonusLimit["founder"]  BY <1>3, <1>6
<1>8. condition \in BOOLEAN  BY DEF Available
<1>9. founder_bonus(s) = q  BY DEF founder_bonus, sum
<1> HIDE DEF condition
<1>10. q \in Database  BY <1>1, <1>3, <1>6, <1>7, <1>8, IssueInDatabase
<1>11. Noted(q, q)  BY <1>10 DEF Noted, Same, Keeps
<1>12. Evaluated(q, s, "founder_bonus")
  <2>1. sum \in Int /\ Founder \in Accounts /\ "founder" \in Bonuses  BY <1>1, <1>3, <1>6
  <2>2. sum = FounderSum(s)  BY DEF sum
  <2> HIDE DEF left
  <2> QED BY <2>1, <2>2, <1>7, <1>8, <1>11, BonusEvaluated
<1> QED BY <1>6, <1>9, <1>12 DEF sum, portion

(* The portion of the witness bonus is not negative while there is one. *)
LEMMA WitnessPortion ==
  ASSUME NEW s, Steady(s)
  PROVE  /\ WitnessSum(s) \in Int /\ s.issued["witness"] \in Int /\ BonusLimit["witness"] \in Nat
         /\ WitnessSum(s) >= 0 \/ s.issued["witness"] >= BonusLimit["witness"]
<1> DEFINE left == BonusLimit["witness"] - s.issued["witness"]
           third == WitnessRates[3] * BlockInterval
<1>1. /\ WitnessRates[1] \in Nat /\ WitnessRates[2] \in Nat /\ WitnessRates[3] \in Nat
      /\ BlockInterval \in Nat /\ BonusLimit \in [Bonuses -> Nat]
      BY ConstantsAssumption
<1>2. s.issued \in BonusSums  BY DEF Steady, Database
<1>3. s.issued["witness"] \in Int /\ BonusLimit["witness"] \in Nat
      BY <1>1, <1>2 DEF BonusSums, Bonuses
<1>4. /\ WitnessRates[1] * BlockInterval \in Nat /\ WitnessRates[2] * BlockInterval \in Nat
      /\ third \in Nat /\ left \in Int
      BY <1>1, <1>3, ProductNat
<1>5. Min({third, left}) = IF third <= left THEN third ELSE left
  <2> HIDE DEF third, left
  <2> QED BY <1>4, MinTwo
<1>6. \/ WitnessSum(s) \in Nat
      \/ WitnessSum(s) = Min({third, left})
      BY <1>4 DEF WitnessSum
<1>7. CASE WitnessSum(s) \in Nat  BY <1>3, <1>7
<1>8. CASE WitnessSum(s) = Min({third, left})
  <2> HIDE DEF third
  <2> QED BY <1>3, <1>4, <1>5, <1>8
<1> QED BY <1>6, <1>7, <1>8

(* witness_bonus_evaluator. *)
LEMMA WitnessEvaluated ==
  ASSUME NEW s, Steady(s), NEW receiver \in Accounts
  PROVE  Evaluated(witness_bonus(s, receiver), s, "witness_bonus")
<1> DEFINE condition == Available(s, "witness") /\ receiver \in Witnesses
           sum == WitnessSum(s)
           q == Issue(Require(s, condition), "witness", receiver, sum)
<1>1. condition \in BOOLEAN /\ sum \in Int /\ "witness" \in Bonuses  BY WitnessPortion DEF Bonuses
<1>2. witness_bonus(s, receiver) = q  BY DEF witness_bonus
<1> HIDE DEF condition, sum
<1>3. q \in Database  BY <1>1, IssueInDatabase
<1>4. Noted(q, q)  BY <1>3 DEF Noted, Same, Keeps
<1>5. Evaluated(q, s, "witness_bonus")  BY <1>1, <1>4, BonusEvaluated DEF sum
<1> QED BY <1>2, <1>5

-----------------------------------------------------------------------------
(* transfer_evaluator. *)
LEMMA TransferEvaluated ==
  ASSUME NEW s, Steady(s), NEW from \in Accounts, NEW to \in Accounts, NEW amount \in Nat, NEW type
  PROVE  Evaluated(transfer(s, from, to, amount), s, type)
<1> DEFINE q == adjust_balance(s, from, -amount)
           r == adjust_balance(q, to, amount)
<1>1. -amount \in Int /\ amount \in Int /\ -amount + amount = 0  OBVIOUS
<1>2. Moves(q, s, -amount)  BY <1>1, AdjustMoves
<1> HIDE DEF q
<1>3. Moves(r, q, amount)  BY <1>1, <1>2, AdjustMoves DEF Moves
<1> HIDE DEF r
<1>4. Moves(r, s, 0)  BY <1>1, <1>2, <1>3, MovesTwice
<1> QED BY <1>4, MovesEvaluated DEF transfer, q, r

(* asset_reserve_evaluator. *)
LEMMA ReserveEvaluated ==
  ASSUME NEW s, Steady(s), NEW payer \in Accounts, NEW amount \in Nat, NEW type
  PROVE  Evaluated(asset_reserve(s, payer, amount), s, type)
<1> DEFINE enough == s.current_supply >= amount
           p == Require(s, enough)
           q == adjust_balance(p, payer, -amount)
           r == [q EXCEPT !.current_supply = @ - amount]
<1>1. -amount \in Int /\ amount \in Int /\ -amount + amount = 0 /\ 0 + (-amount) = -amount  OBVIOUS
<1>2. enough \in BOOLEAN  OBVIOUS
<1> HIDE DEF enough
<1>3. Moves(p, s, 0)  BY <1>2, RequireMoves
<1> HIDE DEF p
<1>4. Moves(q, p, -amount)  BY <1>1, <1>3, AdjustMoves DEF Moves
<1> HIDE DEF q
<1>5. Moves(r, q, amount)  BY <1>1, <1>4, SupplyMoves DEF Moves
<1> HIDE DEF r
<1>6. Moves(q, s, -amount)  BY <1>1, <1>3, <1>4, 0 \in Int, MovesTwice
<1>7. Moves(r, s, 0)  BY <1>1, <1>5, <1>6, MovesTwice
<1> QED BY <1>7, MovesEvaluated DEF asset_reserve, enough, p, q, r

(* account_create_evaluator. *)
LEMMA CreateEvaluated ==
  ASSUME NEW s, Steady(s), NEW name \in Accounts, NEW type
  PROVE  Evaluated(account_create(s, name), s, type)
<1> DEFINE new == name \notin s.accounts
           q == Require(s, new)
           r == [q EXCEPT !.accounts = @ \cup {name}]
<1>1. new \in BOOLEAN  OBVIOUS
<1>2. account_create(s, name) = r  BY DEF account_create
<1> HIDE DEF new
<1>3. Moves(q, s, 0)  BY <1>1, RequireMoves
<1> HIDE DEF q
<1>4. q \in Database /\ Steady(q)  BY <1>3 DEF Moves, Steady
<1>5. q.accounts \cup {name} \in AccountSets
  <2>1. q.accounts \in AccountSets  BY <1>4 DEF Database
  <2> QED BY <2>1 DEF AccountSets
<1>6. Noted(r, q)  BY <1>4, <1>5 DEF Database, Same, Keeps, Noted
<1> HIDE DEF r
<1>7. Moves(r, q, 0)  BY <1>4, <1>6, NoteMoves
<1>8. Moves(r, s, 0 + 0)  BY <1>3, <1>7, 0 \in Int, MovesTwice
<1>9. Moves(r, s, 0)  BY <1>8
<1> QED BY <1>2, <1>9, MovesEvaluated

(* committee_member_update_global_parameters_evaluator. *)
LEMMA ParametersEvaluated ==
  ASSUME NEW s, Steady(s), NEW parameters \in Parameters, NEW type
  PROVE  Evaluated(update_global_parameters(s, parameters), s, type)
<1> DEFINE r == update_global_parameters(s, parameters)
<1>1. s \in Database /\ parameters \in PendingParameters  BY DEF Steady, PendingParameters
<1>2. Noted(r, s)  BY <1>1 DEF update_global_parameters, Database, Same, Keeps, Noted
<1> HIDE DEF r
<1>3. Moves(r, s, 0)  BY <1>2, NoteMoves
<1> QED BY <1>3, MovesEvaluated DEF r

(* vesting_balance_create_evaluator. *)
LEMMA VestingCreateEvaluated ==
  ASSUME NEW s, Steady(s), NEW creator \in Accounts, NEW amount \in Nat, NEW policy \in Policies, NEW type
  PROVE  Evaluated(vesting_balance_create(s, creator, amount, policy), s, type)
<1> DEFINE q == adjust_balance(s, creator, -amount)
           x == IF policy.type = "linear"
                THEN LinearBalance(creator, amount, policy.seconds, policy.begin, policy.cliff)
                ELSE CddBalance(creator, amount, policy.seconds, policy.start_claim, 0, s.time, 0)
           r == [q EXCEPT !.vesting = Append(q.vesting, x), !.vb = q.vb]
<1>1. -amount \in Int /\ amount \in Int /\ -amount + amount = 0  OBVIOUS
<1>2. Moves(q, s, -amount)  BY <1>1, AdjustMoves
<1>3. vesting_balance_create(s, creator, amount, policy) = [q EXCEPT !.vesting = Append(@, x)]
      BY DEF vesting_balance_create
<1> HIDE DEF q
<1>4. s.time \in Nat /\ q.time = s.time /\ q \in Database /\ Steady(q)
      BY <1>2 DEF Moves, Same, Steady, Database
<1>5. vesting_balance_create(s, creator, amount, policy) = r
      BY <1>3, <1>4 DEF Database
<1>6. x \in Balances(s.time) /\ x.balance = amount
  <2>1. CASE policy.type = "linear"
    <3>1. policy.seconds \in Nat /\ policy.begin \in Nat /\ policy.cliff \in Nat
          BY <2>1 DEF Policies
    <3>2. x \in Linear /\ x.balance = amount /\ x.begin_balance = amount
          BY <2>1, <3>1 DEF LinearBalance, Linear
    <3> HIDE DEF x
    <3>3. FairLinear(x, s.time)  BY <1>4, <3>2, NewLinear
    <3> QED BY <3>2, <3>3 DEF Balances
  <2>2. CASE policy.type # "linear"
    <3>1. policy.seconds \in Nat /\ policy.start_claim \in Nat  BY <2>2 DEF Policies
    <3>2. /\ x \in Cdd /\ x.balance = amount /\ x.updated = s.time /\ x.held = 0 /\ x.withdrawn = 0
          /\ x.vested = 0 /\ x.earned = 0 /\ x.seconds = policy.seconds
          BY <1>4, <2>2, <3>1 DEF CddBalance, Cdd
    <3> HIDE DEF x
    <3>3. x.earned = x.vested * x.seconds  BY <3>1, <3>2
    <3>4. FairCdd(x, s.time)  BY <1>4, <3>2, <3>3, NewCdd
    <3> QED BY <3>2, <3>4 DEF Balances
  <2> QED BY <2>1, <2>2
<1> HIDE DEF x
<1>7. q.vb \in LinkMap  BY <1>4 DEF Database
<1>8. r = [q EXCEPT !.vesting = Append(q.vesting, x), !.vb = q.vb]  OBVIOUS
<1> HIDE DEF r
<1>9. Moves(r, q, amount)  BY <1>4, <1>6, <1>7, <1>8, AddVesting
<1>10. Moves(r, s, 0)  BY <1>1, <1>2, <1>9, MovesTwice
<1> QED BY <1>5, <1>10, MovesEvaluated

(* Every kind of operation. *)
LEMMA EvaluateEvaluated ==
  ASSUME NEW s, Steady(s), NEW op \in Operations
  PROVE  op.payer \in Accounts /\ op.fee \in Nat /\ Evaluated(Evaluate(s, op), s, op.type)
<1>1. CASE op \in [type : {"transfer"}, payer : Accounts, fee : Nat, to : Accounts, amount : Nat]
  <2>1. Evaluate(s, op) = transfer(s, op.payer, op.to, op.amount)  BY <1>1 DEF Evaluate
  <2> QED BY <1>1, <2>1, TransferEvaluated
<1>2. CASE op \in [type : {"asset_reserve"}, payer : Accounts, fee : Nat, amount : Nat]
  <2>1. Evaluate(s, op) = asset_reserve(s, op.payer, op.amount)  BY <1>2 DEF Evaluate
  <2> QED BY <1>2, <2>1, ReserveEvaluated
<1>3. CASE op \in [type : {"account_create"}, payer : Accounts, fee : Nat, name : Accounts,
                   referrer : Accounts]
  <2>1. Evaluate(s, op) = account_create(s, op.name)  BY <1>3 DEF Evaluate
  <2> QED BY <1>3, <2>1, CreateEvaluated
<1>4. CASE op \in [type : {"vesting_create"}, payer : Accounts, fee : Nat, amount : Nat,
                   policy : Policies]
  <2>1. Evaluate(s, op) = vesting_balance_create(s, op.payer, op.amount, op.policy)
        BY <1>4 DEF Evaluate
  <2> QED BY <1>4, <2>1, VestingCreateEvaluated
<1>5. CASE op \in [type : {"vesting_withdraw"}, payer : Accounts, fee : Nat, id : Nat, amount : Nat]
  <2>1. Evaluate(s, op) = vesting_balance_withdraw(s, op.payer, op.id, op.amount)
        BY <1>5 DEF Evaluate
  <2>2. op.payer \in Accounts /\ op.fee \in Nat /\ op.amount \in Nat  BY <1>5
  <2>3. Moves(vesting_balance_withdraw(s, op.payer, op.id, op.amount), s, 0)
        BY <2>2, WithdrawMoves
  <2> QED BY <2>1, <2>2, <2>3, MovesEvaluated
<1>6. CASE op \in [type : {"welcome_bonus", "witness_bonus"}, payer : Accounts, fee : Nat,
                   receiver : Accounts]
  <2>1. op.payer \in Accounts /\ op.fee \in Nat /\ op.receiver \in Accounts  BY <1>6
  <2>2. CASE op.type = "welcome_bonus"
    <3>1. Evaluate(s, op) = welcome_bonus(s, op.receiver)  BY <2>2 DEF Evaluate
    <3> QED BY <2>1, <2>2, <3>1, WelcomeEvaluated
  <2>3. CASE op.type = "witness_bonus"
    <3>1. Evaluate(s, op) = witness_bonus(s, op.receiver)  BY <2>3 DEF Evaluate
    <3> QED BY <2>1, <2>3, <3>1, WitnessEvaluated
  <2> QED BY <1>6, <2>2, <2>3
<1>7. CASE op \in [type : {"referral_bonus"}, payer : Accounts, fee : Nat, referred : Accounts,
                   referrer : Accounts]
  <2>1. Evaluate(s, op) = referral_bonus(s, op.referred, op.referrer)  BY <1>7 DEF Evaluate
  <2> QED BY <1>7, <2>1, ReferralEvaluated
<1>8. CASE op \in [type : {"sale_bonus"}, payer : Accounts, fee : Nat, seller : Accounts,
                   buyer : Accounts]
  <2>1. Evaluate(s, op) = sale_bonus(s, op.seller, op.buyer)  BY <1>8 DEF Evaluate
  <2> QED BY <1>8, <2>1, SaleEvaluated
<1>9. CASE op \in [type : {"founder_bonus"}, payer : Accounts, fee : Nat]
  <2>1. Evaluate(s, op) = founder_bonus(s)  BY <1>9 DEF Evaluate
  <2> QED BY <1>9, <2>1, FounderEvaluated
<1>10. CASE op \in [type : {"parameters"}, payer : Accounts, fee : Nat, parameters : Parameters]
  <2>1. Evaluate(s, op) = update_global_parameters(s, op.parameters)  BY <1>10 DEF Evaluate
  <2> QED BY <1>10, <2>1, ParametersEvaluated
<1> QED BY <1>1, <1>2, <1>3, <1>4, <1>5, <1>6, <1>7, <1>8, <1>9, <1>10 DEF Operations

(* An operation with its fee (evaluator::apply). *)
LEMMA ApplyEvaluated ==
  ASSUME NEW s, Steady(s), NEW op \in Operations
  PROVE  Evaluated(apply_operation(s, op), s, op.type)
<1>1. CASE ~s.ok \/ ~(Named(op) \subseteq s.accounts)
  <2>1. apply_operation(s, op) = Require(s, FALSE)  BY <1>1 DEF apply_operation, Require
  <2>2. Moves(Require(s, FALSE), s, 0)  BY FALSE \in BOOLEAN, RequireMoves
  <2> QED BY <2>1, <2>2, MovesEvaluated
<1>2. CASE ~(~s.ok \/ ~(Named(op) \subseteq s.accounts))
  <2> DEFINE fee == op.fee
             p == pay_fee(s, op.payer, fee)
             q == Evaluate(p, op)
             r == adjust_balance(q, op.payer, -fee)
  <2>1. apply_operation(s, op) = r  BY <1>2 DEF apply_operation
  <2>2. op.payer \in Accounts /\ fee \in Nat  BY EvaluateEvaluated
  <2> HIDE DEF fee
  <2>3. -fee \in Int /\ fee \in Int  BY <2>2
  <2>4. Moves(p, s, fee)  BY <2>2, PayFeeMoves
  <2> HIDE DEF p
  <2>5. Evaluated(q, p, op.type)  BY <2>4, EvaluateEvaluated DEF Moves
  <2> HIDE DEF q
  <2>6. Moves(r, q, -fee)  BY <2>2, <2>3, <2>5, AdjustMoves DEF Evaluated
  <2> HIDE DEF r
  <2>7. Surplus(s) \in Int  BY SurplusInt DEF Steady
  <2>8. Surplus(r) = Surplus(s)  BY <2>3, <2>4, <2>5, <2>6, <2>7 DEF Moves, Evaluated
  <2>9. Same(r, s)  BY <2>4, <2>5, <2>6 DEF Moves, Evaluated, Same
  <2>10. p.issued = s.issued /\ p.time = s.time /\ r.issued = q.issued
         BY <2>4, <2>6 DEF Moves, Same
  <2>11. FounderSum(p) = FounderSum(s) /\ WitnessSum(p) = WitnessSum(s)
         BY <2>10 DEF FounderSum, WitnessSum
  <2>12. Evaluated(r, s, op.type)
         BY <2>5, <2>6, <2>8, <2>9, <2>10, <2>11 DEF Moves, Evaluated
  <2> QED BY <2>1, <2>12
<1> QED BY <1>1, <1>2

(* How far the operations up to i have gone. *)
Underway(r, s) == Steady(r) /\ Surplus(r) = Surplus(s) /\ Same(r, s)

(* The states that the operations of a block go through. *)
LEMMA TransactionsRun ==
  ASSUME NEW s, Steady(s), NEW ops \in Seq(Operations)
  PROVE  \E run \in [0..Len(ops) -> {q \in Database : Underway(q, s)}] :
           /\ run[0] = s /\ apply_transactions(s, ops) = run[Len(ops)]
           /\ \A i \in 1..Len(ops) : Evaluated(run[i], run[i - 1], ops[i].type)
<1> DEFINE n == Len(ops)
           M == {q \in Database : Underway(q, s)}
           Step(q, i) == apply_operation(q, ops[i])
           step == [p \in (1..n) \X M |-> Step(p[2], p[1])]
           E(g) == g = [i \in 0..n |-> IF i = 0 THEN s ELSE Step(g[i - 1], i)]
           run == CHOOSE g : E(g)
<1>1. n \in Nat /\ \A i \in 1..n : ops[i] \in Operations  OBVIOUS
<1>2. apply_transactions(s, ops) = run[n]  BY DEF apply_transactions
<1>3. s \in M  BY DEF Steady, Underway, Same
<1>4. ASSUME NEW i \in 1..n, NEW q \in M
      PROVE  Step(q, i) \in M /\ Evaluated(Step(q, i), q, ops[i].type)
  <2>1. Steady(q) /\ Surplus(q) = Surplus(s) /\ Same(q, s)  BY DEF Underway
  <2>2. Evaluated(Step(q, i), q, ops[i].type)  BY <1>1, <2>1, ApplyEvaluated
  <2>3. Underway(Step(q, i), s) /\ Step(q, i) \in Database
        BY <2>1, <2>2 DEF Evaluated, Underway, Same, Steady
  <2> QED BY <2>2, <2>3
<1> HIDE DEF n, M, Step
<1>5. ASSUME NEW i \in 1..n, NEW q \in M PROVE step[<<i, q>>] = Step(q, i)  OBVIOUS
<1> HIDE DEF step
<1>6. StaysIn(step, 1..n, M)  BY <1>4, <1>5 DEF StaysIn
<1>7. PICK g \in [0..n -> M] : RunsBy(g, n, s, step)  BY <1>1, <1>3, <1>6, RunExists
<1>8. E(g)
  <2>1. ASSUME NEW i \in 0..n PROVE g[i] = IF i = 0 THEN s ELSE Step(g[i - 1], i)
    <3>1. CASE i = 0  BY <1>7, <3>1 DEF RunsBy
    <3>2. CASE i # 0
      <4>1. i \in 1..n /\ i - 1 \in 0..n  BY <1>1, <3>2
      <4>2. step[<<i, g[i - 1]>>] = Step(g[i - 1], i)  BY <1>5, <1>7, <4>1
      <4> QED BY <1>7, <3>2, <4>2 DEF RunsBy
    <3> QED BY <3>1, <3>2
  <2> QED BY <1>7, <2>1
<1>9. E(run)  BY <1>8
<1> HIDE DEF run
<1>10. RunsTo(run, n) /\ run[0] = s /\ \A i \in 1..n : run[i] = Step(run[i - 1], i)
  <2>1. 0 \in 0..n /\ \A i \in 1..n : i \in 0..n /\ i # 0  BY <1>1
  <2>2. \A i \in 0..n : run[i] = IF i = 0 THEN s ELSE Step(run[i - 1], i)  BY <1>9
  <2>3. RunsTo(run, n)  BY <1>9 DEF RunsTo
  <2> QED BY <2>1, <2>2, <2>3
<1>11. \A i \in 1..n : run[i - 1] \in M => run[i] \in M  BY <1>4, <1>10
<1>12. run \in [0..n -> M]  BY <1>1, <1>3, <1>10, <1>11, RunStays
<1>13. ASSUME NEW i \in 1..n PROVE Evaluated(run[i], run[i - 1], ops[i].type)
  <2>1. i - 1 \in 0..n  BY <1>1
  <2>2. run[i - 1] \in M  BY <1>12, <2>1
  <2> QED BY <1>4, <1>10, <2>2
<1> QED BY <1>2, <1>10, <1>12, <1>13 DEF n, M

(* The two bonuses that a block may issue one portion of. *)
Portion(s, bonus) == IF bonus = "founder" THEN FounderSum(s) ELSE WitnessSum(s)
(* The operation that issues a bonus. *)
OperationOf(bonus) == IF bonus = "founder" THEN "founder_bonus" ELSE "witness_bonus"

(* The portion depends on the time and on what was issued of the bonus. *)
LEMMA PortionSame ==
  ASSUME NEW r, NEW s, NEW bonus \in {"founder", "witness"}, r.time = s.time,
         r.issued[bonus] = s.issued[bonus]
  PROVE  Portion(r, bonus) = Portion(s, bonus)
<1>1. CASE bonus = "founder"  BY <1>1 DEF Portion, FounderSum
<1>2. CASE bonus = "witness"  BY <1>2 DEF Portion, WitnessSum
<1> QED BY <1>1, <1>2

(* One operation of a kind in a block issues one portion of its bonus or   *)
(* none.                                                                   *)
LEMMA OnePortion ==
  ASSUME NEW s, Steady(s), NEW ops \in Seq(Operations), NEW bonus \in {"founder", "witness"},
         CountOf(ops, OperationOf(bonus)) <= 1
  PROVE  apply_transactions(s, ops).issued[bonus]
           \in {s.issued[bonus], s.issued[bonus] + Portion(s, bonus)}
<1> DEFINE n == Len(ops)
           T == OperationOf(bonus)
           At(i) == {j \in 1..i : ops[j].type = T}
           both == {s.issued[bonus], s.issued[bonus] + Portion(s, bonus)}
<1>1. PICK run \in [0..Len(ops) -> {q \in Database : Underway(q, s)}] :
        /\ run[0] = s /\ apply_transactions(s, ops) = run[Len(ops)]
        /\ \A i \in 1..Len(ops) : Evaluated(run[i], run[i - 1], ops[i].type)
      BY TransactionsRun
<1>2. n \in Nat /\ DOMAIN ops = 1..n  OBVIOUS
<1> DEFINE G == {i \in 0..n : /\ At(i) = {} => run[i].issued[bonus] = s.issued[bonus]
                              /\ \A k : At(i) = {k} => run[i].issued[bonus] \in both}
<1>3. 0 \in G
  <2>1. 1..0 = {} /\ 0 \in 0..n  BY <1>2
  <2> HIDE DEF n, T
  <2> QED BY <1>1, <2>1
<1>4. ASSUME NEW i \in 1..n, i - 1 \in G PROVE i \in G
  <2>1. i - 1 \in 0..n /\ i \in 0..n /\ 1..i = 1..(i - 1) \cup {i} /\ i \notin 1..(i - 1)  BY <1>2
  <2>2. Same(run[i - 1], s)  BY <1>1, <2>1 DEF Underway
  <2>3. \/ run[i].issued[bonus] = run[i - 1].issued[bonus]
        \/ /\ ops[i].type = T
           /\ run[i].issued[bonus] = run[i - 1].issued[bonus] + Portion(run[i - 1], bonus)
    <3>1. Evaluated(run[i], run[i - 1], ops[i].type)  BY <1>1
    <3>2. CASE bonus = "founder"  BY <3>1, <3>2 DEF Evaluated, Portion, OperationOf
    <3>3. CASE bonus = "witness"  BY <3>1, <3>3 DEF Evaluated, Portion, OperationOf
    <3> QED BY <3>2, <3>3
  <2>4. CASE ops[i].type # T
    <3>1. At(i) = At(i - 1)  BY <2>1, <2>4
    <3>2. run[i].issued[bonus] = run[i - 1].issued[bonus]  BY <2>3, <2>4
    <3> HIDE DEF At, both
    <3> QED BY <1>4, <2>1, <3>1, <3>2
  <2>5. CASE ops[i].type = T
    <3>1. i \in At(i) /\ (\A k : At(i) = {k} => At(i - 1) = {})  BY <2>1, <2>5
    <3>2. ASSUME NEW k, At(i) = {k} PROVE run[i].issued[bonus] \in both
      <4>1. run[i - 1].issued[bonus] = s.issued[bonus]  BY <1>4, <3>1, <3>2
      <4>2. Portion(run[i - 1], bonus) = Portion(s, bonus)  BY <2>2, <4>1, PortionSame DEF Same
      <4> QED BY <2>3, <4>1, <4>2
    <3> HIDE DEF At, both
    <3> QED BY <2>1, <3>1, <3>2
  <2> QED BY <2>4, <2>5
<1>5. \A i \in 1..n : i - 1 \in G => i \in G  BY <1>4
<1> HIDE DEF G
<1>6. \A i \in 0..n : i \in G  BY <1>2, <1>3, <1>5, UpToInduction
<1>7. n \in G  BY <1>2, <1>6
<1>8. At(n) = {} \/ \E k : At(n) = {k}
  <2>1. CountOf(ops, T) = Cardinality(At(n))  BY <1>2 DEF CountOf
  <2>2. IsFiniteSet(At(n))
    <3>1. IsFiniteSet(1..n)  BY <1>2, FS_Interval
    <3>2. At(n) \subseteq 1..n  OBVIOUS
    <3> QED BY <3>1, <3>2, FS_Subset
  <2> HIDE DEF At
  <2>3. Cardinality(At(n)) \in Nat  BY <2>2, FS_CardinalityType
  <2>4. Cardinality(At(n)) = 0 \/ Cardinality(At(n)) = 1  BY <2>1, <2>3
  <2> QED BY <2>2, <2>4, FS_EmptySet, FS_Singleton
<1>9. run[n].issued[bonus] \in both  BY <1>7, <1>8 DEF G
<1> QED BY <1>1, <1>9

(* The operations of a block keep the books. *)
LEMMA TransactionsUnderway ==
  ASSUME NEW s, Steady(s), NEW ops \in Seq(Operations)
  PROVE  Underway(apply_transactions(s, ops), s)
<1>1. PICK run \in [0..Len(ops) -> {q \in Database : Underway(q, s)}] :
        /\ run[0] = s /\ apply_transactions(s, ops) = run[Len(ops)]
        /\ \A i \in 1..Len(ops) : Evaluated(run[i], run[i - 1], ops[i].type)
      BY TransactionsRun
<1>2. Len(ops) \in 0..Len(ops)  OBVIOUS
<1> QED BY <1>1, <1>2
===============================================================================
