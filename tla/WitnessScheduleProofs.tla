------------------------ MODULE WitnessScheduleProofs ------------------------
(***************************************************************************)
(* Proofs about the slots of WitnessSchedule, for every genesis time,      *)
(* every sequence of block intervals that divide the maintenance interval, *)
(* every number of skip slots and every outage.                            *)
(***************************************************************************)
EXTENDS WitnessSchedule, FoldTheorems

(***************************************************************************)
(* Arithmetic                                                              *)
(***************************************************************************)

\* A multiple of i leaves no rest, and its quotient is its factor.
LEMMA MultipleDivides ==
  ASSUME NEW i \in Nat, i > 0, NEW k \in Int
  PROVE  (k * i) % i = 0 /\ (k * i) \div i = k
  OBVIOUS

\* Quotient and rest.
LEMMA Division ==
  ASSUME NEW i \in Nat, i > 0, NEW a \in Int
  PROVE  /\ a \div i \in Int /\ a % i \in Int
         /\ a = ((a \div i) * i) + (a % i)
         /\ 0 <= a % i /\ a % i < i
  OBVIOUS

\* Distributivity, for factors of any size.
LEMMA Distributes ==
  ASSUME NEW a \in Int, NEW b \in Int, NEW i \in Int
  PROVE  (a + b) * i = a * i + b * i /\ (a - b) * i = a * i - b * i
  OBVIOUS

\* A larger factor gives a larger multiple.
LEMMA Monotone ==
  ASSUME NEW a \in Int, NEW b \in Int, NEW i \in Nat, a <= b
  PROVE  a * i <= b * i
  OBVIOUS

(***************************************************************************)
(* The inductive invariant                                                 *)
(***************************************************************************)

\* What the slots depend on.  Before block 1 maintenance is overdue, so that
\* block 1 performs it; this makes MaintenanceAligned hold from block 1 on.
SlotInv ==
  /\ number \in Nat /\ time \in Nat /\ age \in Int /\ next \in Int
  /\ interval \in Intervals /\ flag \in BOOLEAN
  /\ number = 0 => next = 0
  /\ MaintenanceAligned

\* What the proofs use of the constants.
LEMMA ConstantTypes ==
  /\ MaintenanceInterval \in Nat /\ Round \in Nat \ {0} /\ SkipSlots \in Nat
  /\ Fold \in Nat /\ MaxAge \in Nat
  /\ \A i \in Intervals : i \in Nat /\ i > 0 /\ MaintenanceInterval > i
  BY ScheduleAssumption DEF ScheduleAssumption

\* get_slot_time: the first slot is after the head block, the others follow at
\* block_interval.
LEMMA SlotTimes ==
  ASSUME SlotInv
  PROVE  /\ get_slot_time(1) \in Int /\ get_slot_time(1) > 0
         /\ \A s \in Int : get_slot_time(s) = get_slot_time(1) + ((s - 1) * interval)
<1> DEFINE skip == IF flag THEN SkipSlots ELSE 0
           rest == time % interval
<1>1. interval \in Nat /\ interval > 0 /\ skip \in Nat /\ time \in Int
  BY ConstantTypes DEF SlotInv
<1>2. rest \in Int /\ 0 <= rest /\ rest < interval
  BY <1>1, Division
<1> HIDE DEF skip, rest
<1>3. \A s \in Int : (s + skip) * interval = ((1 + skip) * interval) + ((s - 1) * interval)
  <2> TAKE s \in Int
  <2>1. (1 + skip) \in Int /\ (s - 1) \in Int /\ (1 + skip) + (s - 1) = s + skip
    BY <1>1
  <2> QED BY <2>1, <1>1, Distributes
<1>4. \A s \in Int : s * interval = (1 * interval) + ((s - 1) * interval)
  <2> TAKE s \in Int
  <2>1. (s - 1) \in Int /\ 1 + (s - 1) = s
    OBVIOUS
  <2> QED BY <2>1, <1>1, Distributes
<1>5. 1 * interval <= (1 + skip) * interval /\ (1 + skip) * interval \in Int /\ 1 * interval = interval
  BY <1>1, Monotone
<1>6. \A s \in Int : get_slot_time(s) = IF number = 0 THEN s * interval
                                        ELSE ((s + skip) * interval) - rest
  BY DEF get_slot_time, skip, rest
<1>7. \A s \in Int : (s - 1) * interval \in Int
  BY <1>1
<1> QED BY <1>1, <1>2, <1>3, <1>4, <1>5, <1>6, <1>7

\* get_slot_at_time: a second from the first slot on is in the slot found for it
\* and not yet in the next.
LEMMA SlotOfTime ==
  ASSUME SlotInv, NEW t \in Int
  PROVE  /\ get_slot_at_time(t) \in Nat
         /\ get_slot_at_time(t) > 0 =>
              /\ t >= get_slot_time(1)
              /\ get_slot_time(get_slot_at_time(t)) <= t
              /\ t < get_slot_time(get_slot_at_time(t) + 1)
<1> DEFINE first == get_slot_time(1)
           q == (t - first) \div interval
<1>1. interval \in Nat /\ interval > 0
  BY ConstantTypes DEF SlotInv
<1>2. first \in Int /\ first > 0
  BY SlotTimes
<1>3. CASE t < first
  BY <1>3 DEF get_slot_at_time
<1>4. CASE ~(t < first)
  <2>1. get_slot_at_time(t) = q + 1
    BY <1>4 DEF get_slot_at_time
  <2>2. /\ q \in Int /\ (t - first) % interval \in Int
        /\ t - first = (q * interval) + ((t - first) % interval)
        /\ 0 <= (t - first) % interval /\ (t - first) % interval < interval
    BY <1>1, <1>2, Division
  <2>3. /\ get_slot_time(q + 1) = first + (((q + 1) - 1) * interval)
        /\ get_slot_time((q + 1) + 1) = first + ((((q + 1) + 1) - 1) * interval)
    BY <2>2, SlotTimes
  <2> HIDE DEF first, q
  <2>4. (q + 1) - 1 = q /\ ((q + 1) + 1) - 1 = q + 1
    BY <2>2
  <2>5. q >= 0
    <3> SUFFICES ASSUME q <= -1 PROVE FALSE
      BY <2>2
    <3>1. q * interval <= (-1) * interval
      BY <2>2, <1>1, Monotone
    <3>2. (-1) * interval = -interval /\ q * interval \in Int
      BY <1>1, <2>2
    <3> QED BY <3>1, <3>2, <2>2, <1>1, <1>2, <1>4
  <2>6. (q + 1) * interval = (q * interval) + interval /\ q * interval \in Int
    BY <1>1, <2>2, Distributes
  <2> QED BY <1>1, <1>2, <1>4, <2>1, <2>2, <2>3, <2>4, <2>5, <2>6 DEF first
<1> QED BY <1>3, <1>4

\* get_slot_at_time inverts get_slot_time: a slot's own time is in that slot.
LEMMA SlotOfSlotTime ==
  ASSUME SlotInv, NEW s \in Int, s >= 1
  PROVE  get_slot_at_time(get_slot_time(s)) = s
<1> DEFINE first == get_slot_time(1)
<1>1. interval \in Nat /\ interval > 0
  BY ConstantTypes DEF SlotInv
<1>2. first \in Int /\ get_slot_time(s) = first + ((s - 1) * interval)
  BY SlotTimes
<1>3. 0 * interval <= (s - 1) * interval /\ (s - 1) * interval \in Int /\ 0 * interval = 0
  BY <1>1, Monotone
<1>4. ((s - 1) * interval) \div interval = s - 1
  BY <1>1, MultipleDivides
<1>5. get_slot_at_time(get_slot_time(s)) =
        IF get_slot_time(s) < first THEN 0
        ELSE ((get_slot_time(s) - first) \div interval) + 1
  BY DEF get_slot_at_time
<1> HIDE DEF first
<1>6. get_slot_time(s) - first = (s - 1) * interval /\ ~(get_slot_time(s) < first)
  BY <1>2, <1>3
<1> QED BY <1>4, <1>5, <1>6

\* The invariant gives the property: besides the two lemmas, slots lie on
\* multiples of block_interval once there is a head block.
LEMMA SlotInvAgrees == SlotInv => SlotsAgree
<1> SUFFICES ASSUME SlotInv PROVE SlotsAgree
  OBVIOUS
<1>1. get_slot_time(1) > 0
  BY SlotTimes
<1>2. number > 0 => (time + get_slot_time(1)) % interval = 0
  <2> SUFFICES ASSUME number > 0 PROVE (time + get_slot_time(1)) % interval = 0
    OBVIOUS
  <2> DEFINE skip == IF flag THEN SkipSlots ELSE 0
             q == time \div interval
             rest == time % interval
  <2>1. interval \in Nat /\ interval > 0 /\ skip \in Nat /\ time \in Int
    BY ConstantTypes DEF SlotInv
  <2>2. q \in Int /\ rest \in Int /\ time = (q * interval) + rest
    BY <2>1, Division
  <2>3. get_slot_time(1) = ((1 + skip) * interval) - rest
    BY DEF get_slot_time, SlotInv
  <2> HIDE DEF skip, q, rest
  <2>4. (q + (1 + skip)) * interval = (q * interval) + ((1 + skip) * interval)
    BY <2>1, <2>2, Distributes
  <2>5. q * interval \in Int /\ (1 + skip) * interval \in Int /\ q + (1 + skip) \in Int
    BY <2>1, <2>2
  <2>6. time + get_slot_time(1) = (q + (1 + skip)) * interval
    BY <2>2, <2>3, <2>4, <2>5
  <2> QED BY <2>1, <2>5, <2>6, MultipleDivides
<1>3. \A s \in 1..(2 * Round) : get_slot_at_time(get_slot_time(s)) = s
  BY ConstantTypes, SlotOfSlotTime
<1>4. \A t \in 0..MaxAge :
        LET s == get_slot_at_time(t)
        IN s > 0 => get_slot_time(s) <= t /\ t < get_slot_time(s + 1)
  BY ConstantTypes, SlotOfTime
<1> QED BY <1>1, <1>2, <1>3, <1>4 DEF SlotsAgree

\* A node that may produce makes a block that passes validate_block_header.
LEMMA SlotInvAccepts == SlotInv => ProducedAccepted
<1> SUFFICES ASSUME SlotInv,
                    NEW n \in up \ stuck, NEW w \in Witnesses, MayProduce(n, w)
             PROVE  LET when == get_slot_time(get_slot_at_time(age))
                    IN validate_block_header(when, w) /\ when = age
  BY DEF ProducedAccepted
<1>1. /\ get_slot_at_time(age) > 0 /\ get_slot_time(get_slot_at_time(age)) = age
      /\ w = get_scheduled_witness(get_slot_at_time(age))
  BY DEF MayProduce
<1>2. age \in Int /\ age > 0
  BY <1>1, SlotOfTime, SlotTimes DEF SlotInv
<1> QED BY <1>1, <1>2 DEF validate_block_header

(***************************************************************************)
(* The invariant is inductive                                              *)
(***************************************************************************)

\* The maintenance interval is a modulus.
LEMMA IntervalPositive == SlotInv => MaintenanceInterval \in Nat /\ MaintenanceInterval > 0
  BY ConstantTypes DEF SlotInv

\* The genesis state satisfies the invariant: maintenance is overdue.
LEMMA InitSlots == Init => SlotInv
<1> SUFFICES ASSUME Init PROVE SlotInv
  OBVIOUS
<1>1. number = 0 /\ time \in Nat /\ age = 0 /\ next = 0
  BY ConstantTypes DEF Init
<1>2. interval \in Intervals /\ flag \in BOOLEAN
  BY DEF Init
<1> QED BY <1>1, <1>2 DEF SlotInv, MaintenanceAligned

\* The block a node makes: perform_chain_maintenance plans the next maintenance
\* on the first multiple of its interval after the block, and a block without
\* maintenance leaves the planned time ahead of it.
LEMMA BlockKeepsMaintenance ==
  ASSUME SlotInv, NEW when \in Int, when > 0,
         time' = (time + when) % MaintenanceInterval,
         next' = IF next <= when THEN next_maintenance_time(when) ELSE next - when
  PROVE  /\ (time' + next') % MaintenanceInterval = 0
         /\ next' \in 1..MaintenanceInterval
<1> DEFINE M == MaintenanceInterval
           p == (time + when) \div M
<1>1. M \in Nat /\ M > 0
  BY IntervalPositive
<1>2. time \in Int /\ next \in Int /\ number \in Nat
  BY DEF SlotInv
<1>3. /\ p \in Int /\ time' \in Int /\ time + when = (p * M) + time'
      /\ 0 <= time' /\ time' < M
  BY <1>1, <1>2, Division
<1>4. CASE number = 0
  <2>1. next <= when
    BY <1>4 DEF SlotInv
  <2>2. next' = M - time'
    BY <1>4, <2>1 DEF next_maintenance_time
  <2>3. 1 * M = M /\ (1 * M) % M = 0
    BY <1>1, MultipleDivides
  <2> HIDE DEF M
  <2>4. time' + next' = M /\ next' \in 1..M
    BY <1>1, <1>3, <2>2
  <2> QED BY <2>3, <2>4 DEF M
<1>5. CASE number # 0
  <2> DEFINE k == (time + next) \div M
  <2>1. (time + next) % M = 0 /\ next \in 1..M
    BY <1>2, <1>5 DEF SlotInv, MaintenanceAligned
  <2>2. k \in Int /\ time + next = (k * M) + ((time + next) % M)
    BY <1>1, <1>2, Division
  <2>3. CASE next <= when
    <3> DEFINE q == (when - next) \div M
               rest == (when - next) % M
    <3>1. /\ q \in Int /\ rest \in Int /\ when - next = (q * M) + rest
          /\ 0 <= rest /\ rest < M
      BY <1>1, <1>2, Division
    <3>2. next' = (next - when) + ((q + 1) * M)
      BY <1>5, <2>3 DEF next_maintenance_time
    <3> HIDE DEF M, p, k, q, rest
    <3>3. (q + 1) * M = (q * M) + M /\ q * M \in Int /\ k * M \in Int /\ p * M \in Int
      BY <1>1, <1>3, <2>2, <3>1, Distributes
    <3>4. next' = M - rest
      BY <1>1, <1>2, <3>1, <3>2, <3>3
    <3>5. time' + next' = ((k * M) - (p * M)) + ((q + 1) * M)
      <4>1. time' = (time + when) - (p * M) /\ time + next = k * M
        BY <1>2, <1>3, <2>1, <2>2, <3>3 DEF M
      <4> QED BY <1>1, <1>2, <1>3, <3>2, <3>3, <4>1
    <3>6. ((k - p) + (q + 1)) * M = ((k * M) - (p * M)) + ((q + 1) * M)
      <4>1. (k - p) * M = (k * M) - (p * M)
        BY <1>1, <1>3, <2>2, Distributes
      <4>2. ((k - p) + (q + 1)) * M = ((k - p) * M) + ((q + 1) * M)
        BY <1>1, <1>3, <2>2, <3>1, Distributes
      <4> QED BY <4>1, <4>2
    <3>7. (k - p) + (q + 1) \in Int
      BY <1>3, <2>2, <3>1
    <3>8. (time' + next') % M = 0
      BY <1>1, <3>5, <3>6, <3>7, MultipleDivides
    <3>9. next' \in 1..M
      BY <1>1, <3>1, <3>4
    <3> QED BY <3>8, <3>9 DEF M
  <2>4. CASE ~(next <= when)
    <3>1. next' = next - when
      BY <2>4
    <3> HIDE DEF M, p, k
    <3>2. k * M \in Int /\ p * M \in Int /\ (k - p) * M = (k * M) - (p * M)
      BY <1>1, <1>3, <2>2, Distributes
    <3>3. time' + next' = (k - p) * M
      BY <1>2, <1>3, <2>1, <2>2, <3>1, <3>2
    <3>4. (time' + next') % M = 0
      <4>1. k - p \in Int
        BY <1>3, <2>2
      <4> QED BY <1>1, <3>3, <4>1, MultipleDivides
    <3>5. next' \in 1..M
      BY <1>1, <1>2, <2>1, <2>4, <3>1
    <3> QED BY <3>4, <3>5 DEF M
  <2> QED BY <2>3, <2>4
<1> QED BY <1>2, <1>4, <1>5

\* Every step keeps the invariant; only the block of Produce disturbs it.
LEMMA NextSlots == SlotInv /\ [Next]_vars => SlotInv'
<1> SUFFICES ASSUME SlotInv, [Next]_vars PROVE SlotInv'
  OBVIOUS
<1>1. ASSUME NEW n \in Nodes, NEW w \in Witnesses, Produce(n, w)
      PROVE  SlotInv'
  <2> DEFINE when == get_slot_time(get_slot_at_time(age))
  <2>1. when = age /\ when \in Int /\ when > 0
    <3>1. get_slot_at_time(age) > 0 /\ when = age
      BY <1>1 DEF Produce, MayProduce
    <3> QED BY <3>1, SlotOfTime, SlotTimes DEF SlotInv
  <2>2. _apply_block(when, w)
    BY <1>1 DEF Produce, generate_block
  <2> HIDE DEF when
  <2>3. /\ number' = (number % Round) + 1
        /\ time' = (time + when) % MaintenanceInterval
        /\ age' = age - when
        /\ flag' = (next <= when)
    BY <2>2 DEF _apply_block
  <2>4. /\ next' = IF next <= when THEN next_maintenance_time(when) ELSE next - when
        /\ interval' \in Intervals
    BY <2>2 DEF _apply_block, perform_chain_maintenance, SlotInv
  <2>5. /\ (time' + next') % MaintenanceInterval = 0
        /\ next' \in 1..MaintenanceInterval
    BY <2>1, <2>3, <2>4, BlockKeepsMaintenance
  <2>6. number' \in Nat /\ number' > 0
    <3>1. Round \in Nat /\ Round > 0 /\ number \in Int
      BY ConstantTypes DEF SlotInv
    <3>2. number % Round \in Int /\ 0 <= number % Round
      BY <3>1, Division
    <3> QED BY <2>3, <3>2
  <2>7. time' \in Nat
    <3>1. time + when \in Int
      BY <2>1 DEF SlotInv
    <3>2. time' \in Int /\ 0 <= time'
      BY <2>3, <3>1, IntervalPositive, Division
    <3> QED BY <3>2
  <2>8. age' \in Int /\ next' \in Int
    BY <2>1, <2>3, <2>5, IntervalPositive DEF SlotInv
  <2>9. flag' \in BOOLEAN
    BY <2>3
  <2> QED BY <2>4, <2>5, <2>6, <2>7, <2>8, <2>9 DEF SlotInv, MaintenanceAligned
<1>2. ASSUME NEW n \in Nodes, Enable(n) \/ Crash(n) \/ Restart(n)
      PROVE  SlotInv'
  BY <1>2 DEF Enable, Crash, Restart, chain, SlotInv, MaintenanceAligned
<1>3. CASE Tick
  <2>1. age' \in Int
    BY <1>3, ConstantTypes DEF Tick, SlotInv
  <2> QED BY <1>3, <2>1 DEF Tick, chain, SlotInv, MaintenanceAligned
<1>4. CASE UNCHANGED vars
  BY <1>4 DEF vars, chain, SlotInv, MaintenanceAligned
<1> QED BY <1>1, <1>2, <1>3, <1>4 DEF Next

\* The invariant holds in every reachable state.
THEOREM SlotsInvariant == Spec => []SlotInv
<1> QED BY InitSlots, NextSlots, PTL DEF Spec

\* get_slot_time and get_slot_at_time agree in every reachable state, for every
\* genesis time, every block_interval the committee may set, every number of
\* maintenance_skip_slots and every outage.
THEOREM SlotsAlwaysAgree == Spec => []SlotsAgree
<1> QED BY SlotsInvariant, SlotInvAgrees, PTL

\* What maybe_produce_block decides to produce passes validate_block_header,
\* and carries the time of the very second it is made in.
THEOREM ProducedAlwaysAccepted == Spec => []ProducedAccepted
<1> QED BY SlotsInvariant, SlotInvAccepts, PTL

\* perform_chain_maintenance keeps maintenance on the first multiple of its
\* interval after the head block, however long the chain stood still.
THEOREM MaintenanceStaysAligned == Spec => []MaintenanceAligned
<1>1. SlotInv => MaintenanceAligned
  BY DEF SlotInv
<1> QED BY <1>1, SlotsInvariant, PTL

(***************************************************************************)
(* Irreversibility                                                         *)
(***************************************************************************)

\* What the last irreversible block depends on.
ConfirmInv == behind \in [Witnesses -> 0..Far] /\ active \in ActiveSets

\* How many active witnesses have confirmed the block d below the head.
Confirms(b, d) == Cardinality({w \in active : b[w] <= d})

\* There is an active witness, and the number of witnesses is finite.
LEMMA ActiveFinite ==
  ASSUME ConfirmInv
  PROVE  /\ active \subseteq Witnesses /\ IsFiniteSet(active)
         /\ Cardinality(active) \in Nat /\ Cardinality(active) > 0
<1>1. active \subseteq Witnesses /\ active # {}
  BY ScheduleAssumption DEF ScheduleAssumption, ConfirmInv
<1>2. IsFiniteSet(active)
  BY <1>1, ScheduleAssumption, FS_Subset DEF ScheduleAssumption
<1>3. Cardinality(active) \in Nat /\ Cardinality(active) # 0
  BY <1>1, <1>2, FS_CardinalityType, FS_EmptySet
<1> QED BY <1>1, <1>2, <1>3

\* The witnesses that have confirmed a block and those that have not make up the
\* active ones, and a block further below has no fewer confirmations.
LEMMA ConfirmsCounted ==
  ASSUME ConfirmInv, NEW b \in [Witnesses -> 0..Far], NEW d \in Int
  PROVE  /\ Confirms(b, d) \in Nat
         /\ Cardinality({w \in active : b[w] > d}) = Cardinality(active) - Confirms(b, d)
         /\ \A e \in Int : d <= e => Confirms(b, d) <= Confirms(b, e)
<1> DEFINE yes == {w \in active : b[w] <= d}
           no == {w \in active : b[w] > d}
<1>1. active \subseteq Witnesses /\ IsFiniteSet(active)
  BY ActiveFinite
<1>2. \A w \in active : b[w] \in Int
  BY <1>1 DEF Far
<1>3. no = active \ yes /\ yes \in SUBSET active /\ active \cap yes = yes
  BY <1>2
<1>4. Cardinality(no) = Cardinality(active) - Cardinality(yes) /\ Cardinality(yes) \in Nat
  <2> HIDE DEF yes, no
  <2>1. Cardinality(active \ yes) = Cardinality(active) - Cardinality(active \cap yes)
    BY <1>1, FS_Difference
  <2> QED BY <1>1, <1>3, <2>1, FS_Subset, FS_CardinalityType
<1>5. ASSUME NEW e \in Int, d <= e
      PROVE  Confirms(b, d) <= Confirms(b, e)
  <2> DEFINE more == {w \in active : b[w] <= e}
  <2>1. yes \in SUBSET more /\ more \in SUBSET active
    BY <1>2, <1>5
  <2> HIDE DEF yes, more
  <2>2. IsFiniteSet(more)
    BY <1>1, <2>1, FS_Subset
  <2>3. Cardinality(yes) <= Cardinality(more)
    BY <2>1, <2>2, FS_Subset
  <2> QED BY <2>3 DEF yes, more, Confirms
<1> QED BY <1>4, <1>5 DEF Confirms

\* The offset that update_last_irreversible_block gives to nth_element, which
\* rounds down, leaves exactly the threshold: k of n witnesses are enough when
\* the others are at most offset.
LEMMA OffsetIsThreshold ==
  ASSUME NEW n \in Nat, NEW k \in Int
  PROVE  /\ ((100 - Threshold) * n) \div 100 \in Int
         /\ n - k <= ((100 - Threshold) * n) \div 100 <=> 100 * k >= Threshold * n
<1> DEFINE need == Threshold * n
           rest == (100 - Threshold) * n
           offset == rest \div 100
<1>1. Threshold \in Int
  BY ScheduleAssumption DEF ScheduleAssumption
<1>2. need \in Int /\ rest = 100 * n - need
  BY <1>1, Distributes
<1>3. offset \in Int /\ rest % 100 \in Int /\ rest = (offset * 100) + (rest % 100)
      /\ 0 <= rest % 100 /\ rest % 100 < 100
  BY <1>2, Division
<1> HIDE DEF need, rest, offset
<1>4. n - k <= offset <=> 100 * k >= need
  BY <1>2, <1>3
<1> QED BY <1>3, <1>4 DEF need, rest, offset

\* The block that nth_element finds is the latest one that a Threshold share of
\* the active witnesses has confirmed.
LEMMA NthIsLeast ==
  ASSUME ConfirmInv, NEW b \in [Witnesses -> 0..Far]
  PROVE  NthConfirmed(b)
           = Min({d \in 0..Far : 100 * Confirms(b, d) >= Threshold * Cardinality(active)})
<1> DEFINE n == Cardinality(active)
           enough(d) == 100 * Confirms(b, d) >= Threshold * n
           S == {d \in 0..Far : enough(d)}
           m == Min(S)
           offset == ((100 - Threshold) * n) \div 100
           Nth(d) == /\ Cardinality({w \in active : b[w] > d}) <= offset
                     /\ Cardinality({w \in active : b[w] >= d}) > offset
<1>1. Far \in Nat /\ Threshold \in Int /\ 0 < Threshold /\ Threshold <= 100
  BY ScheduleAssumption DEF ScheduleAssumption, Far
<1>2. n \in Nat /\ n > 0 /\ active \subseteq Witnesses /\ active # {}
  BY ActiveFinite, FS_EmptySet
<1>3. \A w \in active : b[w] \in 0..Far
  BY <1>2
<1>4. \A d \in Int : /\ {w \in active : b[w] >= d} = {w \in active : b[w] > d - 1}
                     /\ d - 1 \in Int
  BY <1>1, <1>3
<1> HIDE DEF n
<1>5. \A d \in Int : Nth(d) <=> enough(d) /\ ~enough(d - 1)
  <2> SUFFICES ASSUME NEW d \in Int PROVE Nth(d) <=> enough(d) /\ ~enough(d - 1)
    OBVIOUS
  <2>1. /\ Cardinality({w \in active : b[w] > d}) = n - Confirms(b, d)
        /\ Cardinality({w \in active : b[w] >= d}) = n - Confirms(b, d - 1)
        /\ Confirms(b, d) \in Int /\ Confirms(b, d - 1) \in Int
    BY <1>4, ConfirmsCounted DEF n
  <2>2. /\ n - Confirms(b, d) <= offset <=> enough(d)
        /\ n - Confirms(b, d - 1) <= offset <=> enough(d - 1)
        /\ offset \in Int
    BY <1>2, <2>1, OffsetIsThreshold
  <2> HIDE DEF offset, enough
  <2> QED BY <1>2, <2>1, <2>2
<1>6. \A d, e \in Int : d <= e /\ enough(d) => enough(e)
  <2> SUFFICES ASSUME NEW d \in Int, NEW e \in Int, d <= e, enough(d) PROVE enough(e)
    OBVIOUS
  <2>1. Confirms(b, d) <= Confirms(b, e) /\ Confirms(b, d) \in Nat /\ Confirms(b, e) \in Nat
    BY ConfirmsCounted
  <2>2. Threshold * n \in Int
    BY <1>1, <1>2
  <2> QED BY <2>1, <2>2
<1>7. enough(Far)
  <2>1. {w \in active : b[w] <= Far} = active
    BY <1>1, <1>3
  <2>2. Confirms(b, Far) = n
    BY <2>1 DEF Confirms, n
  <2>3. Threshold * n <= 100 * n
    BY <1>1, <1>2, Monotone
  <2> QED BY <2>2, <2>3
<1>8. ~enough(-1)
  <2>1. {w \in active : b[w] <= -1} = {}
    BY <1>1, <1>3
  <2>2. Confirms(b, -1) = 0
    BY <2>1, FS_EmptySet DEF Confirms
  <2>3. 1 * n <= Threshold * n /\ 1 * n = n /\ Threshold * n \in Int
    BY <1>1, <1>2, Monotone
  <2> QED BY <1>2, <2>2, <2>3
<1>9. m \in S /\ \A d \in S : m <= d
  <2> HIDE DEF enough
  <2>1. Far \in 0..Far /\ S \in SUBSET (0..Far)
    BY <1>1
  <2>2. S \in SUBSET Nat /\ Far \in S
    BY <1>1, <1>7, <2>1
  <2> HIDE DEF S
  <2> QED BY <2>2, MinIn
<1>10. m \in 0..Far /\ enough(m)
  BY <1>9
<1> HIDE DEF m
<1>11. ~enough(m - 1)
  <2>1. CASE m = 0
    BY <1>8, <2>1
  <2>2. CASE m # 0
    <3>1. m - 1 \in 0..Far /\ ~(m <= m - 1)
      BY <1>1, <1>10, <2>2
    <3> QED BY <1>9, <3>1
  <2> QED BY <2>1, <2>2
<1>12. m \in {b[w] : w \in active}
  <2> SUFFICES ASSUME \A w \in active : b[w] # m PROVE FALSE
    OBVIOUS
  <2>1. {w \in active : b[w] <= m} = {w \in active : b[w] <= m - 1}
    BY <1>1, <1>3, <1>10
  <2>2. Confirms(b, m) = Confirms(b, m - 1)
    BY <2>1 DEF Confirms
  <2> QED BY <1>10, <1>11, <2>2
<1> HIDE DEF enough, Nth, S
<1>13. Nth(m)
  BY <1>5, <1>10, <1>11
<1>14. ASSUME NEW d \in {b[w] : w \in active}, Nth(d) PROVE d = m
  <2>1. d \in Int /\ m \in Int /\ d - 1 \in Int /\ m - 1 \in Int
    BY <1>1, <1>3, <1>10
  <2>2. enough(d) /\ ~enough(d - 1)
    BY <1>5, <1>14, <2>1
  <2>3. ~(d <= m - 1) /\ ~(m <= d - 1)
    BY <1>6, <1>10, <1>11, <2>1, <2>2
  <2> QED BY <2>1, <2>3
<1>15. NthConfirmed(b) = CHOOSE d \in {b[w] : w \in active} : Nth(d)
  BY DEF NthConfirmed, Nth, offset, n
<1>16. NthConfirmed(b) = m
  BY <1>12, <1>13, <1>14, <1>15
<1> QED BY <1>16 DEF m, S, enough, n

\* The genesis block is confirmed by everyone.
LEMMA InitConfirms == Init => ConfirmInv
  BY ScheduleAssumption DEF Init, ConfirmInv, ScheduleAssumption, Far

\* A block is confirmed by its witness, and no distance exceeds Far.
LEMMA NextConfirms == ConfirmInv /\ [Next]_vars => ConfirmInv'
<1> SUFFICES ASSUME ConfirmInv, [Next]_vars PROVE ConfirmInv'
  OBVIOUS
<1>1. ASSUME NEW n \in Nodes, NEW w \in Witnesses, Produce(n, w)
      PROVE  ConfirmInv'
  <2>1. Far \in Nat
    BY ScheduleAssumption DEF ScheduleAssumption, Far
  <2>2. behind' = Confirmed(w) /\ active' \in ActiveSets
    BY <1>1 DEF Produce, generate_block, _apply_block, perform_chain_maintenance, ConfirmInv
  <2>3. Confirmed(w) \in [Witnesses -> 0..Far]
    BY <2>1 DEF Confirmed, Nearer, ConfirmInv
  <2> QED BY <2>2, <2>3 DEF ConfirmInv, Far
<1>2. ASSUME NEW n \in Nodes, Enable(n) \/ Crash(n) \/ Restart(n)
      PROVE  ConfirmInv'
  BY <1>2 DEF Enable, Crash, Restart, chain, ConfirmInv, Far
<1>3. CASE Tick
  BY <1>3 DEF Tick, chain, ConfirmInv, Far
<1>4. CASE UNCHANGED vars
  BY <1>4 DEF vars, chain, ConfirmInv, Far
<1> QED BY <1>1, <1>2, <1>3, <1>4 DEF Next

\* update_last_irreversible_block, for every number of witnesses and every
\* threshold: a block becomes irreversible with the block that completes the
\* confirmations of a Threshold share of the active witnesses, neither earlier
\* nor later, and nothing moves the last irreversible block back.
THEOREM IrreversibleExactly == Spec => IrreversibleByThreshold
<1> DEFINE A == behind' # behind =>
                  LET confirms(d) == Cardinality({w \in active : behind'[w] <= d})
                      least == Min({d \in 0..Far : 100 * confirms(d) >= Threshold * Cardinality(active)})
                  IN lib' = Nearer(least, Nearer(lib + 1, Far))
<1>1. ConfirmInv /\ [Next]_vars => [A]_vars
  <2> SUFFICES ASSUME ConfirmInv, [Next]_vars, behind' # behind PROVE A
    OBVIOUS
  <2>1. PICK n \in Nodes, w \in Witnesses : Produce(n, w)
    BY DEF Next, Enable, Crash, Restart, Tick, vars, chain
  <2>2. lib' = update_last_irreversible_block(behind')
    BY <2>1 DEF Produce, generate_block, _apply_block
  <2>3. behind' \in [Witnesses -> 0..Far]
    BY NextConfirms DEF ConfirmInv, Far
  <2>4. NthConfirmed(behind')
          = Min({d \in 0..Far : 100 * Confirms(behind', d) >= Threshold * Cardinality(active)})
    BY <2>3, NthIsLeast
  <2> QED BY <2>2, <2>4 DEF update_last_irreversible_block, Confirms
<1>2. Spec => []ConfirmInv
  BY InitConfirms, NextConfirms, PTL DEF Spec
<1> QED BY <1>1, <1>2, PTL DEF Spec, IrreversibleByThreshold
=============================================================================
