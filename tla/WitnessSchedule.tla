--------------------------- MODULE WitnessSchedule ---------------------------
(***************************************************************************)
(* When blocks may be made, and by whom: the slot arithmetic and witness   *)
(* schedule of db_witness_schedule.cpp, what applying a block does to them *)
(* (db_update.cpp, db_maint.cpp), and the production loop of the witness   *)
(* plugin on every node that runs witnesses.                               *)
(*                                                                         *)
(* One chain is modelled: a block reaches every node before the next slot. *)
(* Competing chains are the subject of ChainDatabase.                      *)
(*                                                                         *)
(* The state is kept relative to the head block, so that a run may last    *)
(* forever.  Times are seconds after the head block; the code reads the    *)
(* head block's own time only modulo the block and maintenance intervals.  *)
(* Block numbers are distances below the head, which all read as Far once  *)
(* they are so large that the code treats them alike.                      *)
(***************************************************************************)
EXTENDS Integers, Sequences, FiniteSets, FiniteSetsExt, SequencesExt

CONSTANTS
  Witnesses,           \* witness objects
  ActiveSets,          \* the sets of active witnesses the votes may give
  Nodes,               \* nodes that run the witness plugin
  Runs,                \* Runs[n]: the witnesses node n is configured with
  Keys,                \* Keys[n]: the witnesses whose signing key n holds
  Stale,               \* nodes started with --enable-stale-production
  Required,            \* Required[n]: _required_witness_participation, percent
  Intervals,           \* values the committee gives block_interval
  MaintenanceInterval, \* maintenance_interval
  SkipSlots,           \* maintenance_skip_slots
  Threshold,           \* GRAPHENE_IRREVERSIBLE_THRESHOLD, percent
  MaxUndoHistory,      \* GRAPHENE_MAX_UNDO_HISTORY
  Window,              \* bits of recent_slots_filled (128)
  Round,               \* a common multiple of the schedule sizes
  Fold,                \* bound: ages above MaxAge are folded by this much
  MaxCrashes           \* bound: how often a node stops

MaxInterval == Max(Intervals)

\* Bound: an age from which every slot missed shows in no state any more.
MaxAge == Fold + Max({MaintenanceInterval, (Window + SkipSlots + 1) * MaxInterval})

ASSUME ScheduleAssumption ==
  /\ IsFiniteSet(Witnesses)
  /\ ActiveSets \subseteq (SUBSET Witnesses) \ {{}}
  /\ Runs \in [Nodes -> SUBSET Witnesses] /\ Keys \in [Nodes -> SUBSET Witnesses]
  /\ Stale \subseteq Nodes
  /\ Required \in [Nodes -> 0..100]
  /\ Intervals \subseteq (Nat \ {0}) /\ Intervals # {}
  /\ \A i \in Intervals :            \* chain_parameters::validate
       MaintenanceInterval > i /\ MaintenanceInterval % i = 0
  /\ {SkipSlots, MaxUndoHistory, MaxCrashes, MaintenanceInterval, Fold, MaxAge} \subseteq Nat
  /\ Threshold \in 1..100 /\ Window >= 1 /\ Round \in Nat \ {0}
  /\ \A a \in ActiveSets : Round % Cardinality(a) = 0
  /\ Fold % MaintenanceInterval = 0 /\ \A i \in Intervals : Fold % (i * Round) = 0

VARIABLES
  number,    \* head_block_num(): 0 before block 1, then 1..Round, modulo Round
  time,      \* head_block_time(), modulo the maintenance interval
  age,       \* seconds from the head block to now
  interval,  \* block_interval
  flag,      \* maintenance_flag
  next,      \* next_maintenance_time, in seconds after the head block
  aslot,     \* current_aslot, modulo Round
  filled,    \* recent_slots_filled: the positions of its 1 bits
  active,    \* active_witnesses
  shuffled,  \* current_shuffled_witnesses
  behind,    \* behind[w]: blocks from w's last_confirmed_block_num to the head
  lib,       \* blocks from last_irreversible_block_num to the head
  up,        \* the nodes that run
  enabled,   \* the nodes whose _production_enabled is set
  stuck,     \* nodes that reject the chain for want of undo history
  crashes    \* how often a node has stopped

chain == <<number, time, interval, flag, next, aslot, filled, active, shuffled, behind, lib>>
vars == <<chain, age, up, enabled, stuck, crashes>>

Far == MaxUndoHistory + 1

Nearer(a, b) == IF a < b THEN a ELSE b

(***************************************************************************)
(* Slots                                                                   *)
(***************************************************************************)

\* Mutant: slots counted from the head block, not from its slot.
SlotTimeUnaligned(slot) ==
  (slot + IF flag THEN SkipSlots ELSE 0) * interval

\* get_slot_time, in seconds after the head block.
get_slot_time(slot) ==
  IF number = 0
  THEN slot * interval
  ELSE (slot + IF flag THEN SkipSlots ELSE 0) * interval - (time % interval)

\* get_slot_at_time: the slot that holds the second when, 0 before the first.
get_slot_at_time(when) ==
  IF when < get_slot_time(1)
  THEN 0
  ELSE (when - get_slot_time(1)) \div interval + 1

\* Mutant: the schedule waits for the witness that missed its slot.
ScheduledWaits(slot) ==
  shuffled[1 + ((aslot + 1) % Len(shuffled))]

get_scheduled_witness(slot) ==
  shuffled[1 + ((aslot + slot) % Len(shuffled))]

\* witness_participation_rate, in percent.
witness_participation_rate == (100 * Cardinality(filled)) \div Window

(***************************************************************************)
(* Applying a block                                                        *)
(***************************************************************************)

\* validate_block_header, for a block made when seconds after the head by w.
validate_block_header(when, w) ==
  LET slot == get_slot_at_time(when)
  IN /\ when > 0
     /\ slot > 0
     /\ get_scheduled_witness(slot) = w

\* The undo history check of update_global_dynamic_data.
HistorySuffices == lib + 1 < MaxUndoHistory

\* recent_slots_filled = ((recent_slots_filled << 1) + 1) << missed_blocks.
recent_slots_filled(missed) ==
  {p \in {q + missed : q \in {0} \cup {r + 1 : r \in filled}} : p < Window}

\* update_signing_witness: w has confirmed the new head block.
Confirmed(w) ==
  [v \in Witnesses |-> IF v = w THEN 0 ELSE Nearer(behind[v] + 1, Far)]

\* Mutant: the threshold counts the witnesses that need not confirm.
NthByMinority(b) ==
  LET offset == (Threshold * Cardinality(active)) \div 100
  IN CHOOSE d \in {b[w] : w \in active} :
       /\ Cardinality({w \in active : b[w] > d}) <= offset
       /\ Cardinality({w \in active : b[w] >= d}) > offset

\* The element std::nth_element puts at offset, as a distance: the larger the
\* last_confirmed_block_num, the smaller the distance.
NthConfirmed(b) ==
  LET offset == ((100 - Threshold) * Cardinality(active)) \div 100
  IN CHOOSE d \in {b[w] : w \in active} :
       /\ Cardinality({w \in active : b[w] > d}) <= offset
       /\ Cardinality({w \in active : b[w] >= d}) > offset

\* update_last_irreversible_block: it never moves back.
update_last_irreversible_block(b) ==
  Nearer(NthConfirmed(b), Nearer(lib + 1, Far))

\* Mutant: maintenance is due one interval after the last one was planned.
NextMaintenanceLate(when) == next - when + MaintenanceInterval

\* The next_maintenance_time perform_chain_maintenance sets, after the block.
next_maintenance_time(when) ==
  IF number = 0
  THEN MaintenanceInterval - ((time + when) % MaintenanceInterval)
  ELSE next - when + ((when - next) \div MaintenanceInterval + 1) * MaintenanceInterval

\* perform_chain_maintenance: the votes and the committee's parameters take effect.
perform_chain_maintenance(when) ==
  /\ active' \in ActiveSets
  /\ interval' \in Intervals
  /\ next' = next_maintenance_time(when)

\* update_witness_schedule: the order depends on the block's time alone.
update_witness_schedule ==
  IF number' % Cardinality(active') = 0
  THEN shuffled' \in SetToSeqs(active')
  ELSE UNCHANGED shuffled

\* _apply_block, in the order in which it changes the schedule.
_apply_block(when, w) ==
  LET missed == get_slot_at_time(when) - 1
      maint_needed == next <= when
      b == Confirmed(w)
  IN /\ validate_block_header(when, w)
     /\ number' = (number % Round) + 1
     /\ time' = (time + when) % MaintenanceInterval
     /\ age' = age - when
     /\ filled' = recent_slots_filled(missed)
     /\ aslot' = (aslot + missed + 1) % Round
     /\ behind' = b
     /\ lib' = update_last_irreversible_block(b)
     /\ IF maint_needed
        THEN perform_chain_maintenance(when)
        ELSE next' = next - when /\ UNCHANGED <<active, interval>>
     /\ flag' = maint_needed
     /\ update_witness_schedule

(***************************************************************************)
(* The witness plugin                                                      *)
(***************************************************************************)

\* Mutant: get_slot_time(0) is the epoch, which no time precedes.
SyncedBySlotZero(n) == n \in enabled

\* If the next block production opportunity is now or later, the node is synced.
Synced(n) == n \in enabled \/ get_slot_time(1) >= age

\* Mutant: a node makes up for the slots it slept through.
MayProduceLate(n, w) ==
  LET slot == get_slot_at_time(age)
  IN /\ Synced(n) /\ slot > 0
     /\ w = get_scheduled_witness(slot)
     /\ w \in Runs[n] \cap Keys[n]
     /\ witness_participation_rate >= Required[n]

\* The conditions of maybe_produce_block: w is scheduled now, n runs it and has
\* its key, enough witnesses participate, and the slot began this very second.
MayProduce(n, w) ==
  LET slot == get_slot_at_time(age)
  IN /\ Synced(n)
     /\ slot > 0
     /\ w = get_scheduled_witness(slot)
     /\ w \in Runs[n] \cap Keys[n]
     /\ witness_participation_rate >= Required[n]
     /\ get_slot_time(slot) = age

\* _generate_block and the push of the block it makes; the other nodes apply it
\* under their own undo history check, the producer only if it is not Stale.
generate_block(n, w) ==
  LET when == get_slot_time(get_slot_at_time(age))
  IN /\ HistorySuffices \/ n \in Stale
     /\ _apply_block(when, w)
     /\ stuck' = IF HistorySuffices THEN stuck ELSE Nodes \ {n}

\* A turn of block_production_loop in which maybe_produce_block makes a block.
Produce(n, w) ==
  /\ n \in up \ stuck
  /\ MayProduce(n, w)
  /\ enabled' = enabled \cup {n}
  /\ generate_block(n, w)
  /\ UNCHANGED <<up, crashes>>

\* A turn in which it only finds that the node is synced.
Enable(n) ==
  /\ n \in up \ (stuck \cup enabled)
  /\ Synced(n)
  /\ \A w \in Witnesses : ~MayProduce(n, w)
  /\ enabled' = enabled \cup {n}
  /\ UNCHANGED <<chain, age, up, stuck, crashes>>

\* A second passes, whether or not every node has run its loop in it.
Tick ==
  /\ age' = IF age = MaxAge THEN MaxAge + 1 - Fold ELSE age + 1
  /\ UNCHANGED <<chain, up, enabled, stuck, crashes>>

Crash(n) ==
  /\ n \in up
  /\ crashes < MaxCrashes
  /\ up' = up \ {n}
  /\ enabled' = enabled \ {n}
  /\ crashes' = crashes + 1
  /\ UNCHANGED <<chain, age, stuck>>

\* plugin_startup; a chain other nodes reject is not replayed either.
Restart(n) ==
  /\ n \notin up
  /\ up' = up \cup {n}
  /\ enabled' = enabled \cup ({n} \cap Stale)
  /\ stuck' = IF stuck = {} THEN stuck ELSE stuck \cup {n}
  /\ UNCHANGED <<chain, age, crashes>>

Init ==
  /\ number = 0
  /\ time \in 0..(MaintenanceInterval - 1)
  /\ age = 0
  /\ interval \in Intervals
  /\ flag = FALSE
  /\ next = 0                        \* the epoch: always due in block 1
  /\ aslot = 0
  /\ filled = 0..(Window - 1)
  /\ active \in ActiveSets
  /\ shuffled \in SetToSeqs(active)
  /\ behind = [w \in Witnesses |-> 0]
  /\ lib = 0
  /\ up = Nodes
  /\ enabled = Stale
  /\ stuck = {}
  /\ crashes = 0

Next ==
  \/ \E n \in Nodes, w \in Witnesses : Produce(n, w)
  \/ \E n \in Nodes : Enable(n) \/ Crash(n) \/ Restart(n)
  \/ Tick

\* Time passes; a node that can produce for a witness again and again does so
\* sooner or later, since its loop wakes every second and is late only at times.
Fairness ==
  /\ WF_vars(Tick)
  /\ \A n \in Nodes \ Stale : SF_vars(Enable(n))
  /\ \A n \in Nodes : \A w \in Runs[n] \cap Keys[n] : SF_vars(Produce(n, w))

Spec == Init /\ [][Next]_vars /\ Fairness

(***************************************************************************)
(* Properties                                                              *)
(***************************************************************************)

\* get_slot_time and get_slot_at_time agree whatever the genesis time, the
\* maintenance flag and the slots missed: slots come after the head block and,
\* from block 1 on, at multiples of block_interval, every second
\* from the first slot on lies in exactly the slot found for it, and a slot's
\* own time is found to be in it ("if this assert triggers, there is a serious
\* bug in get_slot_at_time()", witness.cpp).
SlotsAgree ==
  /\ get_slot_time(1) > 0
  /\ number > 0 => (time + get_slot_time(1)) % interval = 0
  /\ \A s \in 1..(2 * Round) : get_slot_at_time(get_slot_time(s)) = s
  /\ \A t \in 0..MaxAge :
       LET s == get_slot_at_time(t)
       IN s > 0 => get_slot_time(s) <= t /\ t < get_slot_time(s + 1)

\* What the plugin decides to produce, the chain accepts: the checks that
\* generate_block and validate_block_header make again never fail, except for
\* the undo history of a node that is not Stale; and no block is from the past
\* or the future.
ProducedAccepted ==
  \A n \in up \ stuck, w \in Witnesses :
    MayProduce(n, w) =>
      LET when == get_slot_time(get_slot_at_time(age))
      IN validate_block_header(when, w) /\ when = age

\* Maintenance stays on multiples of its interval and is never put off: after
\* every block the next one is due at the first multiple after the head block,
\* however many intervals an outage skipped.
MaintenanceAligned ==
  number > 0 => /\ (time + next) % MaintenanceInterval = 0
                /\ next \in 1..MaintenanceInterval

\* A block becomes irreversible with the block that completes the confirmations
\* of a Threshold share of the witnesses active just before it, neither earlier
\* nor later, and stays so when the votes replace those witnesses.
IrreversibleByThreshold ==
  [][behind' # behind =>
       LET confirms(d) == Cardinality({w \in active : behind'[w] <= d})
           least == Min({d \in 0..Far : 100 * confirms(d) >= Threshold * Cardinality(active)})
       IN lib' = Nearer(least, Nearer(lib + 1, Far))]_vars

Produced == \E n \in Nodes, w \in Witnesses : Produce(n, w)

\* Node n runs a witness of the schedule and nothing keeps it from producing.
CanProduce(n) ==
  /\ n \in (up \cap enabled) \ stuck
  /\ witness_participation_rate >= Required[n]
  /\ HistorySuffices \/ n \in Stale
  /\ \E i \in DOMAIN shuffled : shuffled[i] \in Runs[n] \cap Keys[n]

\* The chain does not halt while some node can produce for a scheduled witness:
\* however long the outage, whatever the shuffles, the turn of its witness comes
\* and its block is made (block_production_loop, get_scheduled_witness).
ChainGrows ==
  <>[](\E n \in Nodes : CanProduce(n)) => []<><<Produced>>_vars

\* A node that stays up while blocks are made starts to produce: _production_enabled
\* is not missed forever, although only the seconds before the next slot set it.
NodesResync ==
  \A n \in Nodes :
    <>[](n \in up \ stuck) /\ []<><<Produced>>_vars => <>[](n \in enabled)
=============================================================================
