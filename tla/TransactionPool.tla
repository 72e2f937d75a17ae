--------------------------- MODULE TransactionPool ---------------------------
(***************************************************************************)
(* The life of a transaction on one node: _push_transaction, the pending   *)
(* session, _generate_block, the checks of _apply_transaction (duplicate,  *)
(* reference block, expiration, bonus), and what a new block or a fork     *)
(* switch does to all of them (db_block.cpp, db_with.hpp, db_update.cpp).  *)
(*                                                                         *)
(* A transaction is [name, num, ref, exp]: what it does, the number (in    *)
(* the summaries' range) and id of the block it refers to, its expiration. *)
(* The bonus transaction that a witness adds to its block is named after   *)
(* the witness, Own on this node and Peer on the others.  Block ids are    *)
(* numbers given out as blocks are made, on whatever branch; 0 is the id   *)
(* that an unused block summary holds.                                     *)
(***************************************************************************)
EXTENDS Integers, Sequences, FiniteSets, FiniteSetsExt, Functions

CONSTANTS
  Names,         \* what users' transactions do
  Own, Peer,     \* the witnesses, naming their bonus transactions
  Life,          \* expiration that users ask for, counted from the head block
  BonusLife,     \* the same for bonus transactions (30 s)
  MaxLife,       \* maximum_time_until_expiration
  Summaries,     \* how many block summaries there are (0xffff + 1)
  BlockSize,     \* maximum_block_size; a pending transaction has size 1
  Growth,        \* how much a transaction may grow when it is applied
  BonusLimit,    \* how many bonuses there are to pay
  MaxBlocks,     \* bound: blocks made
  MaxSent        \* bound: transactions users make

ASSUME PoolAssumption ==
  /\ Own \notin Names /\ Peer \notin Names /\ Own # Peer
  /\ {Life, BonusLife, MaxLife, BlockSize, Growth, BonusLimit} \subseteq Nat
  /\ {MaxBlocks, MaxSent} \subseteq Nat
  /\ Life <= MaxLife /\ BonusLife <= MaxLife
  /\ Summaries \in Nat \ {0}

VARIABLES
  chain,     \* the applied blocks: [id, time, by, txs]
  pending,   \* _pending_tx
  session,   \* _pending_tx_session.valid()
  applied,   \* the transactions applied in the pending session
  sent,      \* the transactions users have made
  born       \* blocks made so far, on any branch

vars == <<chain, pending, session, applied, sent, born>>

head_block_time(c) == IF c = <<>> THEN 0 ELSE c[Len(c)].time

head_block_id(c) == IF c = <<>> THEN 0 ELSE c[Len(c)].id

pop_block(c) == SubSeq(c, 1, Len(c) - 1)

Included(c) == UNION {Range(c[i].txs) : i \in DOMAIN c}

Bonuses(txs) == {t \in txs : t.name \in {Own, Peer}}

(***************************************************************************)
(* Applying a transaction                                                  *)
(***************************************************************************)

\* Mutant: a transaction is forgotten in the second in which it expires.
ForgottenEarly(c) == {t \in Included(c) : head_block_time(c) < t.exp}

\* The transaction index at the head of c: clear_expired_transactions removes
\* what the head block's time is past the expiration of.
transaction_index(c) == {t \in Included(c) : ~(head_block_time(c) > t.exp)}

\* The id in block summary n: create_block_summary writes it for each block
\* whose number is n in the summaries' range, undoing a block restores it.
block_summary(c, n) ==
  LET at == {i \in DOMAIN c : i % Summaries = n}
  IN IF at = {} THEN 0 ELSE c[Max(at)].id

\* Mutant: the reference block is not looked at.
AppliesAnywhere(c, done, t) ==
  /\ t \notin transaction_index(c) \cup done
  /\ c # <<>> => head_block_time(c) \in (t.exp - MaxLife)..(t.exp)
  /\ t.name \in {Own, Peer} =>
       Cardinality(Bonuses(Included(c) \cup done)) < BonusLimit

\* Whether _apply_transaction(t) succeeds at the head of c once the transactions
\* of done have been applied there.
_apply_transaction(c, done, t) ==
  /\ t \notin transaction_index(c) \cup done
  /\ c # <<>> => /\ block_summary(c, t.num) = t.ref
                 /\ t.exp <= head_block_time(c) + MaxLife
                 /\ head_block_time(c) <= t.exp
  /\ t.name \in {Own, Peer} =>
       Cardinality(Bonuses(Included(c) \cup done)) < BonusLimit

\* Whether _apply_block(b) succeeds: every transaction applies and, unless the
\* bonuses are used up by then, at most one is a bonus and it is its witness's.
_apply_block(c, b) ==
  LET done == Range(b.txs)
  IN /\ \A i \in DOMAIN b.txs :
          _apply_transaction(c, {b.txs[k] : k \in 1..(i - 1)}, b.txs[i])
     /\ head_block_time(c) < b.time
     /\ Cardinality(Bonuses(Included(c) \cup done)) < BonusLimit =>
          /\ Cardinality(Bonuses(done)) <= 1
          /\ \A t \in Bonuses(done) : t.name = b.by

(***************************************************************************)
(* The pending transactions: [txs, session, applied]                       *)
(***************************************************************************)

Pool == [txs |-> pending, session |-> session, applied |-> applied]

NoPending == [txs |-> <<>>, session |-> FALSE, applied |-> {}]

\* _push_transaction: a session is started where there is none, whether or not
\* the transaction then applies.
_push_transaction(c, p, t) ==
  LET done == IF p.session THEN p.applied ELSE {}
      ok == _apply_transaction(c, done, t)
  IN [txs |-> IF ok THEN Append(p.txs, t) ELSE p.txs,
      session |-> TRUE,
      applied |-> IF ok THEN done \cup {t} ELSE done]

\* A transaction is pushed again unless it is known.
Restore(c, q, t) ==
  IF t \in transaction_index(c) \cup q.applied THEN q ELSE _push_transaction(c, q, t)

RestoreAll(c, txs) ==
  LET restored[i \in 0..Len(txs)] ==
        IF i = 0 THEN NoPending ELSE Restore(c, restored[i - 1], txs[i])
  IN  restored[Len(txs)]

\* Mutant: what the blocks that were popped held is not pushed again.
RestorePending(c, popped, p) == RestoreAll(c, p)

\* What the popped blocks held, then what was pending.
pending_transactions_restorer(c, popped, p) == RestoreAll(c, popped \o p)

(***************************************************************************)
(* Making a block                                                          *)
(***************************************************************************)

BonusTx(c, who) ==
  [name |-> who, num |-> Len(c) % Summaries, ref |-> head_block_id(c),
   exp |-> head_block_time(c) + BonusLife]

\* Mutant: bonuses that were left pending stay there.
BonusLeftPending(txs) == txs

\* The bonus transactions that are pending are dropped, but not from the session.
DropBonuses(txs) ==
  LET kept[i \in 0..Len(txs)] ==
        IF i = 0 THEN <<>>
        ELSE IF txs[i].name \in {Own, Peer} THEN kept[i - 1]
        ELSE Append(kept[i - 1], txs[i])
  IN  kept[Len(txs)]

BonusAvailable(c, p) == Cardinality(Bonuses(Included(c) \cup p.applied)) < BonusLimit

\* check_and_add_bonus throws when its transaction does not apply.
BonusFails(c, p) ==
  BonusAvailable(c, p) /\ ~_apply_transaction(c, p.applied, BonusTx(c, Own))

\* What is pending once check_and_add_bonus has put the bonus in front.
check_and_add_bonus(c, p) ==
  LET txs == DropBonuses(p.txs)
  IN IF BonusAvailable(c, p) THEN <<BonusTx(c, Own)>> \o txs ELSE txs

\* A transaction that does not apply is left out of the block, and one that
\* would make it too big is postponed.
Fill(c, b, t) ==
  IF b.size + 1 >= BlockSize \/ ~_apply_transaction(c, Range(b.txs), t) THEN b
  ELSE [size |-> b.size + 1 + Growth, txs |-> Append(b.txs, t)]

\* The transactions that go into the block, applied one after the other to the
\* head block's state.
Filled(c, txs) ==
  LET filled[i \in 0..Len(txs)] ==
        IF i = 0 THEN [size |-> 0, txs |-> <<>>] ELSE Fill(c, filled[i - 1], txs[i])
  IN  filled[Len(txs)]

NewBlock(time, by, txs) == [id |-> born + 1, time |-> time, by |-> by, txs |-> txs]

Become(c, p) ==
  /\ chain' = c
  /\ pending' = p.txs
  /\ session' = p.session
  /\ applied' = p.applied

\* Whether _generate_block gets to the end at the time given: the bonus applies,
\* the block is not too big, and the database accepts it.
Generates(time) ==
  LET b == Filled(chain, check_and_add_bonus(chain, Pool))
  IN /\ ~BonusFails(chain, Pool)
     /\ b.size <= BlockSize
     /\ _apply_block(chain, NewBlock(time, Own, b.txs))

(***************************************************************************)
(* Operations                                                              *)
(***************************************************************************)

Times == {head_block_time(chain) + 1, head_block_time(chain) + 2}

Init ==
  /\ chain = <<>>
  /\ pending = <<>>
  /\ session = FALSE
  /\ applied = {}
  /\ sent = {}
  /\ born = 0

\* A user makes a transaction that refers to the head block this node reports.
Make(name) ==
  /\ Cardinality(sent) < MaxSent
  /\ sent' = sent \cup {[name |-> name, num |-> Len(chain) % Summaries,
                         ref |-> head_block_id(chain),
                         exp |-> head_block_time(chain) + Life]}
  /\ UNCHANGED <<chain, pending, session, applied, born>>

\* It reaches this node, once or several times, at any later moment.
push_transaction(t) ==
  /\ Become(chain, _push_transaction(chain, Pool, t))
  /\ UNCHANGED <<sent, born>>

\* This node's witness makes a block.  Where a step fails, the exception leaves
\* the pending transactions as that step found them.
generate_block(time) ==
  LET txs == check_and_add_bonus(chain, Pool)
      b == Filled(chain, txs)
      blk == NewBlock(time, Own, b.txs)
      after == IF _apply_block(chain, blk) THEN Append(chain, blk) ELSE chain
  IN /\ born < MaxBlocks
     /\ IF BonusFails(chain, Pool)
        THEN Become(chain, [Pool EXCEPT !.txs = DropBonuses(pending), !.session = TRUE])
        ELSE IF b.size > BlockSize
        THEN Become(chain, [NoPending EXCEPT !.txs = txs])
        ELSE Become(after, pending_transactions_restorer(after, <<>>, txs))
     /\ born' = born + 1
     /\ UNCHANGED sent

\* The transactions that a peer's block on c may hold.
PeerTxs(c) ==
  {bonus \o user : bonus \in {<<>>, <<BonusTx(c, Peer)>>},
                   user \in {<<>>} \cup {<<t>> : t \in sent}}

\* A peer's block extends the head.
push_block(time, txs) ==
  LET blk == NewBlock(time, Peer, txs)
      c == Append(chain, blk)
  IN /\ born < MaxBlocks
     /\ _apply_block(chain, blk)
     /\ Become(c, pending_transactions_restorer(c, <<>>, pending))
     /\ born' = born + 1
     /\ UNCHANGED sent

\* A peer's branch of two blocks replaces the head block, whose transactions
\* pop_block keeps in _popped_tx.
switch_fork(time, txs, txs2) ==
  LET blk == NewBlock(time, Peer, txs)
      c == Append(pop_block(chain), blk)
      blk2 == [NewBlock(time + 1, Peer, txs2) EXCEPT !.id = born + 2]
      c2 == Append(c, blk2)
  IN /\ born + 2 <= MaxBlocks
     /\ _apply_block(pop_block(chain), blk)
     /\ _apply_block(c, blk2)
     /\ Become(c2, pending_transactions_restorer(c2, chain[Len(chain)].txs, pending))
     /\ born' = born + 2
     /\ UNCHANGED sent

Next ==
  \/ \E name \in Names : Make(name)
  \/ \E t \in sent : push_transaction(t)
  \/ \E time \in Times : generate_block(time)
  \/ \E time \in Times : \E txs \in PeerTxs(chain) : push_block(time, txs)
  \/ /\ chain # <<>>
     /\ \E txs \in PeerTxs(pop_block(chain)) :
          LET time == head_block_time(pop_block(chain)) + 1
              c == Append(pop_block(chain), NewBlock(time, Peer, txs))
          IN \E txs2 \in PeerTxs(c) : switch_fork(time, txs, txs2)

Spec == Init /\ [][Next]_vars

(***************************************************************************)
(* Properties                                                              *)
(***************************************************************************)

\* No transaction is applied twice on a chain (the transaction index forgets a
\* transaction only once its expiration keeps it out), whichever blocks,
\* switches and repeated pushes it went through.
AppliedOnce ==
  \A i, j \in DOMAIN chain : \A k \in DOMAIN chain[i].txs, l \in DOMAIN chain[j].txs :
    chain[i].txs[k] = chain[j].txs[l] => i = j /\ k = l

\* A transaction is only in a chain that holds the block it refers to, below
\* the block it is in (TaPoS in _apply_transaction); block 1 is not checked.
OnReferencedChain ==
  \A i \in DOMAIN chain : i > 1 =>
    \A t \in Range(chain[i].txs) :
      t.ref = 0 \/ \E j \in 1..(i - 1) : chain[j].id = t.ref

\* The witness can always make its block: its bonus applies on top of whatever
\* is pending, the block respects maximum_block_size although transactions
\* grow, and the database accepts it.
GenerationSucceeds == \A time \in Times : Generates(time)

\* Whatever happens to the chain, a pending transaction or one of a block that
\* is popped is in the chain or pending afterwards, unless it expired or the
\* block that it refers to is gone; bonuses of other blocks may be dropped.
NothingDropped ==
  [][\A t \in Range(pending) \cup Included(chain) :
       \/ t \in Included(chain') \cup Range(pending')
       \/ t.name \in {Own, Peer}
       \/ head_block_time(chain') > t.exp
       \/ block_summary(chain', t.num) # t.ref]_vars
=============================================================================
