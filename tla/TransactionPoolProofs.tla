------------------------ MODULE TransactionPoolProofs ------------------------
(***************************************************************************)
(* Proofs about module TransactionPool: no transaction is applied twice on *)
(* a chain, none is applied on a branch other than the one it refers to,   *)
(* and no change of the chain drops one.                                   *)
(***************************************************************************)
EXTENDS TransactionPool, FoldTheorems

(* Transactions. *)
Tx == [name : Names \cup {Own, Peer}, num : 0..(Summaries - 1),
       ref : 0..MaxBlocks, exp : Nat]

(* Blocks. *)
Block == [id : 1..MaxBlocks, time : Nat, by : {Own, Peer}, txs : Seq(Tx)]
-----------------------------------------------------------------------------
(***************************************************************************)
(* Chains.  Every block was applied on top of the blocks below it.         *)
(***************************************************************************)
Below(c, i) == SubSeq(c, 1, i - 1)

(* No block is more than two slots later than the one below it, as in      *)
(* Times and switch_fork.                                                  *)
Grown(c) ==
  \A i \in 1..Len(c) :
    /\ _apply_block(Below(c, i), c[i])
    /\ c[i].time <= head_block_time(Below(c, i)) + 2

(* The blocks below block i. *)
LEMMA BelowType ==
  ASSUME NEW c \in Seq(Block), NEW i \in 1..(Len(c) + 1)
  PROVE  /\ Below(c, i) \in Seq(Block) /\ Len(Below(c, i)) = i - 1
         /\ \A j \in 1..(i - 1) : Below(c, i)[j] = c[j]
<1>1. i - 1 \in 0..Len(c)  OBVIOUS
<1> QED BY <1>1, Prefix DEF Below

(* The time and the id of the head block. *)
LEMMA HeadType ==
  ASSUME NEW c \in Seq(Block)
  PROVE  head_block_time(c) \in Nat /\ head_block_id(c) \in 0..MaxBlocks
<1>1. CASE c = <<>>  BY <1>1, PoolAssumption DEF head_block_time, head_block_id
<1>2. CASE c # <<>>
  <2>1. c[Len(c)] \in Block  BY <1>2
  <2>2. c[Len(c)].time \in Nat /\ c[Len(c)].id \in 0..MaxBlocks  BY <2>1 DEF Block
  <2> QED BY <1>2, <2>2 DEF head_block_time, head_block_id
<1> QED BY <1>1, <1>2

(* What a block adds to a chain. *)
LEMMA Appended ==
  ASSUME NEW c \in Seq(Block), NEW b \in Block
  PROVE  /\ Append(c, b) \in Seq(Block) /\ head_block_time(Append(c, b)) = b.time
         /\ Append(c, b) # <<>>
         /\ Included(Append(c, b)) = Included(c) \cup Range(b.txs)
<1> DEFINE a == Append(c, b)
<1>1. /\ a \in Seq(Block) /\ Len(a) = Len(c) + 1 /\ a # <<>> /\ a[Len(a)] = b
      /\ DOMAIN a = DOMAIN c \cup {Len(a)} /\ \A i \in DOMAIN c : a[i] = c[i]
      OBVIOUS
<1> HIDE DEF a
<1>2. head_block_time(a) = b.time  BY <1>1 DEF head_block_time
<1>3. Included(a) = Included(c) \cup Range(b.txs)  BY <1>1 DEF Included
<1> QED BY <1>1, <1>2, <1>3 DEF a

(* A chain grows by a block that is applied to it. *)
LEMMA GrownAppend ==
  ASSUME NEW c \in Seq(Block), Grown(c), NEW b \in Block, _apply_block(c, b),
         b.time <= head_block_time(c) + 2
  PROVE  Grown(Append(c, b))
<1> DEFINE a == Append(c, b)
<1>1. Len(a) = Len(c) + 1 /\ a[Len(c) + 1] = b /\ \A i \in 1..Len(c) : a[i] = c[i]
      OBVIOUS
<1>2. ASSUME NEW i \in 1..Len(c) PROVE Below(a, i) = Below(c, i)
  <2>1. i - 1 \in 0..Len(c)  OBVIOUS
  <2> QED BY <2>1, PrefixAppend DEF Below
<1>3. Below(a, Len(c) + 1) = c
  <2>1. Len(c) \in 0..Len(c) /\ (Len(c) + 1) - 1 = Len(c)  OBVIOUS
  <2>2. SubSeq(a, 1, Len(c)) = SubSeq(c, 1, Len(c))  BY <2>1, PrefixAppend
  <2> QED BY <2>1, <2>2, PrefixWhole DEF Below
<1> HIDE DEF a
<1>4. ASSUME NEW i \in 1..Len(a)
      PROVE  _apply_block(Below(a, i), a[i]) /\ a[i].time <= head_block_time(Below(a, i)) + 2
  <2>1. CASE i \in 1..Len(c)  BY <1>1, <1>2, <2>1 DEF Grown
  <2>2. CASE i = Len(c) + 1  BY <1>1, <1>3, <2>2
  <2>3. Len(c) \in Nat  OBVIOUS
  <2> QED BY <1>1, <2>1, <2>2, <2>3
<1> QED BY <1>4 DEF Grown, a

(* What is left once the head block is popped, and what the head block     *)
(* held.                                                                   *)
LEMMA GrownPop ==
  ASSUME NEW c \in Seq(Block), c # <<>>, Grown(c)
  PROVE  /\ pop_block(c) \in Seq(Block) /\ Grown(pop_block(c))
         /\ c[Len(c)] \in Block /\ Included(c) = Included(pop_block(c)) \cup Range(c[Len(c)].txs)
         /\ head_block_time(c) <= head_block_time(pop_block(c)) + 2
<1> DEFINE p == pop_block(c)
           n == Len(c) - 1
<1>1. n \in 0..Len(c) /\ Len(c) \in 1..Len(c)  OBVIOUS
<1>2. p \in Seq(Block) /\ Len(p) = n /\ \A i \in 1..n : p[i] = c[i]
      BY <1>1, Prefix DEF pop_block
<1>3. ASSUME NEW i \in 1..n PROVE Below(p, i) = Below(c, i)
  <2>1. i - 1 \in 0..n  OBVIOUS
  <2> QED BY <1>1, <2>1, PrefixPrefix DEF Below, pop_block
<1>4. p = Below(c, Len(c)) /\ c[Len(c)] \in Block  BY <1>1 DEF pop_block, Below
<1>5. \A i \in 1..n : i \in 1..Len(c)  OBVIOUS
<1>6. DOMAIN c = DOMAIN p \cup {Len(c)} /\ \A i \in DOMAIN p : p[i] = c[i]  BY <1>2
<1> HIDE DEF p
<1>7. Grown(p)
  <2> HIDE DEF n
  <2> QED BY <1>2, <1>3, <1>5 DEF Grown
<1>8. Included(c) = Included(p) \cup Range(c[Len(c)].txs)  BY <1>6 DEF Included
<1>9. head_block_time(c) <= head_block_time(p) + 2
      BY <1>1, <1>4 DEF Grown, head_block_time
<1> QED BY <1>2, <1>4, <1>7, <1>8, <1>9 DEF p

(* On a grown chain a transaction is in one place only: a second one is    *)
(* kept out by the index as long as the first is there, and then by its    *)
(* expiration.                                                             *)
LEMMA TwoBlocks ==
  ASSUME NEW c \in Seq(Block), Grown(c), NEW i \in 1..Len(c), NEW j \in 1..Len(c), i < j,
         NEW k \in DOMAIN c[i].txs, NEW l \in DOMAIN c[j].txs
  PROVE  c[i].txs[k] # c[j].txs[l]
<1> DEFINE p == Below(c, j)
           t == c[j].txs[l]
<1> SUFFICES ASSUME c[i].txs[k] = t PROVE FALSE  OBVIOUS
<1>1. j \in 1..(Len(c) + 1) /\ i \in 1..(j - 1)  OBVIOUS
<1>2. p \in Seq(Block) /\ Len(p) = j - 1 /\ p[i] = c[i]  BY <1>1, BelowType
<1>3. t \in Tx
  <2>1. c[j] \in Block  OBVIOUS
  <2>2. c[j].txs \in Seq(Tx)  BY <2>1 DEF Block
  <2> QED BY <2>2
<1>4. _apply_block(p, c[j])  BY DEF Grown
<1> HIDE DEF p
<1>5. \A h \in DOMAIN c[j].txs :
        _apply_transaction(p, {c[j].txs[g] : g \in 1..(h - 1)}, c[j].txs[h])
      BY <1>4 DEF _apply_block
<1>6. t \notin transaction_index(p) /\ (p # <<>> => head_block_time(p) <= t.exp)
      BY <1>5 DEF _apply_transaction
<1>7. i \in DOMAIN p /\ p # <<>>  BY <1>1, <1>2
<1>8. t \in Included(p)
  <2>1. t \in Range(p[i].txs)  BY <1>2 DEF Range
  <2> QED BY <1>7, <2>1 DEF Included
<1>9. head_block_time(p) \in Nat /\ t.exp \in Nat  BY <1>2, <1>3, HeadType DEF Tx
<1> HIDE DEF t
<1>10. head_block_time(p) > t.exp  BY <1>6, <1>8 DEF transaction_index
<1> QED BY <1>6, <1>7, <1>9, <1>10

(* Nor is it twice in one block. *)
LEMMA OneBlock ==
  ASSUME NEW c \in Seq(Block), Grown(c), NEW i \in 1..Len(c),
         NEW k \in DOMAIN c[i].txs, NEW l \in DOMAIN c[i].txs, k < l
  PROVE  c[i].txs[k] # c[i].txs[l]
<1> DEFINE txs == c[i].txs
<1>0. c[i] \in Block  OBVIOUS
<1>1. txs \in Seq(Tx)  BY <1>0 DEF Block
<1>2. _apply_block(Below(c, i), c[i])  BY DEF Grown
<1>3. \A h \in DOMAIN txs : _apply_transaction(Below(c, i), {txs[g] : g \in 1..(h - 1)}, txs[h])
      BY <1>2 DEF _apply_block
<1>4. txs[l] \notin {txs[g] : g \in 1..(l - 1)}  BY <1>3 DEF _apply_transaction
<1> HIDE DEF txs
<1>5. k \in 1..(l - 1)
  <2>1. k \in 1..Len(txs) /\ l \in 1..Len(txs) /\ Len(txs) \in Nat  BY <1>1 DEF txs
  <2> QED BY <2>1
<1>6. txs[k] \in {txs[g] : g \in 1..(l - 1)}  BY <1>5
<1> QED BY <1>4, <1>6 DEF txs

(* The two cases together. *)
LEMMA GrownOnce ==
  ASSUME NEW c \in Seq(Block), Grown(c), NEW i \in DOMAIN c, NEW j \in DOMAIN c,
         NEW k \in DOMAIN c[i].txs, NEW l \in DOMAIN c[j].txs, c[i].txs[k] = c[j].txs[l]
  PROVE  i = j /\ k = l
<1>1. i \in 1..Len(c) /\ j \in 1..Len(c)  OBVIOUS
<1>2. i = j
  <2>1. ~(i < j) /\ ~(j < i)  BY <1>1, TwoBlocks
  <2>2. i \in Int /\ j \in Int  BY <1>1
  <2> QED BY <2>1, <2>2
<1>3. k = l
  <2>0. c[i] \in Block /\ c[j] \in Block  BY <1>1
  <2>1. k \in Int /\ l \in Int
    <3>1. c[i].txs \in Seq(Tx) /\ c[j].txs \in Seq(Tx)  BY <2>0 DEF Block
    <3> QED BY <3>1
  <2>2. ~(k < l) /\ ~(l < k)  BY <1>1, <1>2, OneBlock
  <2> QED BY <2>1, <2>2
<1> QED BY <1>2, <1>3

(* Above block 1, the block that a transaction refers to is below its own. *)
LEMMA GrownReferenced ==
  ASSUME NEW c \in Seq(Block), Grown(c), NEW i \in DOMAIN c, i > 1, NEW t \in Range(c[i].txs)
  PROVE  t.ref = 0 \/ \E j \in 1..(i - 1) : c[j].id = t.ref
<1> DEFINE p == Below(c, i)
           at == {j \in DOMAIN p : j % Summaries = t.num}
<1>1. i \in 1..Len(c) /\ i \in 1..(Len(c) + 1) /\ i - 1 \in Nat  OBVIOUS
<1>2. p \in Seq(Block) /\ Len(p) = i - 1 /\ \A j \in 1..(i - 1) : p[j] = c[j]
      BY <1>1, BelowType
<1>3. PICK k \in DOMAIN c[i].txs : t = c[i].txs[k]  BY DEF Range
<1>4. _apply_block(p, c[i])  BY <1>1 DEF Grown
<1> HIDE DEF p
<1>5. \A h \in DOMAIN c[i].txs :
        _apply_transaction(p, {c[i].txs[g] : g \in 1..(h - 1)}, c[i].txs[h])
      BY <1>4 DEF _apply_block
<1>6. p # <<>>  BY <1>1, <1>2
<1>7. block_summary(p, t.num) = t.ref  BY <1>3, <1>5, <1>6 DEF _apply_transaction
<1>8. t.ref = IF at = {} THEN 0 ELSE p[Max(at)].id  BY <1>7 DEF block_summary
<1>9. at \in SUBSET (1..(i - 1))  BY <1>2
<1> HIDE DEF at
<1>10. CASE at = {}  BY <1>8, <1>10
<1>11. CASE at # {}
  <2>1. Max(at) \in 1..(i - 1)  BY <1>1, <1>9, <1>11, MaxIn
  <2> QED BY <1>2, <1>8, <1>11, <2>1
<1> QED BY <1>10, <1>11
-----------------------------------------------------------------------------
(***************************************************************************)
(* The loops over transactions.                                            *)
(***************************************************************************)
Fillings == [size : Nat, txs : Seq(Tx)]

(* The records of the pending transactions. *)
Pools == [txs : Seq(Tx), session : BOOLEAN, applied : SUBSET Tx]

(* DropBonuses as a run through its transactions. *)
LEMMA DropRuns ==
  ASSUME NEW txs \in Seq(Tx)
  PROVE  \E run \in [0..Len(txs) -> Seq(Tx)] :
           /\ DropBonuses(txs) = run[Len(txs)] /\ run[0] = <<>>
           /\ \A i \in 1..Len(txs) : run[i] = IF txs[i].name \in {Own, Peer} THEN run[i - 1]
                                                 ELSE Append(run[i - 1], txs[i])
<1> DEFINE n == Len(txs)
           M == Seq(Tx)
           base == <<>>
           Step(s, i) == IF txs[i].name \in {Own, Peer} THEN s ELSE Append(s, txs[i])
           step == [p \in (1..n) \X M |-> Step(p[2], p[1])]
           E(g) == g = [i \in 0..n |-> IF i = 0 THEN base ELSE Step(g[i - 1], i)]
           kept == CHOOSE g : E(g)
<1>1. n \in Nat  OBVIOUS
<1>2. base \in M  OBVIOUS
<1>3. ASSUME NEW i \in 1..n, NEW s \in M PROVE Step(s, i) \in M
  <2>1. txs[i] \in Tx  OBVIOUS
  <2> QED BY <2>1
<1>4. DropBonuses(txs) = kept[n]  BY DEF DropBonuses
<1> HIDE DEF M, base, Step
<1>5. ASSUME NEW i \in 1..n, NEW s \in M PROVE step[<<i, s>>] = Step(s, i)  OBVIOUS
<1> HIDE DEF step
<1>6. StaysIn(step, 1..n, M)  BY <1>3, <1>5 DEF StaysIn
<1>7. PICK run \in [0..n -> M] : RunsBy(run, n, base, step)
  <2> HIDE DEF n
  <2> QED BY <1>1, <1>2, <1>6, RunExists
<1>8. ASSUME NEW i \in 0..n PROVE run[i] = IF i = 0 THEN base ELSE Step(run[i - 1], i)
  <2>1. CASE i = 0  BY <1>7, <2>1 DEF RunsBy
  <2>2. CASE i # 0
    <3>1. i \in 1..n /\ i - 1 \in 0..n  BY <1>1, <2>2
    <3>2. step[<<i, run[i - 1]>>] = Step(run[i - 1], i)  BY <1>5, <1>7, <3>1
    <3> QED BY <1>7, <2>2, <3>2 DEF RunsBy
  <2> QED BY <2>1, <2>2
<1>9. E(run)  BY <1>7, <1>8
<1>10. E(kept)  BY <1>9
<1> HIDE DEF kept
<1>11. kept = run
  <2>1. RunsTo(kept, n) /\ RunsTo(run, n)  BY <1>7, <1>10 DEF RunsTo
  <2>2. \A i \in 0..n : kept[i] = IF i = 0 THEN base ELSE Step(kept[i - 1], i)  BY <1>10
  <2>3. kept[0] = run[0]  BY <1>1, <1>8, <2>2
  <2>4. ASSUME NEW i \in 1..n, kept[i - 1] = run[i - 1] PROVE kept[i] = run[i]
    <3>1. i \in 0..n /\ i # 0  BY <1>1
    <3>2. run[i] = Step(run[i - 1], i) /\ kept[i] = Step(kept[i - 1], i)  BY <1>8, <2>2, <3>1
    <3> QED BY <2>4, <3>2
  <2>5. RunAlike(kept, run, n)  BY <2>3, <2>4 DEF RunAlike
  <2> QED BY <1>1, <2>1, <2>5, RunUnique
<1>12. run[0] = base /\ \A i \in 1..n : run[i] = Step(run[i - 1], i)
  <2>1. 0 \in 0..n /\ \A i \in 1..n : i \in 0..n /\ i # 0  BY <1>1
  <2> HIDE DEF n
  <2> QED BY <1>8, <2>1
<1>13. DropBonuses(txs) = run[n]  BY <1>4, <1>11
<1> QED BY <1>7, <1>12, <1>13 DEF M, base, Step

(* Filled as a run through its transactions. *)
FillsBy(run, c, txs) ==
  /\ Filled(c, txs) = run[Len(txs)] /\ run[0] = [size |-> 0, txs |-> <<>>]
  /\ \A i \in 1..Len(txs) : run[i] = Fill(c, run[i - 1], txs[i])

(* There is such a run, of block fillings. *)
LEMMA FillRuns ==
  ASSUME NEW c, NEW txs \in Seq(Tx)
  PROVE  \E run \in [0..Len(txs) -> Fillings] : FillsBy(run, c, txs)
<1> DEFINE n == Len(txs)
           M == Fillings
           base == [size |-> 0, txs |-> <<>>]
           Step(s, i) == Fill(c, s, txs[i])
           step == [p \in (1..n) \X M |-> Step(p[2], p[1])]
           E(g) == g = [i \in 0..n |-> IF i = 0 THEN base ELSE Step(g[i - 1], i)]
           filled == CHOOSE g : E(g)
<1>1. n \in Nat  OBVIOUS
<1>2. base \in M  BY DEF Fillings
<1>3. ASSUME NEW i \in 1..n, NEW s \in M PROVE Step(s, i) \in M
  <2>1. txs[i] \in Tx  OBVIOUS
  <2> QED BY <2>1, PoolAssumption DEF Fill, Fillings
<1>4. Filled(c, txs) = filled[n]  BY DEF Filled
<1> HIDE DEF M, base, Step
<1>5. ASSUME NEW i \in 1..n, NEW s \in M PROVE step[<<i, s>>] = Step(s, i)  OBVIOUS
<1> HIDE DEF step
<1>6. StaysIn(step, 1..n, M)  BY <1>3, <1>5 DEF StaysIn
<1>7. PICK run \in [0..n -> M] : RunsBy(run, n, base, step)
  <2> HIDE DEF n
  <2> QED BY <1>1, <1>2, <1>6, RunExists
<1>8. ASSUME NEW i \in 0..n PROVE run[i] = IF i = 0 THEN base ELSE Step(run[i - 1], i)
  <2>1. CASE i = 0  BY <1>7, <2>1 DEF RunsBy
  <2>2. CASE i # 0
    <3>1. i \in 1..n /\ i - 1 \in 0..n  BY <1>1, <2>2
    <3>2. step[<<i, run[i - 1]>>] = Step(run[i - 1], i)  BY <1>5, <1>7, <3>1
    <3> QED BY <1>7, <2>2, <3>2 DEF RunsBy
  <2> QED BY <2>1, <2>2
<1>9. E(run)  BY <1>7, <1>8
<1>10. E(filled)  BY <1>9
<1> HIDE DEF filled
<1>11. filled = run
  <2>1. RunsTo(filled, n) /\ RunsTo(run, n)  BY <1>7, <1>10 DEF RunsTo
  <2>2. \A i \in 0..n : filled[i] = IF i = 0 THEN base ELSE Step(filled[i - 1], i)  BY <1>10
  <2>3. filled[0] = run[0]  BY <1>1, <1>8, <2>2
  <2>4. ASSUME NEW i \in 1..n, filled[i - 1] = run[i - 1] PROVE filled[i] = run[i]
    <3>1. i \in 0..n /\ i # 0  BY <1>1
    <3>2. run[i] = Step(run[i - 1], i) /\ filled[i] = Step(filled[i - 1], i)  BY <1>8, <2>2, <3>1
    <3> QED BY <2>4, <3>2
  <2>5. RunAlike(filled, run, n)  BY <2>3, <2>4 DEF RunAlike
  <2> QED BY <1>1, <2>1, <2>5, RunUnique
<1>12. run[0] = base /\ \A i \in 1..n : run[i] = Step(run[i - 1], i)
  <2>1. 0 \in 0..n /\ \A i \in 1..n : i \in 0..n /\ i # 0  BY <1>1
  <2> HIDE DEF n
  <2> QED BY <1>8, <2>1
<1>13. Filled(c, txs) = run[n]  BY <1>4, <1>11
<1> QED BY <1>7, <1>12, <1>13 DEF M, base, Step, FillsBy

(* RestoreAll as a run through its transactions. *)
RestoresBy(run, c, txs) ==
  /\ RestoreAll(c, txs) = run[Len(txs)] /\ run[0] = NoPending
  /\ \A i \in 1..Len(txs) : run[i] = Restore(c, run[i - 1], txs[i])

(* There is such a run, of pools. *)
LEMMA RestoreRuns ==
  ASSUME NEW c, NEW txs \in Seq(Tx)
  PROVE  \E run \in [0..Len(txs) -> Pools] : RestoresBy(run, c, txs)
<1> DEFINE n == Len(txs)
           M == Pools
           base == NoPending
           Step(s, i) == Restore(c, s, txs[i])
           step == [p \in (1..n) \X M |-> Step(p[2], p[1])]
           E(g) == g = [i \in 0..n |-> IF i = 0 THEN base ELSE Step(g[i - 1], i)]
           restored == CHOOSE g : E(g)
<1>1. n \in Nat  OBVIOUS
<1>2. base \in M  BY DEF NoPending, Pools
<1>3. ASSUME NEW i \in 1..n, NEW s \in M PROVE Step(s, i) \in M
  <2>1. txs[i] \in Tx  OBVIOUS
  <2> QED BY <2>1 DEF Restore, _push_transaction, Pools
<1>4. RestoreAll(c, txs) = restored[n]  BY DEF RestoreAll
<1> HIDE DEF M, base, Step
<1>5. ASSUME NEW i \in 1..n, NEW s \in M PROVE step[<<i, s>>] = Step(s, i)  OBVIOUS
<1> HIDE DEF step
<1>6. StaysIn(step, 1..n, M)  BY <1>3, <1>5 DEF StaysIn
<1>7. PICK run \in [0..n -> M] : RunsBy(run, n, base, step)
  <2> HIDE DEF n
  <2> QED BY <1>1, <1>2, <1>6, RunExists
<1>8. ASSUME NEW i \in 0..n PROVE run[i] = IF i = 0 THEN base ELSE Step(run[i - 1], i)
  <2>1. CASE i = 0  BY <1>7, <2>1 DEF RunsBy
  <2>2. CASE i # 0
    <3>1. i \in 1..n /\ i - 1 \in 0..n  BY <1>1, <2>2
    <3>2. step[<<i, run[i - 1]>>] = Step(run[i - 1], i)  BY <1>5, <1>7, <3>1
    <3> QED BY <1>7, <2>2, <3>2 DEF RunsBy
  <2> QED BY <2>1, <2>2
<1>9. E(run)  BY <1>7, <1>8
<1>10. E(restored)  BY <1>9
<1> HIDE DEF restored
<1>11. restored = run
  <2>1. RunsTo(restored, n) /\ RunsTo(run, n)  BY <1>7, <1>10 DEF RunsTo
  <2>2. \A i \in 0..n : restored[i] = IF i = 0 THEN base ELSE Step(restored[i - 1], i)  BY <1>10
  <2>3. restored[0] = run[0]  BY <1>1, <1>8, <2>2
  <2>4. ASSUME NEW i \in 1..n, restored[i - 1] = run[i - 1] PROVE restored[i] = run[i]
    <3>1. i \in 0..n /\ i # 0  BY <1>1
    <3>2. run[i] = Step(run[i - 1], i) /\ restored[i] = Step(restored[i - 1], i)  BY <1>8, <2>2, <3>1
    <3> QED BY <2>4, <3>2
  <2>5. RunAlike(restored, run, n)  BY <2>3, <2>4 DEF RunAlike
  <2> QED BY <1>1, <2>1, <2>5, RunUnique
<1>12. run[0] = base /\ \A i \in 1..n : run[i] = Step(run[i - 1], i)
  <2>1. 0 \in 0..n /\ \A i \in 1..n : i \in 0..n /\ i # 0  BY <1>1
  <2> HIDE DEF n
  <2> QED BY <1>8, <2>1
<1>13. RestoreAll(c, txs) = run[n]  BY <1>4, <1>11
<1> QED BY <1>7, <1>12, <1>13 DEF M, base, Step, RestoresBy

(* Dropping the bonuses keeps every other transaction. *)
LEMMA BonusesDropped ==
  ASSUME NEW txs \in Seq(Tx)
  PROVE  /\ DropBonuses(txs) \in Seq(Tx) /\ Range(DropBonuses(txs)) \subseteq Range(txs)
         /\ \A t \in Range(txs) : t.name \notin {Own, Peer} => t \in Range(DropBonuses(txs))
<1> DEFINE n == Len(txs)
<1>1. PICK run \in [0..n -> Seq(Tx)] :
        /\ DropBonuses(txs) = run[n] /\ run[0] = <<>>
        /\ \A i \in 1..n : run[i] = IF txs[i].name \in {Own, Peer} THEN run[i - 1]
                                    ELSE Append(run[i - 1], txs[i])
      BY DropRuns
<1>2. n \in Nat /\ \A i \in 1..n : txs[i] \in Tx  OBVIOUS
<1>3. \A t : t \in Range(txs) <=> \E i \in 1..n : t = txs[i]  BY InRange
<1> HIDE DEF n
<1> DEFINE Good(i) == /\ Range(run[i]) \subseteq Range(txs)
                      /\ \A k \in 1..i : txs[k].name \notin {Own, Peer} => txs[k] \in Range(run[i])
           G == {i \in 0..n : Good(i)}
<1>4. 0 \in G
  <2>1. Range(<<>>) = {}  BY DEF Range
  <2> QED BY <1>1, <1>2, <2>1
<1>5. ASSUME NEW i \in 1..n, i - 1 \in G PROVE i \in G
  <2>1. i - 1 \in 0..n /\ i \in 0..n /\ Good(i - 1)  BY <1>2, <1>5
  <2>2. run[i - 1] \in Seq(Tx) /\ txs[i] \in Tx  BY <1>1, <1>2, <2>1
  <2>3. \A k \in 1..i : k \in 1..(i - 1) \/ k = i  OBVIOUS
  <2>4. CASE txs[i].name \in {Own, Peer}
    <3>1. run[i] = run[i - 1]  BY <1>1, <2>4
    <3> QED BY <2>1, <2>3, <2>4, <3>1
  <2>5. CASE txs[i].name \notin {Own, Peer}
    <3>1. run[i] = Append(run[i - 1], txs[i])  BY <1>1, <2>5
    <3>2. Range(run[i]) = Range(run[i - 1]) \cup {txs[i]}  BY <2>2, <3>1, RangeAppend
    <3>3. txs[i] \in Range(txs)  BY <1>3
    <3> QED BY <2>1, <2>3, <3>2, <3>3
  <2> QED BY <2>4, <2>5
<1> HIDE DEF G
<1>6. n \in G
  <2>1. \A i \in 0..n : i \in G  BY <1>2, <1>4, <1>5, UpToInduction
  <2> QED BY <1>2, <2>1
<1>7. Good(n)  BY <1>6 DEF G
<1>8. run[n] \in Seq(Tx)  BY <1>1, <1>2
<1> QED BY <1>1, <1>3, <1>7, <1>8

(* A block is filled with transactions that were given. *)
LEMMA FilledFrom ==
  ASSUME NEW c, NEW txs \in Seq(Tx)
  PROVE  Filled(c, txs).txs \in Seq(Tx) /\ Range(Filled(c, txs).txs) \subseteq Range(txs)
<1> DEFINE n == Len(txs)
<1>0. PICK run \in [0..n -> Fillings] : FillsBy(run, c, txs)  BY FillRuns
<1>1. /\ Filled(c, txs) = run[n] /\ run[0] = [size |-> 0, txs |-> <<>>]
      /\ \A i \in 1..n : run[i] = Fill(c, run[i - 1], txs[i])
      BY <1>0 DEF FillsBy
<1>2. n \in Nat /\ \A i \in 1..n : txs[i] \in Tx  OBVIOUS
<1>3. \A t : t \in Range(txs) <=> \E i \in 1..n : t = txs[i]  BY InRange
<1> HIDE DEF n
<1> DEFINE G == {i \in 0..n : Range(run[i].txs) \subseteq Range(txs)}
<1>4. 0 \in G
  <2>1. Range(<<>>) = {}  BY DEF Range
  <2> QED BY <1>1, <1>2, <2>1
<1>5. ASSUME NEW i \in 1..n, i - 1 \in G PROVE i \in G
  <2>1. i - 1 \in 0..n /\ i \in 0..n /\ Range(run[i - 1].txs) \subseteq Range(txs)  BY <1>2, <1>5
  <2>2. run[i - 1].txs \in Seq(Tx) /\ txs[i] \in Tx  BY <1>1, <1>2, <2>1 DEF Fillings
  <2>3. run[i].txs = run[i - 1].txs \/ run[i].txs = Append(run[i - 1].txs, txs[i])
    <3> DEFINE b == run[i - 1]
    <3>1. run[i] = Fill(c, b, txs[i])  BY <1>1
    <3> HIDE DEF b
    <3> QED BY <3>1 DEF Fill, b
  <2>4. Range(Append(run[i - 1].txs, txs[i])) = Range(run[i - 1].txs) \cup {txs[i]}
        BY <2>2, RangeAppend
  <2>5. txs[i] \in Range(txs)  BY <1>3
  <2>6. \/ Range(run[i].txs) = Range(run[i - 1].txs)
        \/ Range(run[i].txs) = Range(run[i - 1].txs) \cup {txs[i]}
        BY <2>3, <2>4
  <2>7. Range(run[i].txs) \subseteq Range(txs)  BY <2>1, <2>5, <2>6
  <2> QED BY <2>1, <2>7
<1> HIDE DEF G
<1>6. n \in G
  <2>1. \A i \in 0..n : i \in G  BY <1>2, <1>4, <1>5, UpToInduction
  <2> QED BY <1>2, <2>1
<1>7. Range(run[n].txs) \subseteq Range(txs)  BY <1>6 DEF G
<1>8. run[n] \in Fillings  BY <1>1, <1>2
<1> QED BY <1>1, <1>7, <1>8 DEF Fillings

(* t is not lost where c is the chain and txs are pending. *)
Kept(c, txs, t) ==
  \/ t \in Included(c) \cup Range(txs)
  \/ t.name \in {Own, Peer}
  \/ head_block_time(c) > t.exp
  \/ block_summary(c, t.num) # t.ref

(* A pool in which what is applied is what is pending. *)
Clean(q) == q \in Pools /\ q.applied = Range(q.txs) /\ (~q.session => q.applied = {})

(* Pushing a transaction again loses it for a reason only. *)
LEMMA RestoredOne ==
  ASSUME NEW c \in Seq(Block), NEW q, Clean(q), NEW t \in Tx,
         t.exp <= head_block_time(c) + MaxLife
  PROVE  LET r == Restore(c, q, t)
         IN  /\ Clean(r) /\ Kept(c, r.txs, t)
             /\ Range(q.txs) \subseteq Range(r.txs) /\ Range(r.txs) \subseteq Range(q.txs) \cup {t}
<1> DEFINE r == Restore(c, q, t)
           Goal == /\ Clean(r) /\ Kept(c, r.txs, t)
                   /\ Range(q.txs) \subseteq Range(r.txs)
                   /\ Range(r.txs) \subseteq Range(q.txs) \cup {t}
<1>1. q \in Pools /\ q.applied = Range(q.txs) /\ (~q.session => q.applied = {})  BY DEF Clean
<1>2. CASE t \in transaction_index(c) \cup q.applied
  <2>1. r = q  BY <1>2 DEF Restore
  <2>2. t \in Included(c) \cup Range(q.txs)  BY <1>1, <1>2 DEF transaction_index
  <2> QED BY <2>1, <2>2 DEF Kept
<1>3. CASE t \notin transaction_index(c) \cup q.applied
  <2> DEFINE ok == _apply_transaction(c, q.applied, t)
  <2>1. (IF q.session THEN q.applied ELSE {}) = q.applied  BY <1>1
  <2>2. r = [txs |-> IF ok THEN Append(q.txs, t) ELSE q.txs, session |-> TRUE,
             applied |-> IF ok THEN q.applied \cup {t} ELSE q.applied]
        BY <1>3, <2>1 DEF Restore, _push_transaction
  <2>3. q.txs \in Seq(Tx) /\ q.applied \in SUBSET Tx  BY <1>1 DEF Pools
  <2>4. CASE ok
    <3>1. r.txs = Append(q.txs, t) /\ r.applied = q.applied \cup {t} /\ r.session = TRUE
          BY <2>2, <2>4
    <3>2. Range(r.txs) = Range(q.txs) \cup {t}  BY <2>3, <3>1, RangeAppend
    <3>3. r \in Pools  BY <2>2, <2>3, <2>4 DEF Pools
    <3> HIDE DEF r
    <3>4. Clean(r)  BY <1>1, <3>1, <3>2, <3>3 DEF Clean
    <3>5. Kept(c, r.txs, t)  BY <3>2 DEF Kept
    <3> QED BY <3>2, <3>4, <3>5 DEF r
  <2>5. CASE ~ok
    <3>1. r.txs = q.txs /\ r.applied = q.applied /\ r.session = TRUE  BY <2>2, <2>5
    <3>2. r \in Pools  BY <2>2, <2>3, <2>5 DEF Pools
    <3>3. head_block_time(c) \in Nat /\ t.exp \in Nat  BY HeadType DEF Tx
    <3>4. \/ t.name \in {Own, Peer} \/ block_summary(c, t.num) # t.ref
          \/ ~(head_block_time(c) <= t.exp)
          BY <1>3, <2>5 DEF _apply_transaction
    <3>5. Kept(c, r.txs, t)  BY <3>3, <3>4 DEF Kept
    <3> HIDE DEF r
    <3>6. Clean(r)  BY <1>1, <3>1, <3>2 DEF Clean
    <3> QED BY <3>1, <3>5, <3>6 DEF r
  <2> QED BY <2>4, <2>5
<1>4. Goal  BY <1>2, <1>3
<1> QED BY <1>4

(* Restoring transactions loses none of them without a reason. *)
LEMMA Restored ==
  ASSUME NEW c \in Seq(Block), NEW txs \in Seq(Tx),
         \A t \in Range(txs) : t.exp <= head_block_time(c) + MaxLife
  PROVE  LET q == RestoreAll(c, txs)
         IN  /\ q \in Pools /\ Range(q.txs) \subseteq Range(txs)
             /\ \A t \in Range(txs) : Kept(c, q.txs, t)
<1> DEFINE n == Len(txs)
<1>0. PICK run \in [0..n -> Pools] : RestoresBy(run, c, txs)  BY RestoreRuns
<1>1. /\ RestoreAll(c, txs) = run[n] /\ run[0] = NoPending
      /\ \A i \in 1..n : run[i] = Restore(c, run[i - 1], txs[i])
      BY <1>0 DEF RestoresBy
<1>2. n \in Nat /\ \A i \in 1..n : txs[i] \in Tx  OBVIOUS
<1>3. \A t : t \in Range(txs) <=> \E i \in 1..n : t = txs[i]  BY InRange
<1> HIDE DEF n
<1> DEFINE Good(i) == /\ Clean(run[i]) /\ Range(run[i].txs) \subseteq Range(txs)
                      /\ \A k \in 1..i : Kept(c, run[i].txs, txs[k])
           G == {i \in 0..n : Good(i)}
<1>4. 0 \in G
  <2>1. Range(<<>>) = {}  BY DEF Range
  <2>2. NoPending \in Pools /\ NoPending.txs = <<>> /\ NoPending.applied = {}
        BY DEF NoPending, Pools
  <2>3. Clean(NoPending)  BY <2>1, <2>2 DEF Clean
  <2>4. Clean(run[0]) /\ Range(run[0].txs) = {}  BY <1>1, <2>1, <2>2, <2>3
  <2>5. 0 \in 0..n /\ 1..0 = {}  BY <1>2
  <2> QED BY <2>4, <2>5
<1>5. ASSUME NEW i \in 1..n, i - 1 \in G PROVE i \in G
  <2> DEFINE q == run[i - 1]
             t == txs[i]
             r == run[i]
  <2>1. i - 1 \in 0..n /\ i \in 0..n /\ Good(i - 1)  BY <1>2, <1>5
  <2>2. t \in Tx /\ t \in Range(txs) /\ r = Restore(c, q, t)  BY <1>1, <1>2, <1>3
  <2>3. \A k \in 1..i : k \in 1..(i - 1) \/ k = i  OBVIOUS
  <2>4. Clean(q) /\ Range(q.txs) \subseteq Range(txs) /\ \A k \in 1..(i - 1) : Kept(c, q.txs, txs[k])
        BY <2>1
  <2>5. t.exp <= head_block_time(c) + MaxLife  BY <2>2
  <2> HIDE DEF q, t, r
  <2>6. /\ Clean(r) /\ Kept(c, r.txs, t)
        /\ Range(q.txs) \subseteq Range(r.txs) /\ Range(r.txs) \subseteq Range(q.txs) \cup {t}
        BY <2>2, <2>4, <2>5, RestoredOne
  <2>7. ASSUME NEW k \in 1..(i - 1) PROVE Kept(c, r.txs, txs[k])  BY <2>4, <2>6 DEF Kept
  <2>8. Range(r.txs) \subseteq Range(txs)  BY <2>2, <2>4, <2>6
  <2> QED BY <2>1, <2>3, <2>6, <2>7, <2>8 DEF t, r
<1> HIDE DEF G
<1>6. n \in G
  <2>1. \A i \in 0..n : i \in G  BY <1>2, <1>4, <1>5, UpToInduction
  <2> QED BY <1>2, <2>1
<1>7. Good(n)  BY <1>6 DEF G
<1>8. run[n] \in Pools  BY <1>1, <1>2
<1> QED BY <1>1, <1>3, <1>7, <1>8
-----------------------------------------------------------------------------
(***************************************************************************)
(* The inductive invariant.                                                *)
(***************************************************************************)
TypeOK ==
  /\ chain \in Seq(Block) /\ pending \in Seq(Tx) /\ session \in BOOLEAN
  /\ applied \in SUBSET Tx /\ sent \in SUBSET Tx /\ born \in 0..MaxBlocks

(* At the head of c none of txs expires too late to be applied. *)
Young(c, txs) == \A t \in txs : t.exp <= head_block_time(c) + MaxLife

(* The inductive invariant: the chain is grown, and no transaction that    *)
(* the node may yet apply again expires later than _apply_transaction      *)
(* admits.                                                                 *)
IInv ==
  /\ TypeOK
  /\ Grown(chain)
  /\ Young(chain, sent \cup Range(pending) \cup Included(chain))

(* What NothingDropped says of a step. *)
NoneDropped ==
  \A t \in Range(pending) \cup Included(chain) : Kept(chain', pending', t)

(* What is young stays so as the chain's time advances. *)
LEMMA StaysYoung ==
  ASSUME NEW c \in Seq(Block), NEW d \in Seq(Block), head_block_time(c) <= head_block_time(d),
         NEW txs \in SUBSET Tx, Young(c, txs)
  PROVE  Young(d, txs)
<1>1. head_block_time(c) \in Nat /\ head_block_time(d) \in Nat /\ MaxLife \in Nat
      BY HeadType, PoolAssumption
<1>2. ASSUME NEW t \in txs PROVE t.exp <= head_block_time(d) + MaxLife
  <2>1. t.exp \in Nat /\ t.exp <= head_block_time(c) + MaxLife  BY DEF Young, Tx
  <2> QED BY <1>1, <2>1
<1> QED BY <1>2 DEF Young

(* The transactions of a chain, and of the head block. *)
LEMMA IncludedType ==
  ASSUME NEW c \in Seq(Block)
  PROVE  Included(c) \in SUBSET Tx
<1>1. ASSUME NEW i \in DOMAIN c PROVE Range(c[i].txs) \subseteq Tx
  <2>1. c[i] \in Block  OBVIOUS
  <2>2. c[i].txs \in Seq(Tx)  BY <2>1 DEF Block
  <2> QED BY <2>2 DEF Range
<1> QED BY <1>1 DEF Included

(* A transaction made at the head of c refers to the head. *)
LEMMA ReferenceType ==
  ASSUME NEW c \in Seq(Block)
  PROVE  Len(c) % Summaries \in 0..(Summaries - 1) /\ head_block_id(c) \in 0..MaxBlocks
<1>1. Len(c) \in Nat /\ Summaries \in Nat /\ Summaries > 0  BY PoolAssumption
<1>2. Len(c) % Summaries \in 0..(Summaries - 1)  BY <1>1
<1> QED BY <1>2, HeadType

(* A bonus transaction expires early enough. *)
LEMMA BonusType ==
  ASSUME NEW c \in Seq(Block), NEW who \in {Own, Peer}
  PROVE  BonusTx(c, who) \in Tx /\ Young(c, {BonusTx(c, who)})
<1>1. head_block_time(c) \in Nat /\ BonusLife \in Nat /\ MaxLife \in Nat /\ BonusLife <= MaxLife
      BY HeadType, PoolAssumption
<1>2. BonusTx(c, who) \in Tx  BY <1>1, ReferenceType DEF BonusTx, Tx
<1>3. BonusTx(c, who).exp = head_block_time(c) + BonusLife  BY DEF BonusTx
<1>4. Young(c, {BonusTx(c, who)})  BY <1>1, <1>3 DEF Young
<1> QED BY <1>2, <1>4

(* What is pending once the bonus is added. *)
LEMMA BonusAdded ==
  ASSUME NEW c \in Seq(Block), NEW p \in Pools
  PROVE  LET txs == check_and_add_bonus(c, p)
         IN  /\ txs \in Seq(Tx) /\ Range(txs) \subseteq Range(p.txs) \cup {BonusTx(c, Own)}
             /\ \A t \in Range(p.txs) : t.name \notin {Own, Peer} => t \in Range(txs)
<1> DEFINE kept == DropBonuses(p.txs)
           bonus == <<BonusTx(c, Own)>>
           txs == check_and_add_bonus(c, p)
<1>1. p.txs \in Seq(Tx)  BY DEF Pools
<1>2. /\ kept \in Seq(Tx) /\ Range(kept) \subseteq Range(p.txs)
      /\ \A t \in Range(p.txs) : t.name \notin {Own, Peer} => t \in Range(kept)
      BY <1>1, BonusesDropped
<1>3. BonusTx(c, Own) \in Tx  BY BonusType
<1>4. bonus \in Seq(Tx) /\ Range(bonus) = {BonusTx(c, Own)}
  <2> DEFINE t == BonusTx(c, Own)
  <2> HIDE DEF t
  <2>1. <<t>> \in Seq(Tx) /\ DOMAIN <<t>> = {1} /\ <<t>>[1] = t  BY <1>3 DEF t
  <2>2. Range(<<t>>) = {t}  BY <2>1 DEF Range
  <2> QED BY <2>1, <2>2 DEF t
<1>5. txs = bonus \o kept \/ txs = kept  BY DEF check_and_add_bonus
<1> HIDE DEF kept, bonus, txs
<1>6. bonus \o kept \in Seq(Tx) /\ Range(bonus \o kept) = Range(bonus) \cup Range(kept)
      BY <1>2, <1>4, RangeConcat
<1>7. txs \in Seq(Tx) /\ Range(txs) \subseteq Range(kept) \cup Range(bonus) /\ Range(kept) \subseteq Range(txs)
      BY <1>2, <1>5, <1>6
<1>8. /\ txs \in Seq(Tx) /\ Range(txs) \subseteq Range(p.txs) \cup {BonusTx(c, Own)}
      /\ \A t \in Range(p.txs) : t.name \notin {Own, Peer} => t \in Range(txs)
      BY <1>2, <1>4, <1>7
<1> QED BY <1>8 DEF txs

(* What a peer's block holds. *)
LEMMA PeerType ==
  ASSUME sent \in SUBSET Tx, NEW c \in Seq(Block), NEW txs \in PeerTxs(c)
  PROVE  txs \in Seq(Tx) /\ Range(txs) \subseteq sent \cup {BonusTx(c, Peer)}
<1> DEFINE b == BonusTx(c, Peer)
<1>1. b \in Tx  BY BonusType
<1>2. PICK bonus \in {<<>>, <<b>>}, user \in {<<>>} \cup {<<t>> : t \in sent} : txs = bonus \o user
      BY DEF PeerTxs
<1> HIDE DEF b
<1>3. \A t \in Tx : <<t>> \in Seq(Tx) /\ Range(<<t>>) = {t}
  <2> TAKE t \in Tx
  <2>1. <<t>> \in Seq(Tx) /\ DOMAIN <<t>> = {1} /\ <<t>>[1] = t  OBVIOUS
  <2>2. Range(<<t>>) = {t}  BY <2>1 DEF Range
  <2> QED BY <2>1, <2>2
<1>4. <<>> \in Seq(Tx) /\ Range(<<>>) = {}  BY DEF Range
<1>5. bonus \in Seq(Tx) /\ Range(bonus) \subseteq {b}  BY <1>1, <1>2, <1>3, <1>4
<1>6. user \in Seq(Tx) /\ Range(user) \subseteq sent
  <2>1. CASE user = <<>>  BY <1>4, <2>1
  <2>2. CASE user # <<>>
    <3>1. PICK t \in sent : user = <<t>>  BY <1>2, <2>2
    <3>2. t \in Tx  OBVIOUS
    <3> QED BY <1>3, <3>1, <3>2
  <2> QED BY <2>1, <2>2
<1>7. bonus \o user \in Seq(Tx) /\ Range(bonus \o user) = Range(bonus) \cup Range(user)
      BY <1>5, <1>6, RangeConcat
<1>8. txs \in Seq(Tx) /\ Range(txs) = Range(bonus) \cup Range(user)  BY <1>2, <1>7
<1> QED BY <1>5, <1>6, <1>8 DEF b

(* A chain that takes the place of the present one with its pending         *)
(* transactions restored keeps the invariant, and those transactions.       *)
LEMMA Replaces ==
  ASSUME IInv, NEW c \in Seq(Block), Grown(c), NEW txs \in Seq(Tx),
         Young(c, sent \cup Range(txs) \cup Included(c)),
         Become(c, RestoreAll(c, txs)), sent' = sent, born' \in 0..MaxBlocks
  PROVE  IInv' /\ \A t \in Range(txs) : Kept(chain', pending', t)
<1> DEFINE q == RestoreAll(c, txs)
<1>1. \A t \in Range(txs) : t.exp <= head_block_time(c) + MaxLife  BY DEF Young
<1>2. /\ q \in Pools /\ Range(q.txs) \subseteq Range(txs)
      /\ \A t \in Range(txs) : Kept(c, q.txs, t)
      BY <1>1, Restored
<1> HIDE DEF q
<1>3. chain' = c /\ pending' = q.txs /\ session' = q.session /\ applied' = q.applied
      BY DEF Become, q
<1>4. q.txs \in Seq(Tx) /\ q.session \in BOOLEAN /\ q.applied \in SUBSET Tx  BY <1>2 DEF Pools
<1>5. sent \in SUBSET Tx  BY DEF IInv, TypeOK
<1>6. TypeOK'  BY <1>3, <1>4, <1>5 DEF TypeOK
<1>7. Young(c, sent \cup Range(q.txs) \cup Included(c))  BY <1>2 DEF Young
<1>8. Young(chain', sent' \cup Range(pending') \cup Included(chain'))  BY <1>3, <1>7
<1>9. Grown(chain')  BY <1>3
<1>10. IInv'  BY <1>6, <1>8, <1>9 DEF IInv
<1> QED BY <1>2, <1>3, <1>10

(* A step that leaves the chain alone. *)
LEMMA SameChain ==
  ASSUME IInv, chain' = chain, pending' \in Seq(Tx), session' \in BOOLEAN,
         applied' \in SUBSET Tx, sent' \in SUBSET Tx, born' \in 0..MaxBlocks,
         Young(chain, sent' \cup Range(pending')),
         \A t \in Range(pending) : t.name \notin {Own, Peer} => t \in Range(pending')
  PROVE  IInv' /\ NoneDropped
<1>1. TypeOK'  BY DEF TypeOK, IInv
<1>2. Young(chain', sent' \cup Range(pending') \cup Included(chain'))  BY DEF IInv, Young
<1>3. IInv'  BY <1>1, <1>2 DEF IInv
<1>4. NoneDropped  BY DEF NoneDropped, Kept
<1> QED BY <1>3, <1>4

(* The facts that every step uses. *)
LEMMA Facts ==
  ASSUME IInv
  PROVE  /\ chain \in Seq(Block) /\ pending \in Seq(Tx) /\ sent \in SUBSET Tx
         /\ Range(pending) \in SUBSET Tx /\ Included(chain) \in SUBSET Tx
         /\ born \in 0..MaxBlocks /\ MaxBlocks \in Nat /\ Grown(chain)
         /\ Young(chain, sent) /\ Young(chain, Range(pending)) /\ Young(chain, Included(chain))
         /\ Pool \in Pools /\ Pool.txs = pending
<1>1. TypeOK /\ Grown(chain) /\ Young(chain, sent \cup Range(pending) \cup Included(chain))
      BY DEF IInv
<1>2. chain \in Seq(Block) /\ pending \in Seq(Tx) /\ sent \in SUBSET Tx /\ born \in 0..MaxBlocks
      BY <1>1 DEF TypeOK
<1>3. Pool \in Pools /\ Pool.txs = pending  BY <1>1 DEF TypeOK, Pool, Pools
<1>4. Range(pending) \in SUBSET Tx  BY <1>2 DEF Range
<1>5. Included(chain) \in SUBSET Tx  BY <1>2, IncludedType
<1>6. Young(chain, sent) /\ Young(chain, Range(pending)) /\ Young(chain, Included(chain))
      BY <1>1 DEF Young
<1> QED BY <1>1, <1>2, <1>3, <1>4, <1>5, <1>6, PoolAssumption

(* The invariant holds at the start. *)
THEOREM InitIInv == Init => IInv
<1> SUFFICES ASSUME Init PROVE IInv  OBVIOUS
<1>1. TypeOK
  <2>1. MaxBlocks \in Nat  BY PoolAssumption
  <2>2. 0 \in 0..MaxBlocks  BY <2>1
  <2>3. <<>> \in Seq(Block) /\ <<>> \in Seq(Tx)  OBVIOUS
  <2> QED BY <2>2, <2>3 DEF Init, TypeOK
<1>2. Grown(chain)  BY DEF Init, Grown
<1>3. Range(pending) = {} /\ Included(chain) = {} /\ sent = {}  BY DEF Init, Range, Included
<1> QED BY <1>1, <1>2, <1>3 DEF IInv, Young

(* What a user makes expires early enough. *)
LEMMA MakeStep ==
  ASSUME IInv, NEW name \in Names, Make(name)
  PROVE  IInv' /\ NoneDropped
<1> DEFINE t == [name |-> name, num |-> Len(chain) % Summaries, ref |-> head_block_id(chain),
                 exp |-> head_block_time(chain) + Life]
<1>1. /\ chain' = chain /\ pending' = pending /\ session' = session /\ applied' = applied
      /\ born' = born /\ sent' = sent \cup {t}
      BY DEF Make
<1>2. head_block_time(chain) \in Nat /\ Life \in Nat /\ MaxLife \in Nat /\ Life <= MaxLife
      BY Facts, HeadType, PoolAssumption
<1>3. t \in Tx  BY <1>2, Facts, ReferenceType DEF Tx
<1>4. t.exp <= head_block_time(chain) + MaxLife  BY <1>2
<1> HIDE DEF t
<1>5. Young(chain, sent' \cup Range(pending'))  BY <1>1, <1>4, Facts DEF Young
<1>6. session' \in BOOLEAN /\ applied' \in SUBSET Tx  BY <1>1 DEF IInv, TypeOK
<1> QED BY <1>1, <1>3, <1>5, <1>6, Facts, SameChain

(* A pushed transaction is put behind what is pending, or refused. *)
LEMMA PushTransactionStep ==
  ASSUME IInv, NEW t \in sent, push_transaction(t)
  PROVE  IInv' /\ NoneDropped
<1> DEFINE q == _push_transaction(chain, Pool, t)
<1>1. /\ chain' = chain /\ pending' = q.txs /\ session' = q.session /\ applied' = q.applied
      /\ sent' = sent /\ born' = born
      BY DEF push_transaction, Become
<1>2. t \in Tx  BY Facts
<1>3. (q.txs = pending \/ q.txs = Append(pending, t)) /\ q.session = TRUE
      BY Facts DEF _push_transaction
<1>4. q.applied \in SUBSET Tx  BY <1>2, Facts DEF _push_transaction, Pools
<1> HIDE DEF q
<1>5. Append(pending, t) \in Seq(Tx) /\ Range(Append(pending, t)) = Range(pending) \cup {t}
      BY <1>2, Facts, RangeAppend
<1>6. q.txs \in Seq(Tx) /\ Range(q.txs) \subseteq Range(pending) \cup {t} /\ Range(pending) \subseteq Range(q.txs)
      BY <1>3, <1>5, Facts
<1>7. Young(chain, sent' \cup Range(pending'))  BY <1>1, <1>6, Facts DEF Young
<1> QED BY <1>1, <1>3, <1>4, <1>6, <1>7, Facts, SameChain

(* A block of young transactions on top of a grown chain. *)
LEMMA GrowsBy ==
  ASSUME NEW c \in Seq(Block), Grown(c), Young(c, Included(c)),
         NEW b \in Block, _apply_block(c, b), b.time <= head_block_time(c) + 2,
         Young(c, Range(b.txs))
  PROVE  LET d == Append(c, b)
         IN  /\ d \in Seq(Block) /\ Grown(d) /\ head_block_time(d) = b.time
             /\ head_block_time(c) <= head_block_time(d)
             /\ Included(d) = Included(c) \cup Range(b.txs) /\ Young(d, Included(d))
<1> DEFINE d == Append(c, b)
<1>1. d \in Seq(Block) /\ head_block_time(d) = b.time /\ Included(d) = Included(c) \cup Range(b.txs)
      BY Appended
<1>2. Grown(d)  BY GrownAppend
<1>3. head_block_time(c) < b.time  BY DEF _apply_block
<1>4. head_block_time(c) <= head_block_time(d)
  <2>1. head_block_time(c) \in Nat /\ b.time \in Nat  BY HeadType DEF Block
  <2> QED BY <1>1, <1>3, <2>1
<1> HIDE DEF d
<1>5. Young(c, Included(d))  BY <1>1 DEF Young
<1>6. Included(d) \in SUBSET Tx  BY <1>1, IncludedType
<1>7. Young(d, Included(d))  BY <1>1, <1>4, <1>5, <1>6, StaysYoung
<1> QED BY <1>1, <1>2, <1>4, <1>7 DEF d

(* The blocks that are made. *)
LEMMA NewBlockType ==
  ASSUME IInv, born < MaxBlocks, NEW time \in Nat, NEW by \in {Own, Peer}, NEW txs \in Seq(Tx)
  PROVE  /\ NewBlock(time, by, txs) \in Block /\ NewBlock(time, by, txs).time = time
         /\ NewBlock(time, by, txs).txs = txs
<1>1. born + 1 \in 1..MaxBlocks  BY Facts
<1> QED BY <1>1 DEF NewBlock, Block

(* This node's own block: whether its making fails or not, what was pending *)
(* is in it or pending again.                                               *)
LEMMA GenerateBlockStep ==
  ASSUME IInv, NEW time \in Times, generate_block(time)
  PROVE  IInv' /\ NoneDropped
<1> DEFINE txs == check_and_add_bonus(chain, Pool)
           b == Filled(chain, txs)
           blk == NewBlock(time, Own, b.txs)
           after == IF _apply_block(chain, blk) THEN Append(chain, blk) ELSE chain
<1>1. /\ born < MaxBlocks /\ born' = born + 1 /\ sent' = sent
      /\ \/ Become(chain, [Pool EXCEPT !.txs = DropBonuses(pending), !.session = TRUE])
         \/ Become(chain, [NoPending EXCEPT !.txs = txs])
         \/ Become(after, pending_transactions_restorer(after, <<>>, txs))
      BY DEF generate_block
<1>2. born' \in 0..MaxBlocks  BY <1>1, Facts
<1>3. /\ txs \in Seq(Tx) /\ Range(txs) \subseteq Range(pending) \cup {BonusTx(chain, Own)}
      /\ \A t \in Range(pending) : t.name \notin {Own, Peer} => t \in Range(txs)
      BY Facts, BonusAdded
<1>4. Young(chain, {BonusTx(chain, Own)})  BY Facts, BonusType
<1>5. Young(chain, Range(txs))  BY <1>3, <1>4, Facts DEF Young
<1> HIDE DEF txs
<1>6. CASE Become(chain, [Pool EXCEPT !.txs = DropBonuses(pending), !.session = TRUE])
  <2>1. chain' = chain /\ pending' = DropBonuses(pending) /\ session' = TRUE /\ applied' = applied
        BY <1>6 DEF Become, Pool
  <2>2. /\ DropBonuses(pending) \in Seq(Tx) /\ Range(DropBonuses(pending)) \subseteq Range(pending)
        /\ \A t \in Range(pending) : t.name \notin {Own, Peer} => t \in Range(DropBonuses(pending))
        BY Facts, BonusesDropped
  <2>3. Young(chain, sent' \cup Range(pending'))  BY <1>1, <2>1, <2>2, Facts DEF Young
  <2>4. applied' \in SUBSET Tx  BY <2>1 DEF IInv, TypeOK
  <2> QED BY <1>1, <1>2, <2>1, <2>2, <2>3, <2>4, Facts, SameChain
<1>7. CASE Become(chain, [NoPending EXCEPT !.txs = txs])
  <2>1. chain' = chain /\ pending' = txs /\ session' = FALSE /\ applied' = {}
        BY <1>7 DEF Become, NoPending
  <2>2. Young(chain, sent' \cup Range(pending'))  BY <1>1, <1>5, <2>1, Facts DEF Young
  <2> QED BY <1>1, <1>2, <1>3, <2>1, <2>2, Facts, SameChain
<1>8. CASE Become(after, pending_transactions_restorer(after, <<>>, txs))
  <2>1. <<>> \o txs = txs  BY <1>3
  <2>2. Become(after, RestoreAll(after, txs))  BY <1>8, <2>1 DEF pending_transactions_restorer
  <2>3. b.txs \in Seq(Tx) /\ Range(b.txs) \subseteq Range(txs)  BY <1>3, FilledFrom
  <2>4. head_block_time(chain) \in Nat /\ time \in Nat /\ time <= head_block_time(chain) + 2
    <3>1. head_block_time(chain) \in Nat  BY Facts, HeadType
    <3> QED BY <3>1 DEF Times
  <2>5. blk \in Block /\ blk.time = time /\ blk.txs = b.txs  BY <1>1, <2>3, <2>4, NewBlockType
  <2> HIDE DEF b, blk
  <2>6. Young(chain, Range(blk.txs))  BY <1>5, <2>3, <2>5 DEF Young
  <2>7. /\ after \in Seq(Block) /\ Grown(after) /\ head_block_time(chain) <= head_block_time(after)
        /\ Included(chain) \subseteq Included(after) /\ Young(after, Included(after))
    <3>1. CASE _apply_block(chain, blk)
      <4>1. after = Append(chain, blk)  BY <3>1
      <4> QED BY <2>4, <2>5, <2>6, <3>1, <4>1, Facts, GrowsBy
    <3>2. CASE ~_apply_block(chain, blk)
      <4>1. after = chain  BY <3>2
      <4> QED BY <2>4, <4>1, Facts
    <3> QED BY <3>1, <3>2
  <2> HIDE DEF after
  <2>8. Range(txs) \in SUBSET Tx  BY <1>3 DEF Range
  <2>9. Young(after, sent) /\ Young(after, Range(txs))  BY <1>5, <2>7, <2>8, Facts, StaysYoung
  <2>10. Young(after, sent \cup Range(txs) \cup Included(after))  BY <2>7, <2>9 DEF Young
  <2>11. IInv' /\ \A t \in Range(txs) : Kept(chain', pending', t)
         BY <1>1, <1>2, <1>3, <2>2, <2>7, <2>10, Replaces
  <2>12. chain' = after  BY <2>2 DEF Become
  <2>13. ASSUME NEW t \in Range(pending) PROVE Kept(chain', pending', t)
    <3>1. CASE t.name \in {Own, Peer}  BY <3>1 DEF Kept
    <3>2. CASE t.name \notin {Own, Peer}  BY <1>3, <2>11, <3>2
    <3> QED BY <3>1, <3>2
  <2>14. ASSUME NEW t \in Included(chain) PROVE Kept(chain', pending', t)
         BY <2>7, <2>12 DEF Kept
  <2> QED BY <2>11, <2>13, <2>14 DEF NoneDropped
<1> QED BY <1>1, <1>6, <1>7, <1>8

(* A peer's block leaves what is pending in it or pending. *)
LEMMA PushBlockStep ==
  ASSUME IInv, NEW time \in Times, NEW txs \in PeerTxs(chain), push_block(time, txs)
  PROVE  IInv' /\ NoneDropped
<1> DEFINE blk == NewBlock(time, Peer, txs)
           c == Append(chain, blk)
<1>1. /\ born < MaxBlocks /\ born' = born + 1 /\ sent' = sent /\ _apply_block(chain, blk)
      /\ Become(c, pending_transactions_restorer(c, <<>>, pending))
      BY DEF push_block
<1>2. born' \in 0..MaxBlocks  BY <1>1, Facts
<1>3. <<>> \o pending = pending  BY Facts
<1>4. Become(c, RestoreAll(c, pending))  BY <1>1, <1>3 DEF pending_transactions_restorer
<1>5. txs \in Seq(Tx) /\ Range(txs) \subseteq sent \cup {BonusTx(chain, Peer)}  BY Facts, PeerType
<1>6. head_block_time(chain) \in Nat /\ time \in Nat /\ time <= head_block_time(chain) + 2
  <2>1. head_block_time(chain) \in Nat  BY Facts, HeadType
  <2> QED BY <2>1 DEF Times
<1>7. blk \in Block /\ blk.time = time /\ blk.txs = txs  BY <1>1, <1>5, <1>6, NewBlockType
<1>8. Young(chain, {BonusTx(chain, Peer)})  BY Facts, BonusType
<1> HIDE DEF blk
<1>9. Young(chain, Range(blk.txs))  BY <1>5, <1>7, <1>8, Facts DEF Young
<1>10. /\ c \in Seq(Block) /\ Grown(c) /\ head_block_time(chain) <= head_block_time(c)
       /\ Included(chain) \subseteq Included(c) /\ Young(c, Included(c))
       BY <1>1, <1>6, <1>7, <1>9, Facts, GrowsBy
<1> HIDE DEF c
<1>11. Young(c, sent) /\ Young(c, Range(pending))  BY <1>10, Facts, StaysYoung
<1>12. Young(c, sent \cup Range(pending) \cup Included(c))  BY <1>10, <1>11 DEF Young
<1>13. IInv' /\ \A t \in Range(pending) : Kept(chain', pending', t)
       BY <1>1, <1>2, <1>4, <1>10, <1>12, Facts, Replaces
<1>14. chain' = c  BY <1>4 DEF Become
<1>15. ASSUME NEW t \in Included(chain) PROVE Kept(chain', pending', t)
       BY <1>10, <1>14 DEF Kept
<1> QED BY <1>13, <1>15 DEF NoneDropped

(* A switch of forks pushes again what the popped block held. *)
LEMMA SwitchForkStep ==
  ASSUME IInv, chain # <<>>, NEW time, time = head_block_time(pop_block(chain)) + 1,
         NEW txs \in PeerTxs(pop_block(chain)),
         NEW txs2 \in PeerTxs(Append(pop_block(chain), NewBlock(time, Peer, txs))),
         switch_fork(time, txs, txs2)
  PROVE  IInv' /\ NoneDropped
<1> DEFINE p == pop_block(chain)
           old == chain[Len(chain)].txs
           blk == NewBlock(time, Peer, txs)
           c == Append(p, blk)
           blk2 == [NewBlock(time + 1, Peer, txs2) EXCEPT !.id = born + 2]
           c2 == Append(c, blk2)
           again == old \o pending
<1>1. /\ born + 2 <= MaxBlocks /\ _apply_block(p, blk) /\ _apply_block(c, blk2)
      /\ Become(c2, pending_transactions_restorer(c2, old, pending))
      /\ born' = born + 2 /\ sent' = sent
      BY DEF switch_fork
<1>2. Become(c2, RestoreAll(c2, again))  BY <1>1 DEF pending_transactions_restorer
<1>3. /\ p \in Seq(Block) /\ Grown(p) /\ chain[Len(chain)] \in Block
      /\ Included(chain) = Included(p) \cup Range(old)
      /\ head_block_time(chain) <= head_block_time(p) + 2
      BY Facts, GrownPop
<1>4. born < MaxBlocks /\ born' \in 0..MaxBlocks /\ born + 2 \in 1..MaxBlocks  BY <1>1, Facts
<1>5. head_block_time(p) \in Nat /\ head_block_time(chain) \in Nat  BY <1>3, Facts, HeadType
<1>6. txs \in Seq(Tx) /\ Range(txs) \subseteq sent \cup {BonusTx(p, Peer)}
      BY <1>3, Facts, PeerType
<1>7. time \in Nat /\ time + 1 \in Nat /\ time <= head_block_time(p) + 2  BY <1>5
<1>8. blk \in Block /\ blk.time = time /\ blk.txs = txs  BY <1>4, <1>6, <1>7, NewBlockType
<1>9. txs2 \in PeerTxs(c)  OBVIOUS
<1> HIDE DEF p, blk
<1>10. /\ c \in Seq(Block) /\ head_block_time(c) = time /\ Grown(c)
       /\ Included(c) = Included(p) \cup Range(txs)
       BY <1>1, <1>3, <1>7, <1>8, Appended, GrownAppend
<1> HIDE DEF c
<1>11. txs2 \in Seq(Tx) /\ Range(txs2) \subseteq sent \cup {BonusTx(c, Peer)}
       BY <1>9, <1>10, Facts, PeerType
<1>12. blk2 \in Block /\ blk2.time = time + 1 /\ blk2.txs = txs2
  <2>1. /\ NewBlock(time + 1, Peer, txs2) \in Block
        /\ NewBlock(time + 1, Peer, txs2).time = time + 1 /\ NewBlock(time + 1, Peer, txs2).txs = txs2
        BY <1>4, <1>7, <1>11, NewBlockType
  <2> QED BY <1>4, <2>1 DEF Block
<1>13. blk2.time <= head_block_time(c) + 2  BY <1>7, <1>10, <1>12
<1> HIDE DEF blk2
<1>14. /\ c2 \in Seq(Block) /\ head_block_time(c2) = time + 1 /\ Grown(c2)
       /\ Included(c2) = Included(p) \cup Range(txs) \cup Range(txs2)
       BY <1>1, <1>10, <1>12, <1>13, Appended, GrownAppend
<1> HIDE DEF c2
<1>15. /\ head_block_time(p) <= head_block_time(c2) /\ head_block_time(c) <= head_block_time(c2)
       /\ head_block_time(chain) <= head_block_time(c2)
  <2>1. time = head_block_time(p) + 1  BY DEF p
  <2> QED BY <1>3, <1>5, <1>7, <1>10, <1>14, <2>1
<1>16. Young(c2, sent) /\ Young(c2, Range(pending)) /\ Young(c2, Included(chain))
       BY <1>14, <1>15, Facts, StaysYoung
<1>17. Young(c2, {BonusTx(p, Peer)}) /\ Young(c2, {BonusTx(c, Peer)})
  <2>1. {BonusTx(p, Peer)} \in SUBSET Tx /\ Young(p, {BonusTx(p, Peer)})  BY <1>3, BonusType
  <2>2. {BonusTx(c, Peer)} \in SUBSET Tx /\ Young(c, {BonusTx(c, Peer)})  BY <1>10, BonusType
  <2>3. Young(c2, {BonusTx(p, Peer)})  BY <1>3, <1>14, <1>15, <2>1, StaysYoung
  <2>4. Young(c2, {BonusTx(c, Peer)})  BY <1>10, <1>14, <1>15, <2>2, StaysYoung
  <2> QED BY <2>3, <2>4
<1>18. again \in Seq(Tx) /\ Range(again) = Range(old) \cup Range(pending)
  <2>1. old \in Seq(Tx)  BY <1>3 DEF Block
  <2> HIDE DEF old
  <2> QED BY <2>1, Facts, RangeConcat
<1> HIDE DEF again, old
<1>19. Young(c2, sent \cup Range(again) \cup Included(c2))
       BY <1>3, <1>6, <1>11, <1>14, <1>16, <1>17, <1>18 DEF Young
<1>20. IInv' /\ \A t \in Range(again) : Kept(chain', pending', t)
       BY <1>1, <1>2, <1>4, <1>14, <1>18, <1>19, Replaces
<1>21. chain' = c2  BY <1>2 DEF Become
<1>22. ASSUME NEW t \in Included(p) PROVE Kept(chain', pending', t)
       BY <1>14, <1>21 DEF Kept
<1> QED BY <1>3, <1>18, <1>20, <1>22 DEF NoneDropped

(* Every step keeps the invariant and drops no transaction. *)
LEMMA NextStep ==
  ASSUME IInv, [Next]_vars
  PROVE  IInv' /\ (Next => NoneDropped)
<1>1. CASE UNCHANGED vars
  <2>1. IInv'  BY <1>1 DEF vars, IInv, TypeOK, Young
  <2>2. NoneDropped  BY <1>1 DEF vars, NoneDropped, Kept
  <2> QED BY <2>1, <2>2
<1>2. CASE Next
  <2>1. ASSUME NEW name \in Names, Make(name) PROVE IInv' /\ NoneDropped
        BY <2>1, MakeStep
  <2>2. ASSUME NEW t \in sent, push_transaction(t) PROVE IInv' /\ NoneDropped
        BY <2>2, PushTransactionStep
  <2>3. ASSUME NEW time \in Times, generate_block(time) PROVE IInv' /\ NoneDropped
        BY <2>3, GenerateBlockStep
  <2>4. ASSUME NEW time \in Times, NEW txs \in PeerTxs(chain), push_block(time, txs)
        PROVE  IInv' /\ NoneDropped
        BY <2>4, PushBlockStep
  <2>5. ASSUME chain # <<>>, NEW txs \in PeerTxs(pop_block(chain)),
               NEW time, time = head_block_time(pop_block(chain)) + 1,
               NEW txs2 \in PeerTxs(Append(pop_block(chain), NewBlock(time, Peer, txs))),
               switch_fork(time, txs, txs2)
        PROVE  IInv' /\ NoneDropped
        BY <2>5, SwitchForkStep
  <2> QED BY <1>2, <2>1, <2>2, <2>3, <2>4, <2>5 DEF Next
<1> QED BY <1>1, <1>2

(* The chain is always one whose every block was applied on the blocks      *)
(* below it, and no transaction that is known to the node expires later     *)
(* than _apply_transaction allows.                                          *)
THEOREM AlwaysIInv == Spec => []IInv
<1>1. IInv /\ [Next]_vars => IInv'  BY NextStep
<1> QED BY InitIInv, <1>1, PTL DEF Spec

(* No transaction is ever applied twice on a chain: between the             *)
(* transaction index of clear_expired_transactions and the expiration check *)
(* of _apply_transaction there is no gap, for every expiration limit,       *)
(* number of block summaries, block size and number of blocks.              *)
THEOREM EachAppliedOnce == Spec => []AppliedOnce
<1>1. IInv => AppliedOnce  BY Facts, GrownOnce DEF AppliedOnce
<1> QED BY AlwaysIInv, <1>1, PTL

(* Above block 1, a transaction is only ever in a chain that holds the      *)
(* block it refers to (the TaPoS check of _apply_transaction), whatever     *)
(* fork switches it went through.                                           *)
THEOREM AlwaysOnReferencedChain == Spec => []OnReferencedChain
<1>1. IInv => OnReferencedChain  BY Facts, GrownReferenced DEF OnReferencedChain
<1> QED BY AlwaysIInv, <1>1, PTL

(* No step of the chain or of the pool loses a transaction that could still *)
(* be applied: pop_block's _popped_tx and pending_transactions_restorer     *)
(* put back all that the new chain does not hold.                           *)
THEOREM NothingIsDropped == Spec => NothingDropped
<1> DEFINE A == \A t \in Range(pending) \cup Included(chain) :
                  \/ t \in Included(chain') \cup Range(pending')
                  \/ t.name \in {Own, Peer}
                  \/ head_block_time(chain') > t.exp
                  \/ block_summary(chain', t.num) # t.ref
<1>1. IInv /\ [Next]_vars => [A]_vars
  <2>1. NoneDropped => A  BY DEF NoneDropped, Kept
  <2> HIDE DEF A
  <2> QED BY <2>1, NextStep
<1>2. Spec => [][A]_vars
  <2> HIDE DEF A
  <2> QED BY AlwaysIInv, <1>1, PTL DEF Spec
<1> QED BY <1>2 DEF NothingDropped
=============================================================================
