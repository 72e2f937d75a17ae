---------------------------- MODULE ChainDatabase ----------------------------
(***************************************************************************)
(* The chain controller of libraries/chain (db_block.cpp, db_management.cpp *)
(* and parts of db_update.cpp and db_with.hpp): how a node pushes blocks,  *)
(* switches forks, keeps its pending transactions, writes the block log,   *)
(* bounds its undo history, and comes back after a stop or a crash.        *)
(*                                                                         *)
(* Header validation lets a block be applied only on the block it names,   *)
(* so the applied chain is Path[head] and head stands for the whole object *)
(* database.  What a block or a transaction does to the objects is the     *)
(* subject of other modules: here a block applies or does not (Valid), and *)
(* a transaction applies once, after the transactions it Needs.            *)
(***************************************************************************)
EXTENDS ForkDatabase

CONSTANTS
  Witnesses,      \* the active witnesses
  Witness,        \* Witness[b]: the witness that signed b
  Valid,          \* the blocks that apply on their previous block
  FailsLate,      \* blocks that do not, and fail after update_global_dynamic_data
  Txs,            \* transactions
  Transactions,   \* Transactions[b]: the transactions of b, in order
  Needs,          \* Needs[t]: transactions that t only applies after
  Executes,       \* transactions whose evaluation opens a session of its own
                  \*   (a proposal or an escrow that executes)
  MinUndoHistory, \* GRAPHENE_MIN_UNDO_HISTORY
  MaxUndoHistory, \* GRAPHENE_MAX_UNDO_HISTORY
  ForkMaxSize,    \* the initial fork_database::_max_size
  ReplayWindow,   \* reindex keeps undo states for this many last blocks (50)
  FlushWindow,    \* reindex saves the objects this many blocks from the end (10000)
  Redelivery,     \* whether blocks the node knows are handed to it again
  MaxStops        \* bound: how often the node stops or crashes

ASSUME ChainAssumption ==
  /\ IsFiniteSet(Witnesses) /\ Witnesses # {}
  /\ Witness \in [Blocks -> Witnesses]
  /\ Valid \subseteq Blocks
  /\ FailsLate \subseteq Blocks \ Valid
  /\ Transactions \in [Blocks -> Seq(Txs)]
  /\ Needs \in [Txs -> SUBSET Txs]
  /\ Executes \subseteq Txs
  /\ {MinUndoHistory, MaxUndoHistory, ForkMaxSize, ReplayWindow, FlushWindow, MaxStops} \subseteq Nat
  /\ Redelivery \in BOOLEAN
  /\ MinUndoHistory >= 2 /\ ForkMaxSize >= 1 /\ FlushWindow > ReplayWindow

VARIABLES
  status,      \* "open"; "closed" or "crashed" between runs; "failed": open() threw
  head,        \* head_block_id(); while down, the head the node went down with
  fork,        \* _fork_db
  log,         \* _block_id_to_block: height -> <<id, block>> or None
  last_store,  \* the store that may not be on disk yet: its height and what it replaced
  undo,        \* the committed undo states, one per block that can be popped
  undo_max,    \* undo_database::_max_size
  pending,     \* _pending_tx
  replayed,    \* blocks of the chain applied by reindex, without the duplicate check
  saved,       \* the head of the objects last saved by object_database::flush
  saved_replayed, \* replayed, as of that save
  stops        \* how often the node has stopped

vars == <<status, head, fork, log, last_store, undo, undo_max, pending,
          replayed, saved, saved_replayed, stops>>

Heights == 1..Max({block_num(b) : b \in Blocks})
None == <<>>

-----------------------------------------------------------------------------
(***************************************************************************)
(* Irreversibility.  A witness confirms a height by signing a block there; *)
(* the last irreversible block is the height that all but 30% of the       *)
(* witnesses have confirmed (an nth_element), and it never moves back      *)
(* along a chain.                                                          *)
(***************************************************************************)
last_confirmed_block_num(b, w) ==
  Max({0} \cup {k \in DOMAIN Path[b] : Witness[Path[b][k]] = w})

IrreversibleOffset == (3 * Cardinality(Witnesses)) \div 10

ConfirmedHeight(b) ==
  CHOOSE n \in {last_confirmed_block_num(b, w) : w \in Witnesses} :
    /\ Cardinality({w \in Witnesses : last_confirmed_block_num(b, w) < n}) <= IrreversibleOffset
    /\ Cardinality({w \in Witnesses : last_confirmed_block_num(b, w) <= n}) > IrreversibleOffset

last_irreversible_block_num[b \in Blocks \cup {Genesis}] ==
  IF b = Genesis THEN 0
  ELSE Max({last_irreversible_block_num[Previous[b]], ConfirmedHeight(b)})

(* The size update_global_dynamic_data gives to both databases on block b, *)
(* from the irreversible block before b.                                   *)
HistorySize(b) == block_num(b) - last_irreversible_block_num[Previous[b]] + 1

-----------------------------------------------------------------------------
(***************************************************************************)
(* The block log.  An entry is valid when the block found at its position  *)
(* has the id of the entry.                                                *)
(***************************************************************************)
EntryValid(e) == e # None /\ e[1] = e[2]

fetch_optional(l, b) == b # Genesis /\ l[block_num(b)] = <<b, b>>

(* last_index_entry cuts the file after its last valid entry. *)
LastHeight(l) == Max({0} \cup {i \in Heights : EntryValid(l[i])})

Truncate(l, n) == [i \in Heights |-> IF i <= n THEN l[i] ELSE None]

(***************************************************************************)
(* The operations below are functions from state to state, because one     *)
(* call of push_block pops and applies many blocks and an exception can    *)
(* leave it between any two of them.  The state is a record of the         *)
(* variables, with                                                         *)
(*   popped  _popped_tx,                                                   *)
(*   trail   the logs that the call has passed through,                    *)
(*   gap     TRUE once reindex has met a gap, and                          *)
(*   ok      FALSE once an exception is on its way out.                    *)
(***************************************************************************)
Fail(s) == [s EXCEPT !.ok = FALSE]

(* Mutant: a height that has an entry is not written again. *)
storeOnce(s, id, b) ==
  IF s.log[block_num(id)] # None THEN s
  ELSE [s EXCEPT !.log[block_num(id)] = <<id, b>>,
                 !.last_store = [height |-> block_num(id), old |-> None],
                 !.trail = @ \cup {s.log}]

store(s, id, b) ==
  [s EXCEPT !.log[block_num(id)] = <<id, b>>,
            !.last_store = [height |-> block_num(id), old |-> s.log[block_num(id)]],
            !.trail = @ \cup {s.log}]

(* start_undo_session with k sessions open drops the oldest states first.  *)
start_undo_session(s, k) == [s EXCEPT !.undo = Min({@, Max({0, s.undo_max - k})})]

BlockExecutes(b) == \E i \in DOMAIN Transactions[b] : Transactions[b][i] \in Executes

(* apply_block up to the resizing of the histories, and the rest. *)
ReachesResize(s, b) ==
  /\ Previous[b] = s.head
  /\ b \in Valid \cup FailsLate
  /\ block_num(b) - last_irreversible_block_num[s.head] < MaxUndoHistory

Resize(s, b) ==
  [s EXCEPT !.undo_max = HistorySize(b), !.fork = set_max_size(@, HistorySize(b))]

apply_block(s, b) ==
  IF ~ReachesResize(s, b) THEN Fail(s)
  ELSE LET r == Resize(IF BlockExecutes(b) THEN start_undo_session(s, 1) ELSE s, b)
       IN  IF b \in Valid THEN [r EXCEPT !.head = b] ELSE Fail(r)

(* start session; apply_block; store under id; commit. *)
ApplyAndStore(s, b, id) ==
  LET r == apply_block(start_undo_session(s, 0), b)
  IN  IF r.ok THEN [store(r, id, b) EXCEPT !.undo = @ + 1] ELSE r

(* database::pop_block: the fork database moves its head back first, so an *)
(* exhausted undo history is noticed after that.                           *)
pop_block(s) ==
  IF ~(s.head \in s.fork.index \/ fetch_optional(s.log, s.head)) \/ ~CanPop(s.fork)
  THEN Fail(s)
  ELSE LET r == [s EXCEPT !.fork = fork_pop_block(@)]
       IN  IF s.undo = 0 THEN Fail(r)
           ELSE [r EXCEPT !.undo = @ - 1, !.head = Previous[@], !.replayed = @ \ {s.head},
                          !.popped = Transactions[s.head] \o @]

PopBlocks(s, n) ==
  FoldLeft(LAMBDA r, i : IF r.ok THEN pop_block(r) ELSE r, s, [i \in 1..n |-> i])

ApplyBranch(s, branch) ==
  FoldLeft(LAMBDA r, b : IF r.ok THEN ApplyAndStore(r, b, b) ELSE r, s, branch)

(* Mutant: the old branch is not applied again. *)
RestoreNothing(s, first, second, b) ==
  LET applied == Cardinality({i \in DOMAIN first : block_num(first[i]) <= block_num(s.head)})
      bad == {first[i] : i \in (applied + 1)..Len(first)}
  IN  Fail(PopBlocks([s EXCEPT !.ok = TRUE, !.fork = set_head(Erase(@, bad), Last(second))], applied))

(***************************************************************************)
(* The failed half of a switch: forget the blocks from the failed one on,  *)
(* pop what was applied of the new branch and apply the old branch again.  *)
(* Its blocks are stored under the id of the block that was pushed.        *)
(***************************************************************************)
RestoreBranch(s, first, second, b) ==
  LET applied == Cardinality({i \in DOMAIN first : block_num(first[i]) <= block_num(s.head)})
      bad == {first[i] : i \in (applied + 1)..Len(first)}
      cleared == [s EXCEPT !.ok = TRUE, !.fork = set_head(Erase(@, bad), Last(second))]
  IN  Fail(FoldLeft(LAMBDA r, c : IF r.ok THEN ApplyAndStore(r, c, b) ELSE r,
                    PopBlocks(cleared, applied), second))

SwitchForks(s, b) ==
  LET new_head == s.fork.head
      first == Branch(new_head, s.head)
      second == Branch(s.head, new_head)
  IN  IF s.head = Genesis THEN Fail(s)
      ELSE IF ~Walkable(s.fork, new_head, s.head) THEN Fail(s)
      ELSE LET popped == PopBlocks(s, Len(second))
               switched == ApplyBranch(popped, first)
           IN  IF ~popped.ok THEN popped
               ELSE IF switched.ok THEN switched
               ELSE RestoreBranch(switched, first, second, b)

(* The new block itself is applied, whatever block the fork database says  *)
(* is its head.                                                            *)
PushNext(s, b) ==
  LET r == ApplyAndStore(s, b, b)
  IN  IF r.ok THEN r ELSE [r EXCEPT !.fork = remove(@, b)]

_push_block(s, b) ==
  IF ~CanPush(s.fork, b) THEN Fail(s)
  ELSE LET r == [s EXCEPT !.fork = fork_push_block(@, b)]
       IN  IF Previous[r.fork.head] = s.head THEN PushNext(r, b)
           ELSE IF block_num(r.fork.head) > block_num(s.head) THEN SwitchForks(r, b)
           ELSE r

-----------------------------------------------------------------------------
(***************************************************************************)
(* Pending transactions.  _push_transaction opens the pending session if   *)
(* there is none, a temporary one above it, and the transaction may open a *)
(* third: each start may drop undo states.                                 *)
(***************************************************************************)
AppliedTxs(h) == UNION {ToSet(Transactions[b]) : b \in ToSet(Path[h])}

(* The transaction index: reindex skips the duplicate check, and with it    *)
(* the creation of the transaction_objects.                                *)
KnownTxs(s) ==
  UNION {ToSet(Transactions[b]) : b \in ToSet(Path[s.head]) \ s.replayed} \cup ToSet(s.pending)

Applicable(s, t) ==
  /\ t \notin KnownTxs(s)
  /\ Needs[t] \subseteq AppliedTxs(s.head) \cup ToSet(s.pending)

_push_transaction(s, t) ==
  LET r == start_undo_session(start_undo_session(s, 0), 1)
      e == IF t \in Executes THEN start_undo_session(r, 2) ELSE r
  IN  IF Applicable(s, t) THEN [e EXCEPT !.pending = Append(@, t)] ELSE Fail(r)

is_known_transaction(s, t) == t \in KnownTxs(s)

(* Mutant: the popped transactions are forgotten. *)
RestorePendingOnly(s, txs) ==
  FoldLeft(LAMBDA r, t : IF is_known_transaction(r, t) THEN r
                         ELSE [_push_transaction(r, t) EXCEPT !.ok = r.ok],
           [s EXCEPT !.pending = <<>>, !.popped = <<>>], txs)

(* ~pending_transactions_restorer: the popped transactions, then the       *)
(* pending ones; an exception is swallowed.                                *)
RestorePending(s, txs) ==
  FoldLeft(LAMBDA r, t : IF is_known_transaction(r, t) THEN r
                         ELSE [_push_transaction(r, t) EXCEPT !.ok = r.ok],
           [s EXCEPT !.pending = <<>>, !.popped = <<>>], s.popped \o txs)

(* database::push_block. *)
PushBlock(s, b) == RestorePending(_push_block([s EXCEPT !.pending = <<>>], b), s.pending)

-----------------------------------------------------------------------------
(***************************************************************************)
(* reindex: replay the log above the loaded objects.  Blocks further than  *)
(* ReplayWindow from the end are applied with the undo database disabled,  *)
(* the others are pushed.  A gap ends the replay and drops what follows.   *)
(***************************************************************************)
UndoPoint(last) == IF last < ReplayWindow THEN 0 ELSE last - ReplayWindow
FlushPoint(last) == IF last < FlushWindow THEN 0 ELSE last - FlushWindow

ReplayBlock(s, i, last) ==
  LET f == IF i = FlushPoint(last)
           THEN [s EXCEPT !.saved = s.head, !.saved_replayed = s.replayed] ELSE s
      b == s.log[i][2]
      mark(r) == IF r.head = b THEN [r EXCEPT !.replayed = @ \cup {b}] ELSE r
  IN  IF ~s.ok \/ s.gap THEN s
      ELSE IF ~EntryValid(s.log[i]) THEN [f EXCEPT !.log = Truncate(@, i - 1), !.gap = TRUE]
      ELSE IF i < UndoPoint(last)
      THEN mark([apply_block(f, b) EXCEPT !.undo = 0])
      ELSE mark(PushBlock(f, b))

(* Mutant: only the last blocks are replayed. *)
reindexRecentOnly(s, last) ==
  IF block_num(s.head) < UndoPoint(last) THEN s
  ELSE FoldLeft(LAMBDA r, i : ReplayBlock(r, block_num(s.head) + i, last),
                s, [i \in 1..(last - block_num(s.head)) |-> i])

(* Mutant: the last block is not replayed. *)
reindexOneShort(s, last) ==
  LET n == block_num(s.head)
  IN  FoldLeft(LAMBDA r, i : ReplayBlock(r, n + i, last), s, [i \in 1..(last - n - 1) |-> i])

reindex(s, last) ==
  LET n == block_num(s.head)
      started ==
        IF n >= UndoPoint(last) /\ n > 0
        THEN IF EntryValid(s.log[n]) THEN [s EXCEPT !.fork = start_block(@, s.log[n][2])] ELSE Fail(s)
        ELSE s
  IN  IF last <= n THEN s
      ELSE FoldLeft(LAMBDA r, i : ReplayBlock(r, n + i, last), started, [i \in 1..(last - n) |-> i])

(* The state open() starts to work on: the objects at base, everything     *)
(* else as constructed, and the log cut after its last valid entry.        *)
Opened(base, base_replayed) ==
  [head |-> base, fork |-> EmptyForkDatabase(ForkMaxSize),
   log |-> Truncate(log, LastHeight(log)), last_store |-> [height |-> 0, old |-> None],
   undo |-> 0, undo_max |-> MinUndoHistory, pending |-> <<>>, popped |-> <<>>,
   replayed |-> base_replayed, saved |-> base, saved_replayed |-> base_replayed,
   trail |-> {}, gap |-> FALSE, ok |-> TRUE]

-----------------------------------------------------------------------------
State ==
  [head |-> head, fork |-> fork, log |-> log, last_store |-> last_store, undo |-> undo,
   undo_max |-> undo_max, pending |-> pending, popped |-> <<>>, replayed |-> replayed,
   saved |-> saved, saved_replayed |-> saved_replayed, trail |-> {}, gap |-> FALSE, ok |-> TRUE]

Become(s) ==
  /\ head' = s.head
  /\ fork' = s.fork
  /\ log' = s.log
  /\ last_store' = s.last_store
  /\ undo' = s.undo
  /\ undo_max' = s.undo_max
  /\ pending' = s.pending
  /\ replayed' = s.replayed
  /\ saved' = s.saved
  /\ saved_replayed' = s.saved_replayed

Init ==
  /\ status = "open"
  /\ head = Genesis
  /\ fork = EmptyForkDatabase(ForkMaxSize)
  /\ log = [i \in Heights |-> None]
  /\ last_store = [height |-> 0, old |-> None]
  /\ undo = 0
  /\ undo_max = MinUndoHistory
  /\ pending = <<>>
  /\ replayed = {}
  /\ saved = Genesis
  /\ saved_replayed = {}
  /\ stops = 0

is_known_block(b) == b \in fork.index \/ (log[block_num(b)] # None /\ log[block_num(b)][1] = b)

(* A block arrives from a peer or from this node's own producer.  The      *)
(* network layer hands a block over after its previous block, and while it *)
(* synchronises it skips the blocks that has_item knows.                   *)
Delivered(b) ==
  /\ Previous[b] \in {Genesis} \cup {c \in Blocks : is_known_block(c)}
  /\ Redelivery \/ ~is_known_block(b)

push_block(b) ==
  /\ status = "open"
  /\ Delivered(b)
  /\ \E s \in {PushBlock(State, b)} : Become(s)
  /\ UNCHANGED <<status, stops>>

push_transaction(t) ==
  /\ status = "open"
  /\ \E s \in {_push_transaction(State, t)} : Become(s)
  /\ UNCHANGED <<status, stops>>

(***************************************************************************)
(* close() rewinds to the last irreversible block as far as the undo       *)
(* history allows, and saves the objects.                                  *)
(***************************************************************************)
Rewound(s) ==
  FoldLeft(LAMBDA r, i :
             LET p == pop_block(r)
             IN  IF ~r.ok THEN r ELSE IF p.ok THEN [p EXCEPT !.fork = remove(@, r.head)] ELSE p,
           s, [i \in 1..(block_num(s.head) - last_irreversible_block_num[s.head]) |-> i])

Down(state) ==
  /\ stops < MaxStops
  /\ stops' = stops + 1
  /\ status' = state
  /\ fork' = EmptyForkDatabase(ForkMaxSize)
  /\ undo' = 0
  /\ undo_max' = MinUndoHistory
  /\ pending' = <<>>
  /\ replayed' = {}
  /\ last_store' = [height |-> 0, old |-> None]
  /\ UNCHANGED head

close ==
  /\ status = "open"
  /\ saved' = Rewound(State).head
  /\ saved_replayed' = Rewound(State).replayed
  /\ Down("closed")
  /\ UNCHANGED log

(* The process dies: the last store may be lost, or torn between the two   *)
(* files of the log.                                                       *)
LogOnDisk ==
  {log} \cup (IF last_store.height = 0 THEN {}
              ELSE {[log EXCEPT ![last_store.height] = e] : e \in {last_store.old, None}})

crash ==
  /\ status = "open"
  /\ log' \in LogOnDisk
  /\ Down("crashed")
  /\ UNCHANGED <<saved, saved_replayed>>

(* The process dies inside push_block, between two of its stores. *)
crash_in_push(b) ==
  /\ status = "open"
  /\ Delivered(b)
  /\ log' \in PushBlock(State, b).trail
  /\ Down("crashed")
  /\ UNCHANGED <<saved, saved_replayed>>

(* flush() renames the old directory away before it renames the new one in.*)
crash_in_flush ==
  /\ status = "open"
  /\ saved' = Genesis
  /\ saved_replayed' = {}
  /\ Down("crashed")
  /\ UNCHANGED log

(***************************************************************************)
(* open(): wipe is the object database being discarded for its version (or *)
(* by a requested replay).  The check that the log is not behind the       *)
(* objects compares block ids, whose first bytes are the height; between   *)
(* two ids of one height the outcome depends on their hashes.              *)
(***************************************************************************)
open(wipe) ==
  /\ status # "open"
  /\ \E hash_order \in BOOLEAN :
       LET s == IF wipe THEN Opened(Genesis, {}) ELSE Opened(saved, saved_replayed)
           last == LastHeight(log)
           behind ==
             \/ last < block_num(s.head)
             \/ last = block_num(s.head) /\ log[last][1] # s.head /\ hash_order
           r == IF last = 0 THEN s ELSE IF behind THEN Fail(s) ELSE reindex(s, last)
       IN  IF r.ok
           THEN Become(r) /\ status' = "open"
           ELSE /\ status' = "failed"
                /\ log' = r.log /\ saved' = r.saved /\ saved_replayed' = r.saved_replayed
                /\ UNCHANGED <<head, fork, last_store, undo, undo_max, pending, replayed>>
  /\ UNCHANGED stops

Next ==
  \/ \E b \in Blocks : push_block(b)
  \/ \E t \in Txs : push_transaction(t)
  \/ close
  \/ crash
  \/ \E b \in Blocks : crash_in_push(b)
  \/ crash_in_flush
  \/ \E wipe \in BOOLEAN : open(wipe)

Spec == Init /\ [][Next]_vars

(***************************************************************************)
(* Fairness: a peer that has a block keeps offering it until the node has  *)
(* taken it, and a node that is down is started again.  PushMatters is the *)
(* enabling condition of <<push_block(b)>>_vars, so the second conjunct is *)
(* WF_vars(push_block(b)) for every b.                                     *)
(***************************************************************************)
PushMatters(b) ==
  /\ status = "open"
  /\ Delivered(b)
  /\ LET s == PushBlock(State, b)
     IN  <<s.head, s.fork, s.log, s.last_store, s.undo, s.undo_max, s.pending>>
           # <<head, fork, log, last_store, undo, undo_max, pending>>

FairSpec ==
  /\ Spec
  /\ \A b \in Blocks : []<>~PushMatters(b) \/ []<><<push_block(b)>>_vars
  /\ []<>(status \in {"open", "failed"})

-----------------------------------------------------------------------------
(* Assumption on the block tree: a longer chain contains every block that  *)
(* a shorter one has made irreversible.                                    *)
ForksAboveIrreversible ==
  \A b, c \in Blocks :
    block_num(c) > block_num(b) =>
      IsPrefix(SubSeq(Path[b], 1, last_irreversible_block_num[b]), Path[c])

(* The block log holds exactly the applied chain up to the head: after any *)
(* sequence of pushes, switches and restarts, the slot of every height     *)
(* holds the id and the data of the block applied there (_push_block,      *)
(* block_database::store).                                                 *)
LogMatchesChain ==
  status = "open" => \A i \in 1..block_num(head) : log[i] = <<Path[head][i], Path[head][i]>>

(* A transaction that was applied or pending is still applied or pending   *)
(* after a push, also across a fork switch that pops its block, unless     *)
(* something it needs is gone (_popped_tx, pending_transactions_restorer). *)
NoTransactionLost ==
  [][LET before == AppliedTxs(head) \cup ToSet(pending)
         after == AppliedTxs(head') \cup ToSet(pending')
     IN  status = "open" /\ status' = "open" =>
           \A t \in before \ after : ~(Needs[t] \subseteq after)]_vars

(* push_block moves the head to a higher block or leaves it where it was:  *)
(* a switch that fails is unwound completely ("every partial change is     *)
(* unwound", comment of push_block).                                       *)
HeadMovesUp ==
  [][status = "open" /\ status' = "open" =>
       head' = head \/ block_num(head') > block_num(head)]_vars

(* After a clean close, open() comes back to the head the node had.        *)
CleanRestartRecoversHead ==
  [][status = "closed" /\ status' # "closed" => status' = "open" /\ head' = head]_vars

(* A restart, after a crash at any point too, keeps every block that was   *)
(* irreversible on the chain the node went down with.                      *)
RestartKeepsIrreversible ==
  [][status # "open" /\ status' = "open" =>
       IsPrefix(SubSeq(Path[head], 1, last_irreversible_block_num[head]), Path[head'])]_vars

(* A node that is offered every block ends up, for good, at the height of  *)
(* the longest valid chain (fork choice of _push_block).                   *)
Convergence ==
  LET valid == {b \in Blocks : ToSet(Path[b]) \subseteq Valid}
  IN  <>[](status = "failed" \/ block_num(head) = Max({block_num(b) : b \in valid}))

=============================================================================
