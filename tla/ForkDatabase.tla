---------------------------- MODULE ForkDatabase ----------------------------
(***************************************************************************)
(* The fork database (libraries/chain/fork_database.cpp): the recent       *)
(* blocks of every branch, and the head of the longest one.                *)
(*                                                                         *)
(* A block is a model value; its header is the constant Previous, and its  *)
(* height follows from it (block_num() is read from the previous id).  The *)
(* state is a record with the fields                                       *)
(*   index     the blocks of _index,                                       *)
(*   head      the block of _head, or Null,                                *)
(*   max_size  _max_size,                                                  *)
(*   cut       the items whose prev pointer is empty or has expired.       *)
(*                                                                         *)
(* prev is a weak pointer to an item owned by _index (or by _head): an     *)
(* item keeps its prev while the parent is in the index.  Erasing a parent *)
(* cuts its children, and pushing the parent again does not mend them.     *)
(* _unlinked_index is always empty: push_block rethrows before it inserts. *)
(* Pushing a block that is already in the index leaves the item there      *)
(* (hashed_unique); _head then points at an equal item outside the index,  *)
(* which is not told apart from the one inside.                            *)
(***************************************************************************)
EXTENDS Integers, FiniteSets, Sequences, FiniteSetsExt, SequencesExt

CONSTANTS
  Blocks,     \* the blocks that exist
  Genesis,    \* the null block id, which the first block names as previous
  Null,       \* no block
  Previous    \* Previous[b]: the block header's previous

ASSUME BlocksAssumption ==
  /\ Genesis \notin Blocks
  /\ Null \notin Blocks \cup {Genesis}
  /\ Previous \in [Blocks -> Blocks \cup {Genesis}]

(* The chain from the first block to b, and the height of b. *)
Path[b \in Blocks \cup {Genesis}] ==
  IF b = Genesis THEN <<>> ELSE Append(Path[Previous[b]], b)

block_num(b) == Len(Path[b])

EmptyForkDatabase(size) ==
  [index |-> {}, head |-> Null, max_size |-> size, cut |-> {}]

(* Erasing items of the index: their children lose their prev. *)
Erase(f, gone) ==
  LET left == (f.index \ gone) \cup {f.head}
  IN  [f EXCEPT !.index = @ \ gone,
                !.cut = {b \in left \ {Null} : b \in @ \/ Previous[b] \in gone}]

start_block(f, b) ==
  [f EXCEPT !.index = @ \cup {b}, !.head = b, !.cut = @ \cup {b}]

(* The two checks of _push_block. *)
TooOld(f, b) ==
  /\ f.head # Null
  /\ block_num(b) <= Max({0, block_num(f.head) - f.max_size})

Links(f, b) == f.head = Null \/ Previous[b] = Genesis \/ Previous[b] \in f.index

CanPush(f, b) == ~TooOld(f, b) /\ Links(f, b)

(* _push_block past its checks; push_block returns the head it leaves. *)
Insert(f, b) ==
  IF b \in f.index THEN f
  ELSE [f EXCEPT !.index = @ \cup {b},
                 !.cut = IF f.head # Null /\ Previous[b] \in f.index
                         THEN @ \ {b} ELSE @ \cup {b}]

(* Mutant: the head stays where it is. *)
fork_push_keeps_head(f, b) ==
  IF f.head = Null THEN [Insert(f, b) EXCEPT !.head = b] ELSE Insert(f, b)

fork_push_block(f, b) ==
  LET g == Insert(f, b)
  IN  IF f.head = Null THEN [g EXCEPT !.head = b]
      ELSE IF block_num(b) > block_num(f.head)
      THEN Erase([g EXCEPT !.head = b],
                 {c \in g.index :
                    block_num(c) < block_num(b) - Min({f.max_size, block_num(b)})})
      ELSE g

set_max_size(f, size) ==
  IF f.head = Null THEN [f EXCEPT !.max_size = size]
  ELSE Erase([f EXCEPT !.max_size = size],
             {c \in f.index : block_num(c) < Max({0, block_num(f.head) - size})})

(* pop_block asserts that there is a head and that its prev is alive. *)
CanPop(f) == f.head # Null /\ f.head \notin f.cut

fork_pop_block(f) == [f EXCEPT !.head = Previous[@]]

set_head(f, b) == [f EXCEPT !.head = b]

remove(f, b) == Erase(f, {b})

(***************************************************************************)
(* fetch_branch_from: walk both branches back to the same height and then  *)
(* until the two items have the same previous.  When one block is an       *)
(* ancestor of the other the walk ends at that block itself, which is then *)
(* part of both branches.  Branch is oldest first, the order the caller    *)
(* applies it in.                                                          *)
(***************************************************************************)
PreviousAt(b, k) == IF k = 1 THEN Genesis ELSE Path[b][k - 1]

BranchStart(first, second) ==
  Max({k \in 1..Min({block_num(first), block_num(second)}) :
         PreviousAt(first, k) = PreviousAt(second, k)})

Branch(first, second) ==
  SubSeq(Path[first], BranchStart(first, second), block_num(first))

(* Every step of the walk follows a live prev; otherwise it throws. *)
Walkable(f, first, second) ==
  /\ {first, second} \subseteq f.index
  /\ \A b \in {first, second} :
       \A k \in (BranchStart(first, second) + 1)..block_num(b) : Path[b][k] \notin f.cut
=============================================================================
