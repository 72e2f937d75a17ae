--------------------------- MODULE MCChainDatabase ---------------------------
(***************************************************************************)
(* A small block tree for ChainDatabase.  No fork of it                    *)
(* branches off below a block that a lower head already made irreversible  *)
(* (ForksAboveIrreversible): more than 30% of the witnesses would have to  *)
(* sign both sides.                                                        *)
(***************************************************************************)
EXTENDS ChainDatabase

(* Three branches: a and b part after a2, and c leaves a after a3, so a    *)
(* node can switch twice.  Transaction s is in both a3 and b4, t in a4.    *)
TreePrevious ==
  [a1 |-> "genesis", a2 |-> "a1", a3 |-> "a2", a4 |-> "a3", a5 |-> "a4",
   b3 |-> "a2", b4 |-> "b3", b5 |-> "b4",
   c4 |-> "a3", c5 |-> "c4", c6 |-> "c5"]
TreeBlocks == DOMAIN TreePrevious
TreeWitness ==
  [a1 |-> "u", a2 |-> "v", a3 |-> "w", a4 |-> "x", a5 |-> "y",
   b3 |-> "x", b4 |-> "y", b5 |-> "w",
   c4 |-> "y", c5 |-> "u", c6 |-> "v"]
TreeWitnesses == {"u", "v", "w", "x", "y"}
TreeTransactions ==
  [b \in TreeBlocks |-> IF b \in {"a3", "b4"} THEN <<"s">>
                        ELSE IF b = "a4" THEN <<"t">> ELSE <<>>]

(* Blocks that do not apply, each in the middle of a branch. *)
ValidInTree == TreeBlocks \ {"b4", "c5"}

MCTxs == {"s", "t"}
MCNeeds == [s |-> {}, t |-> {"s"}]

ASSUME ForksAboveIrreversible
=============================================================================
