-------------------------- MODULE MCTransactionPool --------------------------
(* Instance of TransactionPool for TLC. *)
EXTENDS TransactionPool
=============================================================================
