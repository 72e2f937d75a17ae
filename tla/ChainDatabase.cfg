\* Valid blocks only, delivered in any order and again; one stop or crash anywhere.
CONSTANTS
  Blocks <- TreeBlocks
  Genesis = "genesis"
  Null = "null"
  Previous <- TreePrevious
  Witnesses <- TreeWitnesses
  Witness <- TreeWitness
  Valid <- TreeBlocks
  FailsLate = {}
  Txs <- MCTxs
  Transactions <- TreeTransactions
  Needs <- MCNeeds
  Executes = {"t"}
  MinUndoHistory = 2
  MaxUndoHistory = 10
  ForkMaxSize = 5
  ReplayWindow = 4
  FlushWindow = 5
  Redelivery = TRUE
  MaxStops = 1
SPECIFICATION Spec
INVARIANTS
  LogMatchesChain
PROPERTIES
  NoTransactionLost
  CleanRestartRecoversHead
  RestartKeepsIrreversible
