\* Valid blocks only, no stops: the node follows the longest chain.
CONSTANTS
  Blocks <- TreeBlocks
  Genesis = "genesis"
  Null = "null"
  Previous <- TreePrevious
  Witnesses <- TreeWitnesses
  Witness <- TreeWitness
  Valid <- TreeBlocks
  FailsLate = {}
  Txs <- MCTxs
  Transactions <- TreeTransactions
  Needs <- MCNeeds
  Executes = {}
  MinUndoHistory = 2
  MaxUndoHistory = 10
  ForkMaxSize = 5
  ReplayWindow = 4
  FlushWindow = 5
  Redelivery = FALSE
  MaxStops = 0
SPECIFICATION FairSpec
PROPERTY Convergence
