\* Two invalid blocks: one fails late, in the middle of a branch, the other early.
CONSTANTS
  Blocks <- TreeBlocks
  Genesis = "genesis"
  Null = "null"
  Previous <- TreePrevious
  Witnesses <- TreeWitnesses
  Witness <- TreeWitness
  Valid <- ValidInTree
  FailsLate = {"b4"}
  Txs <- MCTxs
  Transactions <- TreeTransactions
  Needs <- MCNeeds
  Executes = {}
  MinUndoHistory = 2
  MaxUndoHistory = 10
  ForkMaxSize = 5
  ReplayWindow = 4
  FlushWindow = 5
  Redelivery = FALSE
  MaxStops = 1
SPECIFICATION Spec
PROPERTY HeadMovesUp
