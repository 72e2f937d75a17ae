\* Two nodes, three witnesses, changes of the active set, crashes and long outages.
SPECIFICATION Spec
CONSTANTS
  n1 = n1
  n2 = n2
  w1 = w1
  w2 = w2
  w3 = w3
  Nodes = {n1, n2}
  Witnesses = {w1, w2, w3}
  ActiveSets <- MCActiveSets
  Runs <- MCRuns
  Keys <- MCKeys
  Stale = {n1}
  Required <- MCRequired
  Intervals = {2}
  MaintenanceInterval = 4
  SkipSlots = 1
  Threshold = 70
  MaxUndoHistory = 3
  Window = 1
  Round = 2
  Fold = 4
  MaxCrashes = 1
INVARIANTS
  SlotsAgree
  
  
PROPERTIES
  IrreversibleByThreshold
  ChainGrows
  NodesResync
