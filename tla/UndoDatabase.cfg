\* An index with a unique order besides by_id (listings by hash): a restore may
\* throw, which ends the process, so a state without successor is no error.
\* Two sizes, so that set_max_size shrinks and grows the history; the smaller is
\* one less than the sessions open at once, as in the code (2 and 3).
SPECIFICATION Spec
CONSTANTS
  v1 = v1
  v2 = v2
  v3 = v3
  Values <- MCValues
  None = None
  MaxId = 2
  UniqueKey = TRUE
  MaxSizes = {1, 2}
  MaxDepth = 2
CHECK_DEADLOCK FALSE
INVARIANTS
  UndoRecordsExact
  OpenSessionsKept
  SecondaryNeverDangles
PROPERTY
  ImplementsSnapshots
SYMMETRY Symmetry
