CONSTANTS
  Accounts = {1, 2, 3}
  Keys = {1, 2}
  Committee = 3
  MaxDepth = 1
  Proposed <- MCProposed
  Authorities <- MCAuthorities
  Owner <- MCOwner
  Graphs <- MCGraphs
  MaxLifetime = 2
  CommitteeReview = 1
  NoReview <- NoReviewPeriod
  MaxProposals = 2
  MaxApprovals = 2
  MaxTime = 2
SPECIFICATION Spec
CHECK_DEADLOCK FALSE
INVARIANTS
  VerifyExact
  
PROPERTIES
  ExecutionAuthorized
  FinalAttempt
