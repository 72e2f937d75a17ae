\* Five blocks, two of them with operations, at least three of them with
\* maintenance; missed slots; more pay than the reserve allows.
SPECIFICATION Spec
CONSTANTS
  alice = alice
  bob = bob
  committee = committee
  null = null
  wit = wit
  ByName <- MCByName
  Founder = alice
  Witnesses = {alice, wit}
  ChainAccounts = {committee, null}
  NullAccount = null
  Referrer <- MCReferrer
  Registrar <- MCRegistrar
  NetworkPercent = 20
  ReferrerPercent = 50
  InitialBalance <- MCInitialBalance
  MaxSupply = 1000
  InitialTime = 4
  BlockInterval = 2
  MaintenanceInterval = 4
  Day = 4
  CycleRate = 1
  CycleUnit = 64
  GenesisParameters <- MCGenesisParameters
  Workers <- MCWorkers
  Brackets <- MCBrackets
  BonusLimit <- MCBonusLimit
  FounderRate = 2
  WitnessRates <- MCWitnessRates
  WitnessTimes <- MCWitnessTimes
  Contents <- MCContents
  MissedSlots = {0, 1}
  MaxBlocks = 5
  MaxBusyBlocks = 2
INVARIANTS
  SupplyAccounted
  BudgetLasts
  VestingSound

  
