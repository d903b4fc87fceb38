SPECIFICATION Spec
CHECK_DEADLOCK FALSE
CONSTANTS
  good = good
  skipped = skipped
  wide = wide
  task = task
  other = other
  narrow = narrow
  broad = broad
  control = control
  rival = rival
  stray = stray
  b1 = b1
  b2 = b2
  None = None
  NoArtifact = NoArtifact
  Trees = {good, skipped, wide}
  Contracts = {task, other}
  Plans = {narrow, broad, control, rival, stray}
  ContractOf <- MCContractOf
  PlanOf <- MCPlanOf
  ChecksOfRisk <- MCChecksOfRisk
  Branch = task
  History = {b1}
  Changed <- MCChanged
  Mergeable <- MCMergeable
  Scans <- MCScans
  Builds = {good, skipped, wide}
  Clean = {good, skipped}
  UnitCases <- MCUnitCases
  AcceptanceCases <- MCAcceptanceCases
  Openings <- MCOpenings
  Paths <- MCPaths
  Covers <- MCCovers
  Globs <- MCGlobs
  Heads <- MCHeads
  Beginnings <- MCBeginnings
  Dotted <- MCDotted
  PathRisk <- MCPathRisk
  OperationRisk <- MCOperationRisk
  MaxTurns = 2
  MaxEvents = 1
INVARIANTS TypeOK ReadyIsSupported PassIsCurrent GateInv OnceInv ValidPlanIsBounded
PROPERTIES EveryTurnEnds EachStepCounts
