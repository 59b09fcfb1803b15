SPECIFICATION Spec
CONSTANTS
  ValvePrime = 2
  ValveCloseDelay = 1
  KillHold = 1
  MaxCrank = 2
  MaxChoke = 4
  MaxChokePrep = 0
  MaxUnchokeDelay = 1
  RecrankGap = 1
  WaterDebounce = 0
  WaterGrace = 1
  DefaultTimings <- MCCoarseTimings
  IntakeValveEnabled = TRUE
  WaterInterlockRequired = FALSE
  Operations <- MCAllOperations
  Overrides = {FALSE, TRUE}
  RequestedTimings <- MCCoarseRequests
  RequestIds = {r1}
  NoRequestId = none
  IdempotencySlots = 1
  Steps = {1, 2}
  StateHorizon = 2
INVARIANTS
  TypeOK
  StarterExcludesKill
  CrankCeiling
  ChokeCeiling
  CrankIsPrimed
  StartedEngineHasIntake
  OverrideDiesWithSequence
PROPERTIES
  DryStarterIsShed
  ChokeSlipsOnce
