SPECIFICATION Spec
CONSTANTS
  ValvePrime = 5
  ValveCloseDelay = 3
  KillHold = 3
  MaxCrank = 5
  MaxChoke = 30
  MaxChokePrep = 15
  MaxUnchokeDelay = 5
  RecrankGap = 10
  WaterDebounce = 1
  WaterGrace = 15
  DefaultTimings <- MCDefaultTimings
  IntakeValveEnabled = TRUE
  WaterInterlockRequired = FALSE
  Operations <- MCAllOperations
  Overrides = {FALSE}
  RequestedTimings <- MCRequestedTimings
  RequestIds = {}
  NoRequestId = none
  IdempotencySlots = 1
  Steps = {0, 1, 5}
  StateHorizon = 15
INVARIANTS
  StarterHasIntake
