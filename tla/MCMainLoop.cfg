SPECIFICATION FairLoopSpec
CONSTANTS
  ValvePrime = 2
  ValveCloseDelay = 1
  KillHold = 1
  MaxCrank = 2
  MaxChoke = 6
  MaxChokePrep = 1
  MaxUnchokeDelay = 1
  RecrankGap = 4
  WaterDebounce = 1
  WaterGrace = 6
  DefaultTimings <- MCTimings
  IntakeValveEnabled = TRUE
  WaterInterlockRequired = FALSE
  Operations <- MCOperations
  Overrides = {FALSE, TRUE}
  RequestedTimings <- MCRequested
  RequestIds = {}
  NoRequestId = none
  IdempotencySlots = 8
  Steps = {0, 1}
  StateHorizon = 2
  HttpOperations = {"START", "STOP", "START_FAILED", "RESET_IDLE"}
  Lines = {"start", "stop", "failed", "reset", "test", "scan", "hang", "kill on", "starter off"}
  LinesPerPass = 2
  LampPulse = 1
  LampGap = 1
  RadioTimes = {1, 2}
INVARIANTS
  LoopTypeOK
  EveryRelayHasAnOwner
PROPERTIES
  OverrunNeedsScan
  LampTestEnds
