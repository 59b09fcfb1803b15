SPECIFICATION MCSpec
CONSTANTS
  PollInterval = 1
  ConnectTimeout = 4
  DhcpTimeout = 5
  RetryInterval = 5
  NetSteps = {0, 1, 3}
  ScanTimes = {0, 1, 3}
  SampleInterval = 3
  CrankSample = 1
  Settle = 8
  Voltages = {1, 2, 3}
  BatterySteps = {0, 1, 2, 5}
  TankInterval = 1
  SampleCount = 4
  MinSamples = 3
  Significance = 3
  SlopeFloor = 40
  Volts = {0, 1, 2, 3, 4, 5, 6}
  MinValid = 1
  Zero = 2
  FullScale = 4
  MaxValid = 5
  TankSteps = {0, 1, 2}
  MaxResets = 3
INVARIANTS
  RestingMeansRested
  CrankMinIsPublished
  TrendIsEarned
PROPERTIES
  ReportIsTrue
  ScanCostsOnePass
  NetIsReached
