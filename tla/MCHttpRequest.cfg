SPECIFICATION RequestSpec
CONSTANTS
  MaxHeaderBytes = 9
  MaxLineBytes = 2
  UintMax = 42
  UintDigits = 2
  MaxTiming <- MCLimits
  DefaultTiming <- MCDefaults
  RequireRequestId = FALSE
  MaintenanceApi = FALSE
  SecretConfigured = TRUE
  RequestLines <- MCRequestLines
  HeaderLines <- MCHeaderLines
INVARIANTS
  RequestTypeOK
  ExecutedAsWritten
  SecretBeforeRoute
