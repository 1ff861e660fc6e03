CONSTANTS
  Installations <- MCInstallations
  Requests <- MCRequests
  Wanted <- MCWanted
  Settings <- MCSettings
  Bounds <- MCBounds
  Timings <- MCTimings
SPECIFICATION ServiceSafe
INVARIANTS InvalidCounted
CHECK_DEADLOCK FALSE
