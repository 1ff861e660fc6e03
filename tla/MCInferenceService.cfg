CONSTANTS
  Installations <- MCInstallations
  Requests <- MCRequests
  Wanted <- MCWanted
  Settings <- MCSettings
  Bounds <- MCBounds
  Timings <- MCTimings
SPECIFICATION ServiceSpec
INVARIANTS RoutedRight AnswerDeserved MetricsAgree
PROPERTIES AcceptedAnswered
CHECK_DEADLOCK FALSE
