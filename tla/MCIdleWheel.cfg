SPECIFICATION WheelSpec
CONSTANTS
  Peers = {c1, c2}
  IdleSeconds = 8
  MaxTurns = 10
PROPERTIES LivesIdleSeconds
CHECK_DEADLOCK FALSE
