SPECIFICATION MCSpec
CONSTANTS
  InputWidth = 6
  InputHeight = 6
  ClassCount = 2
  CandidateCount = 3
  MaxSide = 9
  MaxPixels = 70
  ConfidenceThreshold = 1
  NmsPercent = 45
  Images <- MCImages
  Outputs <- MCOutputs
  Workers = {w1, w2}
  Main = main
  GoodImages = {i1, i2}
  BadImages = {broken}
  None = none
  Engines <- MCEngines
  Arguments <- MCArguments
  Findings <- MCFindings
INVARIANTS FrameRight TensorInBounds SelectionRight OwnDetections HeldExactlyWhenLoaded
CHECK_DEADLOCK FALSE
